CONSTANTS
    d = d
    w = w
    d1 = d1
    d2 = d2
    w1 = w1
    Nil = Nil
    Refs = {d, w}
    Versions = {d1, d2, w1}
    RefOf <- MCRefOf
    UnitsOf <- MCUnitsOf
    LinksOf <- MCLinksOf
    BodyUnits <- MCBodyUnits
    Initially = {d1, w1}
    MaxWrites = 1
    MaxJobs = 2
SPECIFICATION Spec

PROPERTIES
    RebuildsEveryUnit
