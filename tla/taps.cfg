SPECIFICATION TapSpec
CONSTANTS
    root = root
    u = u
    i1 = i1
    i2 = i2
    i3 = i3
    c1 = c1
    c2 = c2
    p1 = p1
    d1 = d1
    d2 = d2
    f1 = f1
    Items = {u, i1, i2, i3, c1, c2, p1, d1, d2, f1}
    StreamOf <- MCStreamOf
    Place <- MCPlace
    ByUpdate = {"issues", "comments"}
    Folders = {d1, d2}
    Root = root
    PageSize = 1
    StreamLimit = 3
    MaxChanges = 2
    Nil = Nil
INVARIANTS
    StreamsAreWhole
PROPERTY
    TapEnds
CHECK_DEADLOCK FALSE
