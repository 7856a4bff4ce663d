CONSTANTS
    d = d
    e = e
    f = f
    p = p
    d1 = d1
    d2 = d2
    e1 = e1
    f1 = f1
    p1 = p1
    thread = thread
    Nil = Nil
    Refs = {d, e, f, p}
    Versions = {d1, d2, e1, f1, p1}
    RefOf <- MCRefOf
    UnitsOf <- MCUnitsOf
    LinksOf <- MCLinksOf
    Initially = {d1, e1, f1, p1}
    MaxWrites = 2
    Keyword <- MCKeyword
    Fuzzy <- MCFuzzy
    Similar <- MCSimilar
    Persons = {p}
    Thread <- MCThread
    NameMatches = {p1, d1}
    Cost <- MCCost
    WorkItems = {e}
    Topical = {e1}
    TitleMatches = {p1}
    FullyNamed = {p1}
    Order <- MCOrder
    CandidateLimit = 5
    TokenBudget = 4
SPECIFICATION Spec
INVARIANTS
    UnseenOnlyByVector
    SerialIndexServesActive
    PackedWithinBudget
