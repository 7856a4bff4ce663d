CONSTANTS
    d = d
    e = e
    p = p
    q = q
    d1 = d1
    d2 = d2
    e1 = e1
    p1 = p1
    q1 = q1
    thread = thread
    name = name
    eng = eng
    ana = ana
    groupEng = groupEng
    groupStaff = groupStaff
    groupBoard = groupBoard
    everyone = everyone
    operator = operator
    operators = operators
    Nil = Nil
    Refs = {d, e, p, q}
    Versions = {d1, d2, e1, p1, q1}
    RefOf <- MCRefOf
    UnitsOf <- MCUnitsOf
    LinksOf <- MCLinksOf
    Initially = {d1, e1, p1, q1}
    MaxWrites = 2
    Keyword <- MCKeyword
    Fuzzy <- MCFuzzy
    Order <- MCOrder
    CandidateLimit = 5
    PermRefs = {eng, ana, groupEng, groupStaff, groupBoard, everyone, operator, operators}
    PermsOf <- MCPermsOf
    Claims = {eng}
    Operator = operator
    Human = ana
    GroupOf <- MCGroupOf
    Inherits <- MCInherits
    Employees = {p}
    ProjectOf <- MCProjectOf
    Thread <- MCThread
    FirstName <- MCFirstName
    FullyNamed = {}
    Kind <- MCKind
    Mailbox <- MCMailbox
SPECIFICATION Spec
INVARIANTS
    PackIsVisible
    DeniedOnlyWhenChanged
    FoundWhenPermitted
