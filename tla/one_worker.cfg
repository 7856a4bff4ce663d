CONSTANTS
    e1 = e1
    e2 = e2
    e3 = e3
    k1 = k1
    k2 = k2
    good = good
    broken = broken
    bare = bare
    s1 = s1
    s2 = s2
    w1 = w1
    w2 = w2
    src = src
    Nil = Nil
    KeyOf <- Keys
    SourceOf <- OneSource
    Events = {e1, e2, e3}
    Payloads = {good, broken, bare}
    Malformed = {broken}
    RecordLess = {bare}
    Senders = {s1}
    Workers = {w1}
    Limit = 1
    MaxAttempts = 2
    MaxDeliveries = 3
    MaxCrashes = 1
SPECIFICATION Spec
INVARIANTS
    AttemptsBounded
    StatusIsHistory
    StrandedByCrashes
PROPERTIES
    OvertakesOnlyRetries
    BacklogIsInbox
CHECK_DEADLOCK FALSE
