CONSTANTS
    r1 = r1
    r2 = r2
    r3 = r3
    i1 = i1
    i2 = i2
    v1 = v1
    v2 = v2
    a1 = a1
    a2 = a2
    Nil = Nil
    Refs = {r1, r2, r3}
    Ids = {i1, i2}
    Versions = {v1, v2}
    PinnedVersions = {v2}
    Appliers = {a1}
    RawAppliers = {a1}
    Batches <- AnyBatch
    Cites <- CitesOther
    MaxAborts = 2
SPECIFICATION KindSpec
INVARIANTS
    UnitsMatchRows
    CompletedStoreRepairs
    QuietConsistency
    LinksJoinObjects
    OneRowPerSource
PROPERTIES
    PublishedByNewUnits
    ImportsKeepOperatorHolds
