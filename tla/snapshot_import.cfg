CONSTANTS
    r1 = r1
    r2 = r2
    run = run
    Nil = Nil
    Listable = {r1, r2}
    Pages = 2
    RefOn <- OneOnEach
    Runs = {run}
    Limit = 2
    MaxEdits = 2
    MaxOrders = 1
    MaxFailures = 1
SPECIFICATION FairSpec
INVARIANTS
    SnapshotIsRecent
    OrdersOutliveImports
PROPERTIES
    EventuallyMirrors
