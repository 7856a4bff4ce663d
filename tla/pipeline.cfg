CONSTANTS
    c1 = c1
    c2 = c2
    hourly = hourly
    other = other
    Nil = Nil
    Connectors = {c1, c2}
    Configured = {c1}
    Broken = {c2}
    JobRun = hourly
    OtherRuns = {other}
    VerifyLiveDb = TRUE
    MaxVersion = 1
    MaxFaults = 1
SPECIFICATION FairSpec
INVARIANTS
    ReportsAreTrue
PROPERTIES
    EventuallyServed
    FreshAgain
