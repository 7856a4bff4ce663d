SPECIFICATION Spec
CONSTANTS
    Payloads <- MCPayloads
    FullNames = {"Ann Lee"}
    MaxSteps = 3
    MaxWords = 4
    OverlapWords = 1
    SourceLimit = 1
    MaxBatch = 3
    DescribedWords = 2
    Nil = Nil
INVARIANTS
    LinksFollowSources
    UnitsCoverText
    HiddenStaysHidden
PROPERTY
    RowsAreAccountedFor
CHECK_DEADLOCK FALSE
