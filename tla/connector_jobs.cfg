CONSTANTS
    importer = importer
    retrier = retrier
    live = live
    recorder = recorder
    pilot = pilot
    operator = operator
    Nil = Nil
    Importers = {importer}
    Retriers = {retrier}
    Lives = {live}
    Recorders = {recorder}
    Pilots = {pilot, operator}
    Sharing <- EveryConnector
    MaxAttempts = 2
    MaxCalls = 3
    MaxDeaths = 1
SPECIFICATION ReportSpec
INVARIANTS
    ReportsAgree
    CheckpointIsLatestSuccess
    BlockedByDeaths
PROPERTIES
    EventuallyRetried
CHECK_DEADLOCK FALSE
