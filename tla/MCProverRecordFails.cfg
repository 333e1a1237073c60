SPECIFICATION FairSpec
CONSTANTS
    Intent = {i1, i2}
    NoIntent = NoIntent
    Prover = {p1, p2}
    Reconciler = {}
    MAX_PROVER_RETRIES = 2
    RecordMayFail = TRUE
    MaxBlock = 2
    MaxMoves = 1
    MaxDeliveries = 1
    MaxCrashes = 0
PROPERTY RecordsStopNothing
CHECK_DEADLOCK FALSE
