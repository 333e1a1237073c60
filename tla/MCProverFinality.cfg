SPECIFICATION Spec
CONSTANTS
    Intent = {i1}
    NoIntent = NoIntent
    Prover = {p1, p2}
    Reconciler = {}
    MAX_PROVER_RETRIES = 2
    RecordMayFail = FALSE
    MaxBlock = 2
    MaxMoves = 2
    MaxDeliveries = 1
    MaxCrashes = 0
INVARIANT FinalIsOnChain
CHECK_DEADLOCK FALSE
