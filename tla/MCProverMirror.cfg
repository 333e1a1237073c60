SPECIFICATION Spec
CONSTANTS
    Intent = {i1}
    NoIntent = NoIntent
    Prover = {p1, p2}
    Reconciler = {r1}
    MAX_PROVER_RETRIES = 2
    RecordMayFail = FALSE
    MaxBlock = 2
    MaxMoves = 1
    MaxDeliveries = 1
    MaxCrashes = 0
INVARIANT RecordMirrorsLedger
CHECK_DEADLOCK FALSE
