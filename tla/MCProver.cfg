SPECIFICATION FairSpec
CONSTANTS
    Intent = {i1}
    NoIntent = NoIntent
    Prover = {p1, p2}
    Reconciler = {r1}
    MAX_PROVER_RETRIES = 2
    RecordMayFail = TRUE
    MaxBlock = 2
    MaxMoves = 2
    MaxDeliveries = 2
    MaxCrashes = 1
INVARIANTS SettledWasOnChain NoSecondPayout RecordsClaimNoMore
PROPERTY QueueDrains
CHECK_DEADLOCK FALSE
