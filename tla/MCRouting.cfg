SPECIFICATION Spec
CONSTANTS
    i1 = i1
    i2 = i2
    small = small
    large = large
    Intent = {i1, i2}
    Solver = {small, large}
    NoSolver = NoSolver
    Job = {j1, j2}
    NoJob = NoJob
    Amount <- MCAmount
    GasBuffer = 1
    Capital <- MCCapital
    TierCap <- MCTierCap
    SuccessRate <- MCSuccessRate
    Address <- MCAddress
    Hold = 2
    Lag = 1
    Patience = 1
    MayLoseReceipt = FALSE
    BootOutlastsLag = TRUE
    MaxTx = 3
    MaxCrashes = 2
    MaxTime = 4
INVARIANTS TypeOK CapitalCovers CommitmentsCounted NoLeakedReservation
SYMMETRY JobSymmetry
CHECK_DEADLOCK FALSE
