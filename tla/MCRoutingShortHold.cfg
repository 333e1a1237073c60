SPECIFICATION Spec
CONSTANTS
    i1 = i1
    i2 = i2
    small = small
    large = large
    Intent = {i1, i2}
    Solver = {small, large}
    NoSolver = NoSolver
    Job = {j1, j2}
    NoJob = NoJob
    Amount <- MCAmount
    GasBuffer = 1
    Capital <- MCCapital
    TierCap <- MCTierCap
    SuccessRate <- MCSuccessRate
    Address <- MCAddress
    Hold = 2
    Lag = 2
    Patience = 1
    MayLoseReceipt = FALSE
    BootOutlastsLag = TRUE
    MaxTx = 3
    MaxCrashes = 0
    MaxTime = 4
INVARIANTS CapitalCovers
SYMMETRY JobSymmetry
CHECK_DEADLOCK FALSE
