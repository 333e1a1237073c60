SPECIFICATION Spec
CONSTANTS
    sol = sol
    rival = rival
    Account = {user, sol, rival, key}
    NoAccount = NoAccount
    treasury = key
    owner = key
    NonPayable = {}
    Eth = Eth
    Token = {}
    Amount = {2}
    Expiry = {1}
    Limit = {}
    MaxLimit = 9
    REFUND_GRACE = 1
    VOLUME_WINDOW = 1
    MaxIntents = 3
    MaxTime = 2
    User = {user}
    Solver = {sol, rival}
    OrchestratorKey = key
    Exclusion <- Excluding
    OnboardingTier <- MiddleTier
    PromoteMinResolved = 1
    PromoteMinSuccess = 95
    DemoteMinResolved = 1
    DemoteMaxSuccess = 80
    StaleReads = TRUE
INVARIANTS CacheIsTrue NeverOvercounts PromotionIsEarned
CHECK_DEADLOCK FALSE
