SPECIFICATION Spec
CONSTANTS
    Account = {user, sol, sol2, rival, key}
    NoAccount = NoAccount
    treasury = key
    owner = key
    NonPayable = {}
    Eth = Eth
    Token = {}
    Amount = {2}
    Expiry = {2}
    Limit = {}
    MaxLimit = 9
    REFUND_GRACE = 1
    VOLUME_WINDOW = 1
    MaxIntents = 1
    MaxTime = 3
    User = {user}
    Solver = {sol, sol2}
    Rival = {rival}
    OrchestratorKey = key
    Sequencer = Sequencer
    Poller = {p1}
    Reconciler = {r1}
    DELIVERY_MARGIN_SEC = 1
    CONFIRM_RETRY_MAX_SEC_AFTER_EXPIRY = 0
    Backoff = 1
    SigValidity = 1
    Patience = 3
    StaleReads = TRUE
    DiskMayFail = FALSE
    ArbDiskMayFail = TRUE
    MaxCrashes = 2
    MaxTx = 3
    MaxSigs = 2
INVARIANTS SettlementInv OnceInv LedgersTellTheTruth NoUnrecordedPayout
PROPERTY ImplementsSwap
CHECK_DEADLOCK FALSE
