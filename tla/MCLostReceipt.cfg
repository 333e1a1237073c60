SPECIFICATION Spec
CONSTANTS
    Account = {user, sol, rival, key}
    NoAccount = NoAccount
    treasury = key
    owner = key
    NonPayable = {}
    Eth = Eth
    Token = {}
    Amount = {2}
    Expiry = {4}
    Limit = {}
    MaxLimit = 9
    REFUND_GRACE = 3
    VOLUME_WINDOW = 1
    MaxIntents = 1
    MaxTime = 7
    User = {user}
    Solver = {sol}
    Rival = {rival}
    OrchestratorKey = key
    Sequencer = Sequencer
    Poller = {p1}
    Reconciler = {r1}
    DELIVERY_MARGIN_SEC = 2
    CONFIRM_RETRY_MAX_SEC_AFTER_EXPIRY = 1
    Backoff = 1
    SigValidity = 1
    Patience = 1
    StaleReads = FALSE
    DiskMayFail = FALSE
    ArbDiskMayFail = FALSE
    MaxCrashes = 0
    MaxTx = 2
    MaxSigs = 1
INVARIANT UnknownOutcomeStaysOnRecord
CHECK_DEADLOCK FALSE
