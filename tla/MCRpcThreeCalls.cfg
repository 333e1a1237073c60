SPECIFICATION FairSpec
CONSTANTS
    N = 2
    arb = arb
    settle = settle
    poller = poller
    wallet = wallet
    Client = {arb, settle}
    Request = {watcher, poller, wallet}
    Watcher = watcher
    ClientOf <- MCClientOf
    Cooldown = 1
    SweepRetries = 1
    NoUrl = NoUrl
INVARIANTS TypeOK SparedWhileCooling
PROPERTIES OneGoodKeyIsEnough WatcherRecovers
CHECK_DEADLOCK FALSE
