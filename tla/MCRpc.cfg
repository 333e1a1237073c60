SPECIFICATION FairSpec
CONSTANTS
    N = 2
    arb = arb
    settle = settle
    poller = poller
    wallet = wallet
    Client = {arb}
    Request = {watcher, poller}
    Watcher = watcher
    ClientOf <- MCClientOfOne
    Cooldown = 2
    SweepRetries = 1
    NoUrl = NoUrl
INVARIANTS TypeOK SparedWhileCooling
PROPERTIES OneGoodKeyIsEnough WatcherRecovers
CHECK_DEADLOCK FALSE
