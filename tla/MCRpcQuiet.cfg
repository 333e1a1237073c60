SPECIFICATION FairSpec
CONSTANTS
    N = 2
    arb = arb
    settle = settle
    poller = poller
    wallet = wallet
    Client = {arb, settle}
    Request = {watcher, wallet}
    Watcher = watcher
    ClientOf <- MCClientOfQuiet
    Cooldown = 2
    SweepRetries = 1
    NoUrl = NoUrl
PROPERTY WatcherRecovers
CHECK_DEADLOCK FALSE
