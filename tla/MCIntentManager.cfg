SPECIFICATION FairSpec
CONSTANTS
    Account = {alice, bob}
    NoAccount = NoAccount
    treasury = alice
    owner = alice
    NonPayable = {bob}
    Eth = Eth
    Token = {tok}
    Amount = {2}
    Expiry = {2}
    Limit = {3}
    MaxLimit = 9
    REFUND_GRACE = 1
    VOLUME_WINDOW = 0
    MaxIntents = 2
    MaxTime = 3
INVARIANTS TypeOK PaidExactlyOnce Solvency VolumeCountsTheWindow
PROPERTY EscrowNeverTrapped
CHECK_DEADLOCK FALSE
