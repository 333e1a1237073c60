SPECIFICATION FairSpec
CONSTANTS
    Wallet = {hot, dest}
    Orchestrator = hot
    Channel = {1}
    Supply = 5
    Amount = {0, 3, 5}
    Slippage = {0, 5000, 20000}
    Expiry = {0, 1}
    U64 = 8
    MaxIntents = 2
    MaxTime = 2
INVARIANTS TypeOK EscrowIsWhole SlippageRespected WalletsAddUp
PROPERTY OwnerGetsOut
CHECK_DEADLOCK FALSE
