SPECIFICATION FairSpec
CONSTANTS
    s1 = s1
    s2 = s2
    dest = dest
    Wallet = {hot, dest, other}
    Orchestrator = hot
    Other = other
    Supply = 1000
    U64 = 1000000
    MaxIntents = 3
    MaxTime = 1
    ArbitrumSepolia = 1
    Swap = {s1, s2}
    Price <- PriceOf
    Dest <- ToDest
    EscrowLife = 1
    Lag = 1
    MaxAttempts <- TwoThenOne
    MaxCrashes = 1
    Nobody = Nobody
INVARIANTS TypeOK OnePayoutPerSwap LockedByFailuresOnly
PROPERTIES ImplementsLeg SignedChildrenEnd
CHECK_DEADLOCK FALSE
