\* The maker's node may fail once, the taker's does not; the coins leave the swap.
SPECIFICATION FairSpec
CONSTANTS
    LockTime = 3
    MaxStartedAtDiff = 0
    CommTimeout = 0
    NegotiationTimeout = 0
    Epoch = 100
    MaxTime = 8
    MaxStart = 1
    MaxMakerFaults = 1
    MaxTakerFaults = 0
CHECK_DEADLOCK FALSE
PROPERTIES TakerCoinsReturn MakerCoinsReturn
INVARIANT TypeOK
