\* No node fails; the taker's preimage may get lost.
SPECIFICATION FairSpec
CONSTANTS
    LockTime = 3
    MaxStartedAtDiff = 0
    CommTimeout = 0
    NegotiationTimeout = 0
    Epoch = 100
    MaxTime = 8
    MaxStart = 1
    MaxMakerFaults = 0
    MaxTakerFaults = 0
CHECK_DEADLOCK FALSE
PROPERTIES MakerRefundsInTheEnd
