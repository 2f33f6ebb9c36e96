\* Every call to a coin's node may fail, or fail after it took effect.
SPECIFICATION Spec
CONSTANTS
    LockTime = 3
    MaxStartedAtDiff = 0
    CommTimeout = 0
    NegotiationTimeout = 0
    PaymentMsgTimeout = 0
    RefundGrace = 1
    MaxTime = 8
    MaxStart = 0
    PromptChain = TRUE
    RpcErrors = TRUE
    MaxMakerCrashes = 0
    MaxTakerCrashes = 1
    WatchersSupported = TRUE
    WatcherStops = TRUE
INVARIANTS
    MakerFundsRecoverable
    TakerFundsRecoverable
    MakerNeverLoses
    TakerHasDataForCommand
PROPERTIES
    ImplementsContract
