\* A taker that dies between two of the events of one handler.
SPECIFICATION Spec
CONSTANTS
    LockTime = 5
    MaxStartedAtDiff = 0
    CommTimeout = 0
    NegotiationTimeout = 0
    PaymentMsgTimeout = 0
    RefundGrace = 1
    MaxTime = 12
    MaxStart = 0
    PromptChain = TRUE
    RpcErrors = FALSE
    MaxMakerCrashes = 0
    MaxTakerCrashes = 1
    WatchersSupported = FALSE
    WatcherStops = FALSE
INVARIANTS
    TakerNeverPanics
