\* Nodes that die are restarted; blocks come and time passes.
SPECIFICATION FairSpec
CONSTANTS
    LockTime = 3
    MaxStartedAtDiff = 0
    CommTimeout = 0
    NegotiationTimeout = 0
    PaymentMsgTimeout = 0
    RefundGrace = 1
    MaxTime = 8
    MaxStart = 0
    PromptChain = TRUE
    RpcErrors = FALSE
    MaxMakerCrashes = 1
    MaxTakerCrashes = 1
    WatchersSupported = FALSE
    WatcherStops = FALSE
    AttentiveChoices = {{}}
PROPERTIES
    PaymentsResolved
    MakerFinishes
