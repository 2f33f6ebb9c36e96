\* A prompt taker, or a prompt watcher instead, against a maker that dies at the worst moment.
SPECIFICATION AttentiveSpec
CONSTANTS
    LockTime = 5
    MaxStartedAtDiff = 0
    CommTimeout = 0
    NegotiationTimeout = 0
    PaymentMsgTimeout = 0
    RefundGrace = 0
    MaxTime = 11
    MaxStart = 0
    PromptChain = TRUE
    RpcErrors = FALSE
    MaxMakerCrashes = 1
    MaxTakerCrashes = 1
    WatchersSupported = TRUE
    WatcherStops = FALSE
    AttentiveChoices = {{"taker"}, {"watcher"}}
INVARIANTS
    TakerNeverLoses
    PaymentsSentOnce
    IInv
