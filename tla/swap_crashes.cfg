\* The maker's node may die once, between any two steps; confirmations take any time, and nodes
\* may drop what was not mined.  Neither watchers nor failing calls.
SPECIFICATION Spec
CONSTANTS
    LockTime = 3
    MaxStartedAtDiff = 1
    CommTimeout = 0
    NegotiationTimeout = 0
    PaymentMsgTimeout = 0
    RefundGrace = 1
    MaxTime = 10
    MaxStart = 2
    PromptChain = FALSE
    RpcErrors = FALSE
    MaxMakerCrashes = 1
    MaxTakerCrashes = 0
    WatchersSupported = FALSE
    WatcherStops = FALSE
INVARIANTS
    TypeOK
    MakerRestoreAgrees
    MakerHasDataForCommand
    SecretAfterConfirmation
    TakerPaysAfterConfirmation
