\* Each node may die once, fail one call or fail to store one event.
SPECIFICATION Spec
CONSTANTS
    LockTime = 3
    MaxStartedAtDiff = 0
    CommTimeout = 0
    NegotiationTimeout = 0
    Epoch = 100
    MaxTime = 8
    MaxStart = 1
    MaxMakerFaults = 1
    MaxTakerFaults = 1
CHECK_DEADLOCK FALSE
INVARIANTS AbortedBeforePayment TakerNeverLoses MakerNeverLoses SecretRefundMeansNoPayment PaidAgainstConfirmed LockedUntilSent ForgottenOnlyAfterFault
PROPERTY ImplementsContract
