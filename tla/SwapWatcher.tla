---------------------------- MODULE SwapWatcher -----------------------------
(***************************************************************************)
(* A watcher node: swap_watcher.rs.  It holds the two transactions that    *)
(* the taker signed in advance (the spend of the maker's payment and the   *)
(* refund of its own) and sends one of them when the taker does not.       *)
(* swap_started_at in the watcher's data is the taker's started_at.        *)
(***************************************************************************)
EXTENDS SwapLedger

CONSTANT WatcherStops   \* TRUE: the watcher's node may stop, which aborts its state machines
ASSUME WatcherAssumption == WatcherStops \in BOOLEAN

VARIABLE wState

WatcherStates ==
    {"idle", "ValidateTakerFee", "ValidateTakerPayment", "WaitForTakerPaymentSpend",
     "WaitForMakerPaymentSpend", "SpendMakerPayment", "RefundTakerPayment", "Stopped"}

WatcherTypeOK == wState \in WatcherStates

WatcherInit == wState = "idle"

\* Slip: the taker is given until the maker may refund.
waits_for_maker_lock(startedAt) == maker_payment_lock(startedAt) + 1

\* wait_for_maker_payment_spend_deadline and refund_start_time, with the default factors.
wait_for_maker_payment_spend_deadline(startedAt) == startedAt + LockTime
refund_start_time(startedAt)                     == startedAt + (3 * LockTime) \div 2

change_state(from, to) == wState = from /\ wState' = to

\* spawn_taker_swap_watcher: SwapWatcherLock keeps a second machine from starting on the
\* same fee hash; once the first has stopped, a repeated message starts another.
WatcherSpawn ==
    /\ Received("TakerSwapWatcherMsg")
    /\ wState \in {"idle", "Stopped"}
    /\ wState' = "ValidateTakerFee"
    /\ UNCHANGED ledgerVars

WatcherValidateTakerFee ==
    /\ \/ sent["TakerFee"] > 0 /\ change_state("ValidateTakerFee", "ValidateTakerPayment")
       \/ RpcErrors /\ change_state("ValidateTakerFee", "Stopped")
    /\ UNCHANGED ledgerVars

\* The payment is looked up, confirmed and validated.
WatcherValidateTakerPayment(startedAt) ==
    LET until == taker_payment_spend_deadline(startedAt)
    IN /\ \/ /\ wait_for_confirmations("TakerPayment", until)
             /\ change_state("ValidateTakerPayment", "WaitForTakerPaymentSpend")
          \/ /\ not_confirmed("TakerPayment", until)
             /\ change_state("ValidateTakerPayment", "Stopped")
       /\ UNCHANGED ledgerVars

\* One round of the loop: the time is looked at before the chain.
WatcherWaitForTakerPaymentSpend(startedAt) ==
    /\ \/ /\ now > refund_start_time(startedAt)
          /\ change_state("WaitForTakerPaymentSpend", "RefundTakerPayment")
       \/ /\ now <= refund_start_time(startedAt) /\ SpendSeen("TakerPayment")
          /\ IF now < taker_payment_lock(startedAt)
             THEN change_state("WaitForTakerPaymentSpend", "WaitForMakerPaymentSpend")
             ELSE change_state("WaitForTakerPaymentSpend", "SpendMakerPayment")
       \/ /\ now <= refund_start_time(startedAt) /\ RefundSeen("TakerPayment")
          /\ change_state("WaitForTakerPaymentSpend", "Stopped")
       \/ \* the maker's payment is not found, or the secret not extracted
          /\ now <= refund_start_time(startedAt) /\ SpendSeen("TakerPayment") /\ RpcErrors
          /\ change_state("WaitForTakerPaymentSpend", "Stopped")
    /\ UNCHANGED ledgerVars

\* The taker is given until its lock time to spend the maker's payment itself.
WatcherWaitForMakerPaymentSpend(startedAt) ==
    /\ \/ /\ SpendSeen("MakerPayment") \/ RefundSeen("MakerPayment")
          /\ change_state("WaitForMakerPaymentSpend", "Stopped")
       \/ /\ (~SpendSeen("MakerPayment") /\ ~RefundSeen("MakerPayment")) \/ RpcErrors
          /\ now > wait_for_maker_payment_spend_deadline(startedAt)
          /\ change_state("WaitForMakerPaymentSpend", "SpendMakerPayment")
       \/ RpcErrors /\ change_state("WaitForMakerPaymentSpend", "Stopped")
    /\ UNCHANGED ledgerVars

WatcherSpendMakerPayment ==
    /\ change_state("SpendMakerPayment", "Stopped")
    /\ SpendOk("MakerPayment") \/ SpendErr("MakerPayment")
    /\ UNCHANGED <<now, sent, net>>

WatcherRefundTakerPayment(startedAt) ==
    /\ can_refund_htlc(taker_payment_lock(startedAt))
    /\ change_state("RefundTakerPayment", "Stopped")
    /\ RefundOk("TakerPayment") \/ RefundErr("TakerPayment")
    /\ UNCHANGED <<now, sent, net>>

\* Nothing of a watcher is saved.
WatcherStop ==
    /\ WatcherStops /\ wState \notin {"idle", "Stopped"}
    /\ wState' = "idle"
    /\ UNCHANGED ledgerVars

WatcherHandles(startedAt) ==
    \/ WatcherValidateTakerFee \/ WatcherValidateTakerPayment(startedAt)
    \/ WatcherWaitForTakerPaymentSpend(startedAt) \/ WatcherWaitForMakerPaymentSpend(startedAt)
    \/ WatcherSpendMakerPayment \/ WatcherRefundTakerPayment(startedAt)

WatcherNext(startedAt) ==
    WatcherSpawn \/ WatcherHandles(startedAt) \/ WatcherStop

\* The watcher has something to do now.  One that has stopped, and is told again, starts again
\* without a hurry.
WatcherHasWork(startedAt) ==
    \/ wState = "idle" /\ Received("TakerSwapWatcherMsg")
    \/ wState = "ValidateTakerFee" /\ (sent["TakerFee"] > 0 \/ RpcErrors)
    \/ /\ wState = "ValidateTakerPayment"
       /\ \/ Mined("TakerPayment")
          \/ not_confirmed("TakerPayment", taker_payment_spend_deadline(startedAt))
    \/ /\ wState = "WaitForTakerPaymentSpend"
       /\ \/ SpendSeen("TakerPayment") \/ RefundSeen("TakerPayment")
          \/ now > refund_start_time(startedAt)
    \/ /\ wState = "WaitForMakerPaymentSpend"
       /\ \/ SpendSeen("MakerPayment") \/ RefundSeen("MakerPayment") \/ RpcErrors
          \/ now > wait_for_maker_payment_spend_deadline(startedAt)
    \/ wState = "SpendMakerPayment"
    \/ wState = "RefundTakerPayment" /\ can_refund_htlc(taker_payment_lock(startedAt))

=============================================================================
