----------------------------- MODULE TakerSwap ------------------------------
(***************************************************************************)
(* The taker's side of a legacy swap: taker_swap.rs, and the restart logic *)
(* of taker_restart.rs that looks for what the maker or a watcher did      *)
(* while the taker was offline.                                            *)
(***************************************************************************)
EXTENDS SwapLedger

CONSTANTS
    MaxTakerCrashes,
    WatchersSupported   \* both coins are supported by watchers and watchers are enabled

ASSUME TakerAssumption == MaxTakerCrashes \in Nat /\ WatchersSupported \in BOOLEAN

VARIABLES
    tUp,        \* the taker's node runs
    tCmd,       \* the next command; "None" after Finish; or why the swap does not run
    tPhase,     \* how far a handler that waits for messages has got
    tWaitFrom,  \* recv_swap_msg's started
    tQueue,     \* events returned by the handler and not yet saved
    tSaved,     \* the saved events
    tLast,      \* the last of them
    tSecret,    \* the secret is in memory
    tStartedAt, \* data.started_at
    tCrashes

takerVars == <<tUp, tCmd, tPhase, tWaitFrom, tQueue, tSaved, tLast, tSecret, tStartedAt, tCrashes>>

TakerSwapCommand ==
    {"Start", "Negotiate", "SendTakerFee", "WaitForMakerPayment", "ValidateMakerPayment",
     "SendTakerPayment", "WaitForTakerPaymentSpend", "SpendMakerPayment",
     "ConfirmMakerPaymentSpend", "PrepareForTakerPaymentRefund", "RefundTakerPayment",
     "FinalizeTakerPaymentRefund", "Finish"}

\* Why run_taker_swap stopped before the swap was finished: the handler panicked, or
\* load_from_saved returned an error (the last three).
Stuck == {"Panicked", "LoadFailed", "TakerPaymentSpentError", "MakerCheatedError"}

TakerSwapEvent ==
    {"Started", "StartFailed", "Negotiated", "NegotiateFailed", "TakerFeeSent",
     "TakerFeeSendFailed", "TakerPaymentInstructionsReceived", "MakerPaymentReceived",
     "MakerPaymentWaitConfirmStarted", "MakerPaymentValidatedAndConfirmed",
     "MakerPaymentValidateFailed", "MakerPaymentWaitConfirmFailed", "TakerPaymentSent",
     "WatcherMessageSent", "TakerPaymentTransactionFailed", "TakerPaymentSpent",
     "TakerPaymentDataSendFailed", "TakerPaymentWaitConfirmFailed", \* no handler returns these
     "TakerPaymentWaitForSpendFailed", "MakerPaymentSpent", "MakerPaymentSpentByWatcher",
     "MakerPaymentSpendFailed", "MakerPaymentSpendConfirmed", "MakerPaymentSpendConfirmFailed",
     "TakerPaymentWaitRefundStarted", "TakerPaymentRefundStarted", "TakerPaymentRefunded",
     "TakerPaymentRefundedByWatcher", "TakerPaymentRefundFailed", "TakerPaymentRefundFinished",
     "Finished"}

\* TakerSavedEvent::get_command
TakerGetCommand(e) ==
    CASE e = "Started" -> "Negotiate"
      [] e = "Negotiated" -> "SendTakerFee"
      [] e = "TakerFeeSent" -> "WaitForMakerPayment"
      [] e \in {"TakerPaymentInstructionsReceived", "MakerPaymentReceived",
                "MakerPaymentWaitConfirmStarted"} -> "ValidateMakerPayment"
      [] e = "MakerPaymentValidatedAndConfirmed" -> "SendTakerPayment"
      [] e \in {"TakerPaymentSent", "WatcherMessageSent"} -> "WaitForTakerPaymentSpend"
      [] e = "TakerPaymentSpent" -> "SpendMakerPayment"
      [] e \in {"MakerPaymentSpent", "MakerPaymentSpentByWatcher"} -> "ConfirmMakerPaymentSpend"
      [] e \in {"TakerPaymentWaitForSpendFailed", "MakerPaymentSpendConfirmFailed",
                "TakerPaymentDataSendFailed", "TakerPaymentWaitConfirmFailed",
                "MakerPaymentSpendFailed", "TakerPaymentWaitRefundStarted"}
                  -> "PrepareForTakerPaymentRefund"
      [] e = "TakerPaymentRefundStarted" -> "RefundTakerPayment"
      [] e = "TakerPaymentRefunded" -> "FinalizeTakerPaymentRefund"
      [] e \in {"StartFailed", "NegotiateFailed", "TakerFeeSendFailed",
                "MakerPaymentValidateFailed", "MakerPaymentWaitConfirmFailed",
                "TakerPaymentTransactionFailed", "MakerPaymentSpendConfirmed",
                "TakerPaymentRefundFailed", "TakerPaymentRefundFinished",
                "TakerPaymentRefundedByWatcher"} -> "Finish"
      [] OTHER -> "None"

TakerTypeOK ==
    /\ tUp \in BOOLEAN
    /\ tCmd \in TakerSwapCommand \cup Stuck \cup {"None"}
    /\ tPhase \in {"begin", "recv", "recvNegotiated", "sent"}
    /\ tWaitFrom \in Nat
    /\ tQueue \in Seq(TakerSwapEvent)
    /\ tSaved \in SUBSET TakerSwapEvent
    /\ tLast \in TakerSwapEvent \cup {"None"}
    /\ tSecret \in BOOLEAN
    /\ tStartedAt \in Nat
    /\ tCrashes \in Nat

TakerInit ==
    /\ tUp = TRUE /\ tCmd = "Start" /\ tPhase = "begin" /\ tWaitFrom = 0
    /\ tQueue = <<>> /\ tSaved = {} /\ tLast = "None" /\ tSecret = FALSE
    /\ tStartedAt = 0 /\ tCrashes = 0

-----------------------------------------------------------------------------
(* The frame every handler shares.                                         *)

TakerRuns(cmd) == tUp /\ tQueue = <<>> /\ tCmd = cmd

TakerReturns(next, events) ==
    /\ tCmd' = next /\ tQueue' = events /\ tPhase' = "begin" /\ tWaitFrom' = 0
    /\ UNCHANGED <<tUp, tSaved, tLast, tSecret, tCrashes>>

TakerWaits(phase) ==
    /\ tPhase' = phase /\ tWaitFrom' = IF phase = "sent" THEN 0 ELSE now
    /\ UNCHANGED <<tUp, tCmd, tQueue, tSaved, tLast, tSecret, tStartedAt, tCrashes>>

TakerRefundBecause(event) ==
    TakerReturns("PrepareForTakerPaymentRefund", <<event, "TakerPaymentWaitRefundStarted">>)

\* save_my_taker_swap_event appends to the saved events.
save_my_taker_swap_event(e) == tSaved' = tSaved \cup {e} /\ tLast' = e

\* The next returned event is applied, and saved.
TakerSaveEvent ==
    /\ tUp /\ tQueue # <<>>
    /\ save_my_taker_swap_event(Head(tQueue))
    /\ tQueue' = Tail(tQueue)
    /\ tSecret' = (tSecret \/ Head(tQueue) = "TakerPaymentSpent")
    /\ UNCHANGED <<tUp, tCmd, tPhase, tWaitFrom, tStartedAt, tCrashes, ledgerVars>>

TakerStart ==
    /\ TakerRuns("Start") /\ now <= MaxStart
    /\ \/ /\ TakerReturns("Negotiate", <<"Started">>)
          /\ tStartedAt' = now
       \/ /\ RpcErrors
          /\ TakerReturns("Finish", <<"StartFailed">>)
          /\ UNCHANGED tStartedAt
    /\ UNCHANGED ledgerVars

-----------------------------------------------------------------------------
(* Negotiation and the fee.  peerStartedAt is the maker's data.started_at, *)
(* carried by Negotiation.                                                 *)

TakerNegotiateBegin ==
    /\ TakerRuns("Negotiate") /\ tPhase = "begin"
    /\ TakerWaits("recv")
    /\ UNCHANGED ledgerVars

TakerNegotiateReply(peerStartedAt) ==
    /\ TakerRuns("Negotiate") /\ tPhase = "recv"
    /\ \/ /\ Received("Negotiation")
          /\ AbsDiff(tStartedAt, peerStartedAt) <= MaxStartedAtDiff
          /\ TakerWaits("recvNegotiated")
          /\ Broadcast("NegotiationReply")
       \/ \* the clocks differ, a contract or a key is refused, or nothing came
          /\ \/ Received("Negotiation")
             \/ recv_timed_out(tWaitFrom, NegotiationTimeout)
          /\ TakerReturns("Finish", <<"NegotiateFailed">>)
          /\ UNCHANGED <<net, tStartedAt>>
    /\ UNCHANGED <<now, tx, sent>>

TakerNegotiate ==
    /\ TakerRuns("Negotiate") /\ tPhase = "recvNegotiated"
    /\ \/ /\ Received("Negotiated")
          /\ TakerReturns("SendTakerFee", <<"Negotiated">>)
       \/ /\ \/ Received("NegotiatedFalse")
             \/ recv_timed_out(tWaitFrom, NegotiationTimeout)
          /\ TakerReturns("Finish", <<"NegotiateFailed">>)
    /\ UNCHANGED <<ledgerVars, tStartedAt>>

\* send_taker_fee does not look for a fee that was sent before a restart.
TakerSendTakerFee ==
    /\ TakerRuns("SendTakerFee")
    /\ \/ /\ now > send_deadline(tStartedAt)
          /\ TakerReturns("Finish", <<"TakerFeeSendFailed">>)
          /\ UNCHANGED sent
       \/ /\ now <= send_deadline(tStartedAt)
          /\ sent' = [sent EXCEPT !["TakerFee"] = @ + 1]
          /\ TakerReturns("WaitForMakerPayment", <<"TakerFeeSent">>)
       \/ /\ now <= send_deadline(tStartedAt) /\ RpcErrors
          /\ sent' \in {sent, [sent EXCEPT !["TakerFee"] = @ + 1]}
          /\ TakerReturns("Finish", <<"TakerFeeSendFailed">>)
    /\ UNCHANGED <<now, tx, net, tStartedAt>>

TakerWaitForMakerPaymentSend ==
    /\ TakerRuns("WaitForMakerPayment") /\ tPhase = "begin"
    /\ \/ /\ TakerWaits("recv")
          /\ Broadcast("TakerFee")
       \/ /\ RpcErrors
          /\ TakerReturns("Finish", <<"MakerPaymentValidateFailed">>)
          /\ UNCHANGED <<net, tStartedAt>>
    /\ UNCHANGED <<now, tx, sent>>

TakerWaitForMakerPayment ==
    /\ TakerRuns("WaitForMakerPayment") /\ tPhase = "recv"
    /\ \/ /\ Received("MakerPayment")
          /\ TakerReturns("ValidateMakerPayment",
                          <<"TakerPaymentInstructionsReceived", "MakerPaymentReceived",
                            "MakerPaymentWaitConfirmStarted">>)
       \/ /\ recv_timed_out(tWaitFrom, PaymentMsgTimeout)
          /\ TakerReturns("Finish", <<"MakerPaymentValidateFailed">>)
    /\ UNCHANGED <<ledgerVars, tStartedAt>>

\* validate_maker_payment unwraps maker_payment, which MakerPaymentReceived sets.
TakerValidateMakerPayment ==
    LET until == wait_for_maker_payment_conf_until(tStartedAt)
    IN /\ TakerRuns("ValidateMakerPayment")
       /\ \/ /\ "MakerPaymentReceived" \notin tSaved
             /\ TakerReturns("Panicked", <<>>)
          \/ /\ "MakerPaymentReceived" \in tSaved
             /\ wait_for_confirmations("MakerPayment", until)
             /\ TakerReturns("SendTakerPayment", <<"MakerPaymentValidatedAndConfirmed">>)
          \/ /\ "MakerPaymentReceived" \in tSaved
             /\ not_confirmed("MakerPayment", until)
             /\ TakerReturns("Finish", <<"MakerPaymentWaitConfirmFailed">>)
          \/ /\ "MakerPaymentReceived" \in tSaved
             /\ wait_for_confirmations("MakerPayment", until) /\ RpcErrors
             /\ TakerReturns("Finish", <<"MakerPaymentValidateFailed">>)
       /\ UNCHANGED <<ledgerVars, tStartedAt>>

-----------------------------------------------------------------------------
(* The taker's payment.                                                    *)

\* send_taker_payment up to the payment: an earlier one is looked for, in case of restart.
TakerSendTakerPayment ==
    LET inTime == now <= wait_for_maker_payment_conf_until(tStartedAt)
    IN /\ TakerRuns("SendTakerPayment") /\ tPhase = "begin"
       /\ \/ /\ check_if_my_payment_sent("TakerPayment")
             /\ UNCHANGED <<tx, sent>>
             /\ TakerWaits("sent")
          \/ /\ ~check_if_my_payment_sent("TakerPayment") /\ inTime
             /\ SendPaymentOk("TakerPayment")
             /\ TakerWaits("sent")
          \/ /\ ~check_if_my_payment_sent("TakerPayment") /\ inTime
             /\ SendPaymentErr("TakerPayment")
             /\ TakerReturns("Finish", <<"TakerPaymentTransactionFailed">>)
          \/ \* too late, or the search or the watcher reward failed
             /\ (~check_if_my_payment_sent("TakerPayment") /\ ~inTime) \/ RpcErrors
             /\ UNCHANGED <<tx, sent>>
             /\ TakerReturns("Finish", <<"TakerPaymentTransactionFailed">>)
       /\ UNCHANGED <<now, net, tStartedAt>>

\* process_watcher_logic: broadcasts the preimages, unless one cannot be created.
TakerTellWatchers ==
    /\ TakerRuns("SendTakerPayment") /\ tPhase = "sent"
    /\ \/ /\ WatchersSupported
          /\ TakerReturns("WaitForTakerPaymentSpend", <<"TakerPaymentSent", "WatcherMessageSent">>)
          /\ Broadcast("TakerSwapWatcherMsg")
       \/ /\ ~WatchersSupported \/ RpcErrors
          /\ TakerReturns("WaitForTakerPaymentSpend", <<"TakerPaymentSent">>)
          /\ UNCHANGED net
    /\ UNCHANGED <<now, tx, sent, tStartedAt>>

TakerWaitForSpendSend ==
    /\ TakerRuns("WaitForTakerPaymentSpend") /\ tPhase = "begin"
    /\ TakerWaits("recv")
    /\ net' = net \cup {"TakerPayment"}
                  \cup (IF WatchersSupported /\ "WatcherMessageSent" \in tSaved
                        THEN {"TakerSwapWatcherMsg"} ELSE {})
    /\ UNCHANGED <<now, tx, sent>>

\* wait_for_htlc_tx_spend returns whatever spends the output, a watcher's refund too.
TakerWaitForTakerPaymentSpend ==
    /\ TakerRuns("WaitForTakerPaymentSpend") /\ tPhase = "recv"
    /\ \/ /\ SpendSeen("TakerPayment")
          /\ TakerReturns("SpendMakerPayment", <<"TakerPaymentSpent">>)
       \/ \* extract_secret failed
          /\ RefundSeen("TakerPayment") \/ (SpendSeen("TakerPayment") /\ RpcErrors)
          /\ TakerReturns("Finish", <<"TakerPaymentWaitForSpendFailed">>)
       \/ /\ (~SpendSeen("TakerPayment") /\ ~RefundSeen("TakerPayment")) \/ RpcErrors
          /\ now > taker_payment_lock(tStartedAt)
          /\ TakerRefundBecause("TakerPaymentWaitForSpendFailed")
    /\ UNCHANGED <<ledgerVars, tStartedAt>>

-----------------------------------------------------------------------------
(* Spending the maker's payment with the revealed secret.                  *)

TakerSpendMakerPayment ==
    /\ TakerRuns("SpendMakerPayment")
    /\ \/ /\ tSecret /\ SpendOk("MakerPayment")
          /\ TakerReturns("ConfirmMakerPaymentSpend", <<"MakerPaymentSpent">>)
       \/ /\ IF tSecret THEN SpendErr("MakerPayment") ELSE UNCHANGED tx
          /\ TakerReturns("Finish", <<"MakerPaymentSpendFailed">>)
    /\ UNCHANGED <<now, sent, net, tStartedAt>>

TakerConfirmMakerPaymentSpend ==
    /\ TakerRuns("ConfirmMakerPaymentSpend")
    /\ \/ /\ wait_for_confirmations("MakerPaymentSpend", taker_payment_lock(tStartedAt) + RefundGrace)
          /\ TakerReturns("Finish", <<"MakerPaymentSpendConfirmed">>)
       \/ /\ not_confirmed("MakerPaymentSpend", taker_payment_lock(tStartedAt) + RefundGrace)
          /\ TakerRefundBecause("MakerPaymentSpendConfirmFailed")
    /\ UNCHANGED <<ledgerVars, tStartedAt>>

-----------------------------------------------------------------------------
(* The refund.                                                             *)

TakerPrepareRefund ==
    /\ TakerRuns("PrepareForTakerPaymentRefund")
    /\ TakerReturns("RefundTakerPayment", <<"TakerPaymentRefundStarted">>)
    /\ UNCHANGED <<ledgerVars, tStartedAt>>

TakerRefundPayment ==
    /\ TakerRuns("RefundTakerPayment")
    /\ can_refund_htlc(taker_payment_lock(tStartedAt))
    /\ \/ /\ RefundOk("TakerPayment")
          /\ TakerReturns("FinalizeTakerPaymentRefund", <<"TakerPaymentRefunded">>)
       \/ /\ RefundErr("TakerPayment")
          /\ TakerReturns("Finish", <<"TakerPaymentRefundFailed">>)
    /\ UNCHANGED <<now, sent, net, tStartedAt>>

TakerFinalizeRefund ==
    /\ TakerRuns("FinalizeTakerPaymentRefund")
    /\ TakerReturns("Finish", <<"TakerPaymentRefundFinished">>)
    /\ UNCHANGED <<ledgerVars, tStartedAt>>

TakerFinish ==
    /\ TakerRuns("Finish")
    /\ TakerReturns("None", <<"Finished">>)
    /\ UNCHANGED <<ledgerVars, tStartedAt>>

-----------------------------------------------------------------------------
(* recover_funds_of_swap.                                                  *)

TakerNotRecoverable ==
    \/ "Finished" \notin tSaved
    \/ tSaved \cap {"TakerPaymentRefunded", "TakerPaymentRefundedByWatcher"} # {}
    \/ /\ tSaved \cap {"MakerPaymentSpent", "MakerPaymentSpentByWatcher"} # {}
       /\ "MakerPaymentSpendConfirmed" \in tSaved
    \/ "MakerPaymentReceived" \notin tSaved

TakerRecoverFunds ==
    /\ tUp /\ tQueue = <<>> /\ ~TakerNotRecoverable
    /\ "TakerPaymentSent" \in tSaved \/ check_if_my_payment_sent("TakerPayment")
    /\ \/ /\ "TakerPaymentSpent" \in tSaved \/ SpendSeen("TakerPayment")
          /\ ~SpendSeen("MakerPayment") /\ ~RefundSeen("MakerPayment")
          /\ SpendOk("MakerPayment")
       \/ /\ "TakerPaymentSpent" \notin tSaved
          /\ ~SpendSeen("TakerPayment") /\ ~RefundSeen("TakerPayment")
          /\ can_refund_htlc(taker_payment_lock(tStartedAt))
          /\ RefundOk("TakerPayment")
    /\ UNCHANGED <<now, sent, net, takerVars>>

\* The events that TakerSavedSwap::is_recoverable takes as a sign that no coin is locked.
\* Slip: a payment whose sending returned an error is taken not to exist.
NothingLockedIfSendFailed ==
    {"StartFailed", "NegotiateFailed", "TakerFeeSendFailed", "TakerPaymentTransactionFailed"}

NothingLocked ==
    {"StartFailed", "NegotiateFailed", "TakerFeeSendFailed", "MakerPaymentValidateFailed",
     "TakerPaymentRefunded", "TakerPaymentRefundedByWatcher", "MakerPaymentSpendConfirmed",
     "MakerPaymentWaitConfirmFailed"}

TakerIsRecoverable ==
    /\ tLast = "Finished"
    /\ tSaved \cap NothingLocked = {}
    /\ \/ "MakerPaymentSpendConfirmFailed" \in tSaved
       \/ tSaved \cap {"MakerPaymentSpent", "MakerPaymentSpentByWatcher"} = {}

-----------------------------------------------------------------------------
(* Crashes and restarts.                                                   *)

TakerCrash ==
    /\ tUp /\ tCrashes < MaxTakerCrashes
    /\ tCmd # "None" \/ tQueue # <<>>
    /\ tUp' = FALSE /\ tCmd' = "None" /\ tQueue' = <<>> /\ tSecret' = FALSE
    /\ tPhase' = "begin" /\ tWaitFrom' = 0
    /\ tCrashes' = tCrashes + 1
    /\ UNCHANGED <<tSaved, tLast, tStartedAt, ledgerVars>>

\* The swap is loaded with a command, after which events were added and saved.
TakerLoaded(cmd, events, secret) ==
    /\ tCmd' = cmd
    /\ tSaved' = tSaved \cup events
    /\ tLast' \in IF events = {} THEN {tLast} ELSE events \ {"TakerPaymentSpent"}
    /\ tSecret' = secret

\* Slip: the spend that was found is not added to the events.
SecretFoundAndForgotten(found) ==
    /\ ~SpendSeen("MakerPayment") /\ ~RefundSeen("MakerPayment")
    /\ TakerLoaded("SpendMakerPayment", {}, "TakerPaymentSpent" \in tSaved)

\* check_maker_payment_spend_and_add_event.  found: TakerPaymentSpent was added to the
\* events in memory; they are only saved together with MakerPaymentSpentByWatcher.
check_maker_payment_spend_and_add_event(found) ==
    LET secret == found \/ "TakerPaymentSpent" \in tSaved
    IN \/ /\ SpendSeen("MakerPayment")
          /\ TakerLoaded("ConfirmMakerPaymentSpend",
                         {"MakerPaymentSpentByWatcher"}
                             \cup (IF found THEN {"TakerPaymentSpent"} ELSE {}), secret)
       \/ /\ RefundSeen("MakerPayment")
          /\ TakerLoaded("MakerCheatedError", {}, secret)
       \/ /\ ~SpendSeen("MakerPayment") /\ ~RefundSeen("MakerPayment")
          /\ TakerLoaded("SpendMakerPayment", {}, secret)

\* get_command_based_on_maker_or_watcher_activity
TakerCommandFromActivity(cmd) ==
    \/ /\ cmd = "WaitForTakerPaymentSpend" /\ SpendSeen("TakerPayment")
       /\ check_maker_payment_spend_and_add_event(TRUE)
    \/ /\ \/ cmd = "WaitForTakerPaymentSpend"
          \/ /\ cmd \in {"PrepareForTakerPaymentRefund", "RefundTakerPayment"}
             /\ now >= tStartedAt + (3 * LockTime) \div 2
       /\ RefundSeen("TakerPayment")
       /\ TakerLoaded("Finish", {"TakerPaymentRefundedByWatcher"}, FALSE)
    \/ /\ cmd = "SpendMakerPayment"
       /\ check_maker_payment_spend_and_add_event(FALSE)
    \/ /\ cmd \in {"PrepareForTakerPaymentRefund", "RefundTakerPayment"}
       /\ now >= tStartedAt + (3 * LockTime) \div 2
       /\ SpendSeen("TakerPayment")
       /\ TakerLoaded("TakerPaymentSpentError", {}, FALSE)
    \/ /\ \/ /\ cmd = "WaitForTakerPaymentSpend"
             /\ ~SpendSeen("TakerPayment") /\ ~RefundSeen("TakerPayment")
          \/ /\ cmd \in {"PrepareForTakerPaymentRefund", "RefundTakerPayment"}
             /\ \/ now < tStartedAt + (3 * LockTime) \div 2
                \/ ~SpendSeen("TakerPayment") /\ ~RefundSeen("TakerPayment")
          \/ cmd \notin {"WaitForTakerPaymentSpend", "SpendMakerPayment",
                         "PrepareForTakerPaymentRefund", "RefundTakerPayment"}
       /\ TakerLoaded(cmd, {}, "TakerPaymentSpent" \in tSaved)
    \/ /\ RpcErrors     \* the chain could not be searched
       /\ cmd \in {"WaitForTakerPaymentSpend", "SpendMakerPayment",
                   "PrepareForTakerPaymentRefund", "RefundTakerPayment"}
       /\ TakerLoaded("LoadFailed", {}, FALSE)

\* swap_kick_starts and load_from_saved.
TakerRestart ==
    /\ ~tUp
    /\ tUp' = TRUE
    /\ LET cmd == IF swap_kick_starts(tSaved) THEN TakerGetCommand(tLast) ELSE "None"
       IN IF /\ cmd # "None" /\ WatchersSupported /\ "WatcherMessageSent" \in tSaved
             /\ now >= tStartedAt + LockTime
          THEN TakerCommandFromActivity(cmd)
          ELSE TakerLoaded(cmd, {}, "TakerPaymentSpent" \in tSaved)
    /\ UNCHANGED <<tPhase, tWaitFrom, tQueue, tStartedAt, tCrashes, ledgerVars>>

TakerHandles(peerStartedAt) ==
    \/ TakerStart
    \/ TakerNegotiateBegin \/ TakerNegotiateReply(peerStartedAt) \/ TakerNegotiate
    \/ TakerSendTakerFee
    \/ TakerWaitForMakerPaymentSend \/ TakerWaitForMakerPayment \/ TakerValidateMakerPayment
    \/ TakerSendTakerPayment \/ TakerTellWatchers
    \/ TakerWaitForSpendSend \/ TakerWaitForTakerPaymentSpend
    \/ TakerSpendMakerPayment \/ TakerConfirmMakerPaymentSpend
    \/ TakerPrepareRefund \/ TakerRefundPayment \/ TakerFinalizeRefund \/ TakerFinish

TakerNext(peerStartedAt) ==
    \/ TakerHandles(peerStartedAt)
    \/ TakerSaveEvent \/ TakerRecoverFunds \/ TakerCrash \/ TakerRestart

\* The taker has something to do now: to save an event, to resume, to run a command that waits
\* for nothing, or one whose wait is over.
TakerHasWork ==
    \/ ~tUp \/ tQueue # <<>>
    \/ \E cmd \in {"SendTakerFee", "SendTakerPayment", "SpendMakerPayment", "Finish",
                  "PrepareForTakerPaymentRefund", "FinalizeTakerPaymentRefund"} : TakerRuns(cmd)
    \/ TakerRuns("Start") /\ now <= MaxStart
    \/ /\ TakerRuns("Negotiate")
       /\ \/ tPhase = "begin" \/ recv_timed_out(tWaitFrom, NegotiationTimeout)
          \/ tPhase = "recv" /\ Received("Negotiation")
          \/ tPhase = "recvNegotiated" /\ (Received("Negotiated") \/ Received("NegotiatedFalse"))
    \/ /\ TakerRuns("WaitForMakerPayment")
       /\ \/ tPhase = "begin" \/ Received("MakerPayment")
          \/ recv_timed_out(tWaitFrom, PaymentMsgTimeout)
    \/ /\ TakerRuns("ValidateMakerPayment")
       /\ \/ "MakerPaymentReceived" \notin tSaved \/ Mined("MakerPayment")
          \/ not_confirmed("MakerPayment", wait_for_maker_payment_conf_until(tStartedAt))
    \/ /\ TakerRuns("WaitForTakerPaymentSpend")
       /\ \/ tPhase = "begin" \/ SpendSeen("TakerPayment") \/ RefundSeen("TakerPayment")
          \/ now > taker_payment_lock(tStartedAt)
    \/ /\ TakerRuns("ConfirmMakerPaymentSpend")
       /\ \/ Mined("MakerPaymentSpend")
          \/ not_confirmed("MakerPaymentSpend", taker_payment_lock(tStartedAt) + RefundGrace)
    \/ TakerRuns("RefundTakerPayment") /\ can_refund_htlc(taker_payment_lock(tStartedAt))

=============================================================================
