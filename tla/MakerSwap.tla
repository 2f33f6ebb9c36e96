----------------------------- MODULE MakerSwap ------------------------------
(***************************************************************************)
(* The maker's side of a legacy swap: maker_swap.rs.  run_maker_swap calls *)
(* handle_command, then applies and saves the returned events one by one,  *)
(* then runs the next command; a process may die between any two of these. *)
(* After a restart the command is a function of the last saved event.      *)
(***************************************************************************)
EXTENDS SwapLedger

CONSTANT MaxMakerCrashes
ASSUME MakerCrashesAssumption == MaxMakerCrashes \in Nat

VARIABLES
    mUp,        \* the maker's node runs
    mCmd,       \* the command handle_command runs next; "None" after Finish
    mPhase,     \* how far a handler that waits for a message has got
    mWaitFrom,  \* recv_swap_msg's started
    mQueue,     \* events returned by the handler and not yet saved
    mSaved,     \* the saved events
    mLast,      \* the last of them
    mStartedAt, \* data.started_at
    mCrashes

makerVars == <<mUp, mCmd, mPhase, mWaitFrom, mQueue, mSaved, mLast, mStartedAt, mCrashes>>

MakerSwapCommand ==
    {"Start", "Negotiate", "WaitForTakerFee", "SendPayment", "WaitForTakerPayment",
     "ValidateTakerPayment", "SpendTakerPayment", "ConfirmTakerPaymentSpend",
     "PrepareForMakerPaymentRefund", "RefundMakerPayment", "FinalizeMakerPaymentRefund",
     "Finish"}

MakerSwapEvent ==
    {"Started", "StartFailed", "Negotiated", "NegotiateFailed",
     "MakerPaymentInstructionsReceived", "TakerFeeValidated", "TakerFeeValidateFailed",
     "MakerPaymentSent", "MakerPaymentTransactionFailed", "MakerPaymentDataSendFailed",
     "MakerPaymentWaitConfirmFailed", "TakerPaymentReceived", "TakerPaymentWaitConfirmStarted",
     "TakerPaymentValidatedAndConfirmed", "TakerPaymentValidateFailed",
     "TakerPaymentWaitConfirmFailed", "TakerPaymentSpent", "TakerPaymentSpendFailed",
     "TakerPaymentSpendConfirmStarted", "TakerPaymentSpendConfirmed",
     "TakerPaymentSpendConfirmFailed", "MakerPaymentWaitRefundStarted",
     "MakerPaymentRefundStarted", "MakerPaymentRefunded", "MakerPaymentRefundFailed",
     "MakerPaymentRefundFinished", "Finished"}

\* MakerSavedEvent::get_command
MakerGetCommand(e) ==
    CASE e = "Started" -> "Negotiate"
      [] e \in {"Negotiated", "MakerPaymentInstructionsReceived"} -> "WaitForTakerFee"
      [] e = "TakerFeeValidated" -> "SendPayment"
      [] e = "MakerPaymentSent" -> "WaitForTakerPayment"
      [] e \in {"TakerPaymentReceived", "TakerPaymentWaitConfirmStarted"} -> "ValidateTakerPayment"
      [] e = "TakerPaymentValidatedAndConfirmed" -> "SpendTakerPayment"
      [] e \in {"TakerPaymentSpent", "TakerPaymentSpendConfirmStarted"} -> "ConfirmTakerPaymentSpend"
      [] e \in {"MakerPaymentDataSendFailed", "MakerPaymentWaitConfirmFailed",
                "TakerPaymentValidateFailed", "TakerPaymentWaitConfirmFailed",
                "TakerPaymentSpendFailed", "TakerPaymentSpendConfirmFailed",
                "MakerPaymentWaitRefundStarted"} -> "PrepareForMakerPaymentRefund"
      [] e = "MakerPaymentRefundStarted" -> "RefundMakerPayment"
      [] e = "MakerPaymentRefunded" -> "FinalizeMakerPaymentRefund"
      [] e \in {"StartFailed", "NegotiateFailed", "TakerFeeValidateFailed",
                "MakerPaymentTransactionFailed", "TakerPaymentSpendConfirmed",
                "MakerPaymentRefundFailed", "MakerPaymentRefundFinished"} -> "Finish"
      [] OTHER -> "None"

MakerTypeOK ==
    /\ mUp \in BOOLEAN
    /\ mCmd \in MakerSwapCommand \cup {"None"}
    /\ mPhase \in {"begin", "conf", "recv"}
    /\ mWaitFrom \in Nat
    /\ mQueue \in Seq(MakerSwapEvent)
    /\ mSaved \in SUBSET MakerSwapEvent
    /\ mLast \in MakerSwapEvent \cup {"None"}
    /\ mStartedAt \in Nat
    /\ mCrashes \in Nat

MakerInit ==
    /\ mUp = TRUE /\ mCmd = "Start" /\ mPhase = "begin" /\ mWaitFrom = 0
    /\ mQueue = <<>> /\ mSaved = {} /\ mLast = "None"
    /\ mStartedAt = 0 /\ mCrashes = 0

-----------------------------------------------------------------------------
(* The frame every handler shares.                                         *)

MakerRuns(cmd) == mUp /\ mQueue = <<>> /\ mCmd = cmd

\* handle_command returns (Some(next), events).
MakerReturns(next, events) ==
    /\ mCmd' = next /\ mQueue' = events /\ mPhase' = "begin" /\ mWaitFrom' = 0
    /\ UNCHANGED <<mUp, mSaved, mLast, mCrashes>>

\* The handler has started to wait for a message, or for confirmations.
MakerWaits(phase) ==
    /\ mPhase' = phase /\ mWaitFrom' = IF phase = "recv" THEN now ELSE 0
    /\ UNCHANGED <<mUp, mCmd, mQueue, mSaved, mLast, mStartedAt, mCrashes>>

\* Slip: the refund is started without PrepareForMakerPaymentRefund.
MakerRefundAtOnce(event) ==
    MakerReturns("RefundMakerPayment", <<event, "MakerPaymentWaitRefundStarted">>)

MakerRefundBecause(event) ==
    MakerReturns("PrepareForMakerPaymentRefund", <<event, "MakerPaymentWaitRefundStarted">>)

\* Slip: only the last of the returned events is saved.
MakerSaveLastEventOnly ==
    /\ mUp /\ mQueue # <<>>
    /\ mSaved' = mSaved \cup {mQueue[Len(mQueue)]}
    /\ mLast' = mQueue[Len(mQueue)]
    /\ mQueue' = <<>>
    /\ UNCHANGED <<mUp, mCmd, mPhase, mWaitFrom, mStartedAt, mCrashes, ledgerVars>>

\* save_my_maker_swap_event appends to the saved events.
save_my_maker_swap_event(e) == mSaved' = mSaved \cup {e} /\ mLast' = e

\* The next returned event is applied, and saved.
MakerSaveEvent ==
    /\ mUp /\ mQueue # <<>>
    /\ save_my_maker_swap_event(Head(mQueue))
    /\ mQueue' = Tail(mQueue)
    /\ UNCHANGED <<mUp, mCmd, mPhase, mWaitFrom, mStartedAt, mCrashes, ledgerVars>>

\* Slip: started_at is off by one, and below zero when the clock starts.
MakerStartOffByOne ==
    /\ MakerRuns("Start") /\ now <= MaxStart
    /\ MakerReturns("Negotiate", <<"Started">>)
    /\ mStartedAt' = now - 1
    /\ UNCHANGED ledgerVars

MakerStart ==
    /\ MakerRuns("Start") /\ now <= MaxStart
    /\ \/ /\ MakerReturns("Negotiate", <<"Started">>)
          /\ mStartedAt' = now
       \/ /\ RpcErrors
          /\ MakerReturns("Finish", <<"StartFailed">>)
          /\ UNCHANGED mStartedAt
    /\ UNCHANGED ledgerVars

-----------------------------------------------------------------------------
(* Negotiation and the taker's fee.  peerStartedAt is the taker's          *)
(* data.started_at, carried by NegotiationReply.                           *)

MakerNegotiateSend ==
    /\ MakerRuns("Negotiate") /\ mPhase = "begin"
    /\ MakerWaits("recv")
    /\ Broadcast("Negotiation")
    /\ UNCHANGED <<now, tx, sent>>

MakerNegotiate(peerStartedAt) ==
    /\ MakerRuns("Negotiate") /\ mPhase = "recv"
    /\ \/ /\ Received("NegotiationReply")
          /\ AbsDiff(mStartedAt, peerStartedAt) <= MaxStartedAtDiff
          /\ MakerReturns("WaitForTakerFee", <<"Negotiated">>)
          /\ UNCHANGED net
       \/ \* the clocks differ, a contract or a key is refused, or nothing came
          /\ \/ Received("NegotiationReply")
             \/ recv_timed_out(mWaitFrom, NegotiationTimeout)
          /\ MakerReturns("Finish", <<"NegotiateFailed">>)
          /\ Broadcast("NegotiatedFalse")
    /\ UNCHANGED <<now, tx, sent, mStartedAt>>

MakerWaitTakerFeeSend ==
    /\ MakerRuns("WaitForTakerFee") /\ mPhase = "begin"
    /\ MakerWaits("recv")
    /\ Broadcast("Negotiated")
    /\ UNCHANGED <<now, tx, sent>>

MakerWaitTakerFee ==
    /\ MakerRuns("WaitForTakerFee") /\ mPhase = "recv"
    /\ \/ /\ Received("TakerFee")
          /\ MakerReturns("SendPayment", <<"MakerPaymentInstructionsReceived", "TakerFeeValidated">>)
       \/ /\ \/ Received("TakerFee") /\ RpcErrors     \* validate_fee fails six times
             \/ recv_timed_out(mWaitFrom, PaymentMsgTimeout)
          /\ MakerReturns("Finish", <<"TakerFeeValidateFailed">>)
    /\ UNCHANGED <<ledgerVars, mStartedAt>>

-----------------------------------------------------------------------------
(* The maker's payment.                                                    *)

\* maker_payment: look for the payment first, it may have been sent before a restart.
MakerPaymentSend ==
    /\ MakerRuns("SendPayment")
    /\ \/ /\ check_if_my_payment_sent("MakerPayment")
          /\ MakerReturns("WaitForTakerPayment", <<"MakerPaymentSent">>)
          /\ UNCHANGED <<tx, sent>>
       \/ /\ ~check_if_my_payment_sent("MakerPayment") /\ now <= send_deadline(mStartedAt)
          /\ SendPaymentOk("MakerPayment")
          /\ MakerReturns("WaitForTakerPayment", <<"MakerPaymentSent">>)
       \/ /\ ~check_if_my_payment_sent("MakerPayment") /\ now <= send_deadline(mStartedAt)
          /\ SendPaymentErr("MakerPayment")
          /\ MakerReturns("Finish", <<"MakerPaymentTransactionFailed">>)
       \/ \* too late, or the search or the watcher reward failed
          /\ \/ ~check_if_my_payment_sent("MakerPayment") /\ now > send_deadline(mStartedAt)
             \/ RpcErrors
          /\ MakerReturns("Finish", <<"MakerPaymentTransactionFailed">>)
          /\ UNCHANGED <<tx, sent>>
    /\ UNCHANGED <<now, net, mStartedAt>>

MakerWaitForTakerPaymentSend ==
    /\ MakerRuns("WaitForTakerPayment") /\ mPhase = "begin"
    /\ \/ /\ MakerWaits("conf")
          /\ Broadcast("MakerPayment")
       \/ /\ RpcErrors
          /\ MakerRefundBecause("MakerPaymentDataSendFailed")
          /\ UNCHANGED <<net, mStartedAt>>
    /\ UNCHANGED <<now, tx, sent>>

\* wait_for_confirmations of the maker's own payment.
MakerWaitOwnConfirmation ==
    /\ MakerRuns("WaitForTakerPayment") /\ mPhase = "conf"
    /\ \/ /\ wait_for_confirmations("MakerPayment", wait_for_maker_payment_conf_until(mStartedAt))
          /\ MakerWaits("recv")
       \/ /\ not_confirmed("MakerPayment", wait_for_maker_payment_conf_until(mStartedAt))
          /\ MakerRefundBecause("MakerPaymentWaitConfirmFailed")
          /\ UNCHANGED mStartedAt
    /\ UNCHANGED ledgerVars

MakerWaitForTakerPayment ==
    /\ MakerRuns("WaitForTakerPayment") /\ mPhase = "recv"
    /\ \/ /\ Received("TakerPayment")
          /\ MakerReturns("ValidateTakerPayment",
                          <<"TakerPaymentReceived", "TakerPaymentWaitConfirmStarted">>)
       \/ /\ recv_timed_out(mWaitFrom, (LockTime * 3) \div 5)
          /\ MakerRefundBecause("TakerPaymentValidateFailed")
    /\ UNCHANGED <<ledgerVars, mStartedAt>>

MakerValidateTakerPayment ==
    LET until == taker_payment_spend_deadline(mStartedAt)
    IN /\ MakerRuns("ValidateTakerPayment")
       /\ \/ /\ wait_for_confirmations("TakerPayment", until)
             /\ MakerReturns("SpendTakerPayment", <<"TakerPaymentValidatedAndConfirmed">>)
          \/ /\ not_confirmed("TakerPayment", until)
             /\ MakerRefundBecause("TakerPaymentWaitConfirmFailed")
          \/ /\ wait_for_confirmations("TakerPayment", until) /\ RpcErrors
             /\ MakerRefundBecause("TakerPaymentValidateFailed")
          \/ \* get_taker_watcher_reward failed: finished without a refund
             /\ wait_for_confirmations("TakerPayment", until) /\ RpcErrors
             /\ MakerReturns("Finish", <<"MakerPaymentTransactionFailed">>)
       /\ UNCHANGED <<ledgerVars, mStartedAt>>

-----------------------------------------------------------------------------
(* Spending the taker's payment reveals the secret.                        *)

MakerSpendTakerPayment ==
    /\ MakerRuns("SpendTakerPayment")
    /\ \/ /\ now > taker_payment_spend_deadline(mStartedAt)
          /\ MakerRefundBecause("TakerPaymentSpendFailed")
          /\ UNCHANGED tx
       \/ /\ now <= taker_payment_spend_deadline(mStartedAt)
          /\ SpendOk("TakerPayment")
          /\ MakerReturns("ConfirmTakerPaymentSpend",
                          <<"TakerPaymentSpent", "TakerPaymentSpendConfirmStarted">>)
       \/ /\ now <= taker_payment_spend_deadline(mStartedAt)
          /\ SpendErr("TakerPayment")
          /\ MakerRefundBecause("TakerPaymentSpendFailed")
    /\ UNCHANGED <<now, sent, net, mStartedAt>>

MakerConfirmTakerPaymentSpend ==
    /\ MakerRuns("ConfirmTakerPaymentSpend")
    /\ \/ /\ wait_for_confirmations("TakerPaymentSpend", maker_payment_lock(mStartedAt) + RefundGrace)
          /\ MakerReturns("Finish", <<"TakerPaymentSpendConfirmed">>)
       \/ /\ not_confirmed("TakerPaymentSpend", maker_payment_lock(mStartedAt) + RefundGrace)
          /\ MakerRefundBecause("TakerPaymentSpendConfirmFailed")
    /\ UNCHANGED <<ledgerVars, mStartedAt>>

-----------------------------------------------------------------------------
(* The refund.                                                             *)

MakerPrepareRefund ==
    /\ MakerRuns("PrepareForMakerPaymentRefund")
    /\ MakerReturns("RefundMakerPayment", <<"MakerPaymentRefundStarted">>)
    /\ UNCHANGED <<ledgerVars, mStartedAt>>

MakerRefundPayment ==
    /\ MakerRuns("RefundMakerPayment")
    /\ can_refund_htlc(maker_payment_lock(mStartedAt))
    /\ \/ /\ RefundOk("MakerPayment")
          /\ MakerReturns("FinalizeMakerPaymentRefund", <<"MakerPaymentRefunded">>)
       \/ /\ RefundErr("MakerPayment")
          /\ MakerReturns("Finish", <<"MakerPaymentRefundFailed">>)
    /\ UNCHANGED <<now, sent, net, mStartedAt>>

MakerFinalizeRefund ==
    /\ MakerRuns("FinalizeMakerPaymentRefund")
    /\ MakerReturns("Finish", <<"MakerPaymentRefundFinished">>)
    /\ UNCHANGED <<ledgerVars, mStartedAt>>

MakerFinish ==
    /\ MakerRuns("Finish")
    /\ MakerReturns("None", <<"Finished">>)
    /\ UNCHANGED <<ledgerVars, mStartedAt>>

-----------------------------------------------------------------------------
(* recover_funds_of_swap, and restarts.                                    *)

\* Slip: recover_funds trusts the log for whether the payment was sent.
MakerTrustsLog ==
    \/ "Finished" \notin mSaved \/ "MakerPaymentSent" \notin mSaved
    \/ "MakerPaymentRefunded" \in mSaved
    \/ {"TakerPaymentSpent", "TakerPaymentSpendConfirmed"} \subseteq mSaved

\* MakerSwap::recover_funds refuses a swap in this state without looking at the chain.
MakerNotRecoverable ==
    \/ "Finished" \notin mSaved
    \/ "MakerPaymentRefunded" \in mSaved
    \/ {"TakerPaymentSpent", "TakerPaymentSpendConfirmed"} \subseteq mSaved

MakerRecoverFunds ==
    /\ mUp /\ mQueue = <<>> /\ ~MakerNotRecoverable
    /\ "MakerPaymentSent" \in mSaved \/ check_if_my_payment_sent("MakerPayment")
    /\ \/ /\ SpendSeen("MakerPayment") /\ "TakerPaymentReceived" \in mSaved
          /\ ~SpendSeen("TakerPayment") /\ ~RefundSeen("TakerPayment")
          /\ SpendOk("TakerPayment")
       \/ /\ ~SpendSeen("MakerPayment") /\ ~RefundSeen("MakerPayment")
          /\ can_refund_htlc(maker_payment_lock(mStartedAt))
          /\ RefundOk("MakerPayment")
    /\ UNCHANGED <<now, sent, net, makerVars>>

\* MakerSavedSwap::is_recoverable, what the node tells its user.
MakerIsRecoverable ==
    /\ mLast = "Finished"
    /\ mSaved \cap {"StartFailed", "NegotiateFailed", "TakerFeeValidateFailed",
                    "TakerPaymentSpendConfirmed", "MakerPaymentRefunded"} = {}

\* The process dies; what was not saved is lost.  (A swap that is over has nothing to lose.)
MakerCrash ==
    /\ mUp /\ mCrashes < MaxMakerCrashes
    /\ mCmd # "None" \/ mQueue # <<>>
    /\ mUp' = FALSE /\ mCmd' = "None" /\ mQueue' = <<>>
    /\ mPhase' = "begin" /\ mWaitFrom' = 0
    /\ mCrashes' = mCrashes + 1
    /\ UNCHANGED <<mSaved, mLast, mStartedAt, ledgerVars>>

\* Slip: the swap is loaded and not resumed.
MakerNotResumed ==
    /\ ~mUp
    /\ mUp' = TRUE
    /\ UNCHANGED <<mCmd, mPhase, mWaitFrom, mQueue, mSaved, mLast, mStartedAt, mCrashes, ledgerVars>>

\* swap_kick_starts and load_from_saved.
MakerRestart ==
    /\ ~mUp
    /\ mUp' = TRUE
    /\ mCmd' = IF swap_kick_starts(mSaved) THEN MakerGetCommand(mLast) ELSE "None"
    /\ UNCHANGED <<mPhase, mWaitFrom, mQueue, mSaved, mLast, mStartedAt, mCrashes, ledgerVars>>

MakerHandles(peerStartedAt) ==
    \/ MakerStart
    \/ MakerNegotiateSend \/ MakerNegotiate(peerStartedAt)
    \/ MakerWaitTakerFeeSend \/ MakerWaitTakerFee
    \/ MakerPaymentSend
    \/ MakerWaitForTakerPaymentSend \/ MakerWaitOwnConfirmation \/ MakerWaitForTakerPayment
    \/ MakerValidateTakerPayment \/ MakerSpendTakerPayment \/ MakerConfirmTakerPaymentSpend
    \/ MakerPrepareRefund \/ MakerRefundPayment \/ MakerFinalizeRefund \/ MakerFinish

MakerNext(peerStartedAt) ==
    \/ MakerHandles(peerStartedAt)
    \/ MakerSaveEvent \/ MakerRecoverFunds \/ MakerCrash \/ MakerRestart

=============================================================================
