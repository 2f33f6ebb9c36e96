-------------------------- MODULE AtomicSwapProofs --------------------------
(***************************************************************************)
(* Proofs about AtomicSwap for every value of its constants.               *)
(***************************************************************************)
EXTENDS AtomicSwap, TLAPS

USE DEF LedgerTypeOK, MakerTypeOK, TakerTypeOK, WatcherTypeOK

-----------------------------------------------------------------------------
(* Types.                                                                  *)

\* Broadcasting a transaction keeps the chains well typed.
LEMMA PutType ==
    ASSUME LedgerTypeOK, NEW t \in Txs
    PROVE  Put(t) \in [Txs -> TxStates]
BY DEF Put, TxStates

\* So do sending, spending and refunding a payment, with or without an error.
LEMMA ClaimTypes ==
    ASSUME LedgerTypeOK, NEW p \in Payments
    PROVE  /\ SendPaymentOk(p) \/ SendPaymentErr(p) =>
                  tx' \in [Txs -> TxStates] /\ sent' \in [Payments \cup {"TakerFee"} -> Nat]
           /\ SpendOk(p) \/ SpendErr(p) => tx' \in [Txs -> TxStates]
           /\ RefundOk(p) \/ RefundErr(p) => tx' \in [Txs -> TxStates]
<1>1. /\ p \in Txs /\ SpendOf(p) \in Txs /\ RefundOf(p) \in Txs
  BY DEF Payments, Txs, SpendOf, RefundOf
<1>2. /\ Put(p) \in [Txs -> TxStates] /\ Put(SpendOf(p)) \in [Txs -> TxStates]
      /\ Put(RefundOf(p)) \in [Txs -> TxStates]
  BY <1>1, PutType
<1> QED
  BY <1>2 DEF SendPaymentOk, SendPaymentErr, SpendOk, SpendErr, RefundOk, RefundErr

\* Lists of up to three events are sequences of events.
LEMMA ShortSequences ==
    ASSUME NEW S
    PROVE  /\ <<>> \in Seq(S)
           /\ \A a \in S : <<a>> \in Seq(S)
           /\ \A a, b \in S : <<a, b>> \in Seq(S)
           /\ \A a, b, c \in S : <<a, b, c>> \in Seq(S)
OBVIOUS

\* The lists of events that the maker's handlers return.
LEMMA MakerEventLists ==
    /\ <<"Finished">> \in Seq(MakerSwapEvent)
    /\ <<"MakerPaymentDataSendFailed", "MakerPaymentWaitRefundStarted">> \in Seq(MakerSwapEvent)
    /\ <<"MakerPaymentInstructionsReceived", "TakerFeeValidated">> \in Seq(MakerSwapEvent)
    /\ <<"MakerPaymentRefundFailed">> \in Seq(MakerSwapEvent)
    /\ <<"MakerPaymentRefundFinished">> \in Seq(MakerSwapEvent)
    /\ <<"MakerPaymentRefundStarted">> \in Seq(MakerSwapEvent)
    /\ <<"MakerPaymentRefunded">> \in Seq(MakerSwapEvent)
    /\ <<"MakerPaymentSent">> \in Seq(MakerSwapEvent)
    /\ <<"MakerPaymentTransactionFailed">> \in Seq(MakerSwapEvent)
    /\ <<"MakerPaymentWaitConfirmFailed", "MakerPaymentWaitRefundStarted">> \in Seq(MakerSwapEvent)
    /\ <<"NegotiateFailed">> \in Seq(MakerSwapEvent)
    /\ <<"Negotiated">> \in Seq(MakerSwapEvent)
    /\ <<"StartFailed">> \in Seq(MakerSwapEvent)
    /\ <<"Started">> \in Seq(MakerSwapEvent)
    /\ <<"TakerFeeValidateFailed">> \in Seq(MakerSwapEvent)
    /\ <<"TakerPaymentReceived", "TakerPaymentWaitConfirmStarted">> \in Seq(MakerSwapEvent)
    /\ <<"TakerPaymentSpendConfirmFailed", "MakerPaymentWaitRefundStarted">> \in Seq(MakerSwapEvent)
    /\ <<"TakerPaymentSpendConfirmed">> \in Seq(MakerSwapEvent)
    /\ <<"TakerPaymentSpendFailed", "MakerPaymentWaitRefundStarted">> \in Seq(MakerSwapEvent)
    /\ <<"TakerPaymentSpent", "TakerPaymentSpendConfirmStarted">> \in Seq(MakerSwapEvent)
    /\ <<"TakerPaymentValidateFailed", "MakerPaymentWaitRefundStarted">> \in Seq(MakerSwapEvent)
    /\ <<"TakerPaymentValidatedAndConfirmed">> \in Seq(MakerSwapEvent)
    /\ <<"TakerPaymentWaitConfirmFailed", "MakerPaymentWaitRefundStarted">> \in Seq(MakerSwapEvent)
<1>1. /\ "Finished" \in MakerSwapEvent
      /\ "MakerPaymentDataSendFailed" \in MakerSwapEvent
      /\ "MakerPaymentInstructionsReceived" \in MakerSwapEvent
      /\ "MakerPaymentRefundFailed" \in MakerSwapEvent
      /\ "MakerPaymentRefundFinished" \in MakerSwapEvent
      /\ "MakerPaymentRefundStarted" \in MakerSwapEvent
      /\ "MakerPaymentRefunded" \in MakerSwapEvent
      /\ "MakerPaymentSent" \in MakerSwapEvent
      /\ "MakerPaymentTransactionFailed" \in MakerSwapEvent
      /\ "MakerPaymentWaitConfirmFailed" \in MakerSwapEvent
      /\ "MakerPaymentWaitRefundStarted" \in MakerSwapEvent
      /\ "NegotiateFailed" \in MakerSwapEvent
      /\ "Negotiated" \in MakerSwapEvent
      /\ "StartFailed" \in MakerSwapEvent
      /\ "Started" \in MakerSwapEvent
      /\ "TakerFeeValidateFailed" \in MakerSwapEvent
      /\ "TakerFeeValidated" \in MakerSwapEvent
      /\ "TakerPaymentReceived" \in MakerSwapEvent
      /\ "TakerPaymentSpendConfirmFailed" \in MakerSwapEvent
      /\ "TakerPaymentSpendConfirmStarted" \in MakerSwapEvent
      /\ "TakerPaymentSpendConfirmed" \in MakerSwapEvent
      /\ "TakerPaymentSpendFailed" \in MakerSwapEvent
      /\ "TakerPaymentSpent" \in MakerSwapEvent
      /\ "TakerPaymentValidateFailed" \in MakerSwapEvent
      /\ "TakerPaymentValidatedAndConfirmed" \in MakerSwapEvent
      /\ "TakerPaymentWaitConfirmFailed" \in MakerSwapEvent
      /\ "TakerPaymentWaitConfirmStarted" \in MakerSwapEvent
  BY DEF MakerSwapEvent
<1> QED
  BY <1>1, ShortSequences

\* A handler of maker_swap.rs that returns a command and events keeps the maker well typed.
LEMMA MakerReturnsType ==
    ASSUME MakerTypeOK, NEW next \in MakerSwapCommand \cup {"None"},
           NEW events \in Seq(MakerSwapEvent), MakerReturns(next, events), mStartedAt' \in Nat
    PROVE  MakerTypeOK'
BY DEF MakerReturns

\* So does one that starts to wait for a message or for confirmations.
LEMMA MakerWaitsType ==
    ASSUME LedgerTypeOK, MakerTypeOK, NEW phase \in {"conf", "recv"}, MakerWaits(phase)
    PROVE  MakerTypeOK'
BY DEF MakerWaits

\* Every step of run_maker_swap keeps the ledger and the maker well typed.
LEMMA MakerTypes ==
    ASSUME LedgerTypeOK, MakerTypeOK, tStartedAt \in Nat, MakerNext(tStartedAt)
    PROVE  LedgerTypeOK' /\ MakerTypeOK'
<1> DEFINE peer == tStartedAt
<1> USE MakerEventLists, MakerReturnsType, MakerWaitsType
    DEF MakerRefundBecause, MakerRuns, MakerSwapCommand,
        makerVars, ledgerVars, Broadcast, SwapMsgs
<1>1. CASE MakerStart
  BY <1>1 DEF MakerStart
<1>2. CASE MakerNegotiateSend
  BY <1>2 DEF MakerNegotiateSend
<1>3. CASE MakerNegotiate(peer)
  BY <1>3 DEF MakerNegotiate
<1>4. CASE MakerWaitTakerFeeSend
  BY <1>4 DEF MakerWaitTakerFeeSend
<1>5. CASE MakerWaitTakerFee
  BY <1>5 DEF MakerWaitTakerFee
<1>6. CASE MakerPaymentSend
  BY <1>6, ClaimTypes DEF MakerPaymentSend, Payments
<1>7. CASE MakerWaitForTakerPaymentSend
  BY <1>7 DEF MakerWaitForTakerPaymentSend
<1>8. CASE MakerWaitOwnConfirmation
  BY <1>8 DEF MakerWaitOwnConfirmation
<1>9. CASE MakerWaitForTakerPayment
  BY <1>9 DEF MakerWaitForTakerPayment
<1>10. CASE MakerValidateTakerPayment
  BY <1>10 DEF MakerValidateTakerPayment
<1>11. CASE MakerSpendTakerPayment
  BY <1>11, ClaimTypes DEF MakerSpendTakerPayment, Payments
<1>12. CASE MakerConfirmTakerPaymentSpend
  BY <1>12 DEF MakerConfirmTakerPaymentSpend
<1>13. CASE MakerPrepareRefund
  BY <1>13 DEF MakerPrepareRefund
<1>14. CASE MakerRefundPayment
  BY <1>14, ClaimTypes DEF MakerRefundPayment, Payments
<1>15. CASE MakerFinalizeRefund
  BY <1>15 DEF MakerFinalizeRefund
<1>16. CASE MakerFinish
  BY <1>16 DEF MakerFinish
<1>17. CASE MakerSaveEvent
  BY <1>17 DEF MakerSaveEvent, save_my_maker_swap_event
<1>18. CASE MakerRecoverFunds
  BY <1>18, ClaimTypes DEF MakerRecoverFunds, Payments
<1>19. CASE MakerCrash
  <2>1. <<>> \in Seq(MakerSwapEvent)
    BY ShortSequences
  <2>2. mQueue' \in Seq(MakerSwapEvent)
    BY <1>19, <2>1, Zenon DEF MakerCrash
  <2>3. mUp' \in BOOLEAN
    BY <1>19, Zenon DEF MakerCrash
  <2> QED
    BY <1>19, <2>2, <2>3 DEF MakerCrash
<1>20. CASE MakerRestart
  BY <1>20 DEF MakerRestart, MakerGetCommand
<1> QED
  BY <1>1, <1>2, <1>3, <1>4, <1>5, <1>6, <1>7, <1>8, <1>9, <1>10, <1>11, <1>12, <1>13, <1>14,
     <1>15, <1>16, <1>17, <1>18, <1>19, <1>20 DEF MakerNext, MakerHandles

-----------------------------------------------------------------------------

\* The lists of events that the taker's handlers return.
LEMMA TakerEventLists ==
    /\ <<"Finished">> \in Seq(TakerSwapEvent)
    /\ <<"MakerPaymentSpendConfirmFailed", "TakerPaymentWaitRefundStarted">> \in Seq(TakerSwapEvent)
    /\ <<"MakerPaymentSpendConfirmed">> \in Seq(TakerSwapEvent)
    /\ <<"MakerPaymentSpendFailed">> \in Seq(TakerSwapEvent)
    /\ <<"MakerPaymentSpent">> \in Seq(TakerSwapEvent)
    /\ <<"MakerPaymentValidateFailed">> \in Seq(TakerSwapEvent)
    /\ <<"MakerPaymentValidatedAndConfirmed">> \in Seq(TakerSwapEvent)
    /\ <<"MakerPaymentWaitConfirmFailed">> \in Seq(TakerSwapEvent)
    /\ <<"NegotiateFailed">> \in Seq(TakerSwapEvent)
    /\ <<"Negotiated">> \in Seq(TakerSwapEvent)
    /\ <<"StartFailed">> \in Seq(TakerSwapEvent)
    /\ <<"Started">> \in Seq(TakerSwapEvent)
    /\ <<"TakerFeeSendFailed">> \in Seq(TakerSwapEvent)
    /\ <<"TakerFeeSent">> \in Seq(TakerSwapEvent)
    /\ <<"TakerPaymentInstructionsReceived", "MakerPaymentReceived", "MakerPaymentWaitConfirmStarted">> \in Seq(TakerSwapEvent)
    /\ <<"TakerPaymentRefundFailed">> \in Seq(TakerSwapEvent)
    /\ <<"TakerPaymentRefundFinished">> \in Seq(TakerSwapEvent)
    /\ <<"TakerPaymentRefundStarted">> \in Seq(TakerSwapEvent)
    /\ <<"TakerPaymentRefunded">> \in Seq(TakerSwapEvent)
    /\ <<"TakerPaymentSent", "WatcherMessageSent">> \in Seq(TakerSwapEvent)
    /\ <<"TakerPaymentSent">> \in Seq(TakerSwapEvent)
    /\ <<"TakerPaymentSpent">> \in Seq(TakerSwapEvent)
    /\ <<"TakerPaymentTransactionFailed">> \in Seq(TakerSwapEvent)
    /\ <<"TakerPaymentWaitForSpendFailed", "TakerPaymentWaitRefundStarted">> \in Seq(TakerSwapEvent)
    /\ <<"TakerPaymentWaitForSpendFailed">> \in Seq(TakerSwapEvent)
<1>1. /\ "Finished" \in TakerSwapEvent
      /\ "MakerPaymentReceived" \in TakerSwapEvent
      /\ "MakerPaymentSpendConfirmFailed" \in TakerSwapEvent
      /\ "MakerPaymentSpendConfirmed" \in TakerSwapEvent
      /\ "MakerPaymentSpendFailed" \in TakerSwapEvent
      /\ "MakerPaymentSpent" \in TakerSwapEvent
      /\ "MakerPaymentValidateFailed" \in TakerSwapEvent
      /\ "MakerPaymentValidatedAndConfirmed" \in TakerSwapEvent
      /\ "MakerPaymentWaitConfirmFailed" \in TakerSwapEvent
      /\ "MakerPaymentWaitConfirmStarted" \in TakerSwapEvent
      /\ "NegotiateFailed" \in TakerSwapEvent
      /\ "Negotiated" \in TakerSwapEvent
      /\ "StartFailed" \in TakerSwapEvent
      /\ "Started" \in TakerSwapEvent
      /\ "TakerFeeSendFailed" \in TakerSwapEvent
      /\ "TakerFeeSent" \in TakerSwapEvent
      /\ "TakerPaymentInstructionsReceived" \in TakerSwapEvent
      /\ "TakerPaymentRefundFailed" \in TakerSwapEvent
      /\ "TakerPaymentRefundFinished" \in TakerSwapEvent
      /\ "TakerPaymentRefundStarted" \in TakerSwapEvent
      /\ "TakerPaymentRefunded" \in TakerSwapEvent
      /\ "TakerPaymentSent" \in TakerSwapEvent
      /\ "TakerPaymentSpent" \in TakerSwapEvent
      /\ "TakerPaymentTransactionFailed" \in TakerSwapEvent
      /\ "TakerPaymentWaitForSpendFailed" \in TakerSwapEvent
      /\ "TakerPaymentWaitRefundStarted" \in TakerSwapEvent
      /\ "WatcherMessageSent" \in TakerSwapEvent
  BY DEF TakerSwapEvent
<1> QED
  BY <1>1, ShortSequences

\* A handler of taker_swap.rs that returns a command and events keeps the taker well typed.
LEMMA TakerReturnsType ==
    ASSUME TakerTypeOK, NEW next \in TakerSwapCommand \cup Stuck \cup {"None"},
           NEW events \in Seq(TakerSwapEvent), TakerReturns(next, events), tStartedAt' \in Nat
    PROVE  TakerTypeOK'
BY DEF TakerReturns

\* So does one that starts to wait for a message.
LEMMA TakerWaitsType ==
    ASSUME LedgerTypeOK, TakerTypeOK, NEW phase \in {"recv", "recvNegotiated", "sent"},
           TakerWaits(phase)
    PROVE  TakerTypeOK'
BY DEF TakerWaits

\* load_from_saved yields a command other than Start, and events that exist.
LEMMA TakerLoadedType ==
    ASSUME TakerTypeOK, NEW cmd \in (TakerSwapCommand \cup Stuck \cup {"None"}) \ {"Start"},
           NEW events \in SUBSET TakerSwapEvent, NEW secret \in BOOLEAN,
           TakerLoaded(cmd, events, secret)
    PROVE  /\ tCmd' \in (TakerSwapCommand \cup Stuck \cup {"None"}) \ {"Start"}
           /\ tSaved' \in SUBSET TakerSwapEvent
           /\ tLast' \in TakerSwapEvent \cup {"None"}
           /\ tSecret' \in BOOLEAN
BY DEF TakerLoaded

\* The same for every way in which taker_restart.rs chooses the command.
LEMMA TakerRestartType ==
    ASSUME LedgerTypeOK, TakerTypeOK, TakerRestart
    PROVE  /\ tCmd' \in (TakerSwapCommand \cup Stuck \cup {"None"}) \ {"Start"}
           /\ tSaved' \in SUBSET TakerSwapEvent
           /\ tLast' \in TakerSwapEvent \cup {"None"}
           /\ tSecret' \in BOOLEAN
<1> DEFINE cmd == IF "Started" \in tSaved THEN TakerGetCommand(tLast) ELSE "None"
           added == {{}, {"MakerPaymentSpentByWatcher"}, {"TakerPaymentRefundedByWatcher"},
                     {"MakerPaymentSpentByWatcher"} \cup {"TakerPaymentSpent"}}
           cmds == (TakerSwapCommand \cup Stuck \cup {"None"}) \ {"Start"}
<1>1. cmd \in cmds
  BY DEF TakerGetCommand, TakerSwapCommand
<1>2. added \subseteq SUBSET TakerSwapEvent
  BY DEF TakerSwapEvent
<1>3a. ("TakerPaymentSpent" \in tSaved) \in BOOLEAN
  OBVIOUS
<1>3. \E c \in cmds, ev \in added, secret \in BOOLEAN : TakerLoaded(c, ev, secret)
  <2>1. CASE TakerCommandFromActivity(cmd)
    <3>1. {"ConfirmMakerPaymentSpend", "MakerCheatedError", "SpendMakerPayment", "Finish",
           "TakerPaymentSpentError", "LoadFailed"} \subseteq cmds
      BY DEF TakerSwapCommand, Stuck
    <3>2. \A found \in BOOLEAN : check_maker_payment_spend_and_add_event(found) =>
              \E c \in cmds, ev \in added, secret \in BOOLEAN : TakerLoaded(c, ev, secret)
      BY <3>1 DEF check_maker_payment_spend_and_add_event
    <3>3. \A x \in cmds : TakerLoaded(x, {}, "TakerPaymentSpent" \in tSaved) =>
              \E c \in cmds, ev \in added, secret \in BOOLEAN : TakerLoaded(c, ev, secret)
      BY <1>3a, Zenon
    <3>4. \A x \in cmds : TakerLoaded(x, {}, FALSE) =>
              \E c \in cmds, ev \in added, secret \in BOOLEAN : TakerLoaded(c, ev, secret)
      BY Zenon
    <3>5. TakerLoaded("Finish", {"TakerPaymentRefundedByWatcher"}, FALSE) =>
              \E c \in cmds, ev \in added, secret \in BOOLEAN : TakerLoaded(c, ev, secret)
      BY <3>1, Zenon
    <3> HIDE DEF cmd, cmds, added
    <3> QED
      BY <1>1, <2>1, <3>1, <3>2, <3>3, <3>4, <3>5 DEF TakerCommandFromActivity
  <2>2. CASE TakerLoaded(cmd, {}, "TakerPaymentSpent" \in tSaved)
    BY <1>1, <1>3a, <2>2, Zenon
  <2> QED
    BY <2>1, <2>2 DEF TakerRestart, swap_kick_starts
<1> HIDE DEF added, cmds
<1>4. PICK c \in cmds, ev \in added, secret \in BOOLEAN : TakerLoaded(c, ev, secret)
  BY <1>3
<1> QED
  BY <1>2, <1>4, TakerLoadedType DEF cmds

\* Every step of run_taker_swap keeps the ledger and the taker well typed.
LEMMA TakerTypes ==
    ASSUME LedgerTypeOK, TakerTypeOK, mStartedAt \in Nat, TakerNext(mStartedAt)
    PROVE  LedgerTypeOK' /\ TakerTypeOK'
<1> DEFINE peer == mStartedAt
<1> USE TakerEventLists, TakerReturnsType, TakerWaitsType
    DEF TakerRefundBecause, TakerRuns, TakerSwapCommand, Stuck,
        takerVars, ledgerVars, Broadcast, SwapMsgs
<1>1. CASE TakerStart
  BY <1>1 DEF TakerStart
<1>2. CASE TakerNegotiateBegin
  BY <1>2 DEF TakerNegotiateBegin
<1>3. CASE TakerNegotiateReply(peer)
  BY <1>3 DEF TakerNegotiateReply
<1>4. CASE TakerNegotiate
  BY <1>4 DEF TakerNegotiate
<1>5. CASE TakerSendTakerFee
  <2>1. sent' \in {sent, [sent EXCEPT !["TakerFee"] = @ + 1]}
    BY <1>5 DEF TakerSendTakerFee
  <2>2. sent' \in [Payments \cup {"TakerFee"} -> Nat]
    BY <2>1
  <2>3. TakerTypeOK'
    BY <1>5 DEF TakerSendTakerFee
  <2>4. UNCHANGED <<now, tx, net>>
    BY <1>5 DEF TakerSendTakerFee
  <2> QED
    BY <2>2, <2>3, <2>4
<1>6. CASE TakerWaitForMakerPaymentSend
  BY <1>6 DEF TakerWaitForMakerPaymentSend
<1>7. CASE TakerWaitForMakerPayment
  BY <1>7 DEF TakerWaitForMakerPayment
<1>8. CASE TakerValidateMakerPayment
  BY <1>8, ShortSequences DEF TakerValidateMakerPayment
<1>9. CASE TakerSendTakerPayment
  BY <1>9, ClaimTypes DEF TakerSendTakerPayment, Payments
<1>10. CASE TakerTellWatchers
  BY <1>10 DEF TakerTellWatchers
<1>11. CASE TakerWaitForSpendSend
  BY <1>11 DEF TakerWaitForSpendSend
<1>12. CASE TakerWaitForTakerPaymentSpend
  BY <1>12 DEF TakerWaitForTakerPaymentSpend
<1>13. CASE TakerSpendMakerPayment
  BY <1>13, ClaimTypes DEF TakerSpendMakerPayment, Payments
<1>14. CASE TakerConfirmMakerPaymentSpend
  BY <1>14 DEF TakerConfirmMakerPaymentSpend
<1>15. CASE TakerPrepareRefund
  BY <1>15 DEF TakerPrepareRefund
<1>16. CASE TakerRefundPayment
  BY <1>16, ClaimTypes DEF TakerRefundPayment, Payments
<1>17. CASE TakerFinalizeRefund
  BY <1>17 DEF TakerFinalizeRefund
<1>18. CASE TakerFinish
  BY <1>18 DEF TakerFinish
<1>19. CASE TakerSaveEvent
  BY <1>19 DEF TakerSaveEvent, save_my_taker_swap_event
<1>20. CASE TakerRecoverFunds
  BY <1>20, ClaimTypes DEF TakerRecoverFunds, Payments
<1>21. CASE TakerCrash
  <2>1. <<>> \in Seq(TakerSwapEvent)
    BY ShortSequences
  <2>2. tQueue' \in Seq(TakerSwapEvent)
    BY <1>21, <2>1, Zenon DEF TakerCrash
  <2>3. tUp' \in BOOLEAN /\ tSecret' \in BOOLEAN
    BY <1>21, Zenon DEF TakerCrash
  <2> QED
    BY <1>21, <2>2, <2>3 DEF TakerCrash
<1>22. CASE TakerRestart
  BY <1>22, TakerRestartType DEF TakerRestart
<1> QED
  BY <1>1, <1>2, <1>3, <1>4, <1>5, <1>6, <1>7, <1>8, <1>9, <1>10, <1>11, <1>12, <1>13, <1>14, <1>15, <1>16, <1>17, <1>18, <1>19, <1>20, <1>21, <1>22
  DEF TakerNext, TakerHandles

-----------------------------------------------------------------------------

\* Every step of the watcher keeps the ledger and the watcher well typed.
LEMMA WatcherTypes ==
    ASSUME LedgerTypeOK, WatcherTypeOK, WatcherNext(tStartedAt)
    PROVE  LedgerTypeOK' /\ WatcherTypeOK'
<1> USE DEF change_state, WatcherStates, ledgerVars
<1>1. CASE WatcherSpawn
  BY <1>1 DEF WatcherSpawn
<1>2. CASE WatcherValidateTakerFee
  BY <1>2 DEF WatcherValidateTakerFee
<1>3. CASE WatcherValidateTakerPayment(tStartedAt)
  BY <1>3 DEF WatcherValidateTakerPayment
<1>4. CASE WatcherWaitForTakerPaymentSpend(tStartedAt)
  BY <1>4 DEF WatcherWaitForTakerPaymentSpend
<1>5. CASE WatcherWaitForMakerPaymentSpend(tStartedAt)
  BY <1>5 DEF WatcherWaitForMakerPaymentSpend
<1>6. CASE WatcherSpendMakerPayment
  BY <1>6, ClaimTypes DEF WatcherSpendMakerPayment, Payments
<1>7. CASE WatcherRefundTakerPayment(tStartedAt)
  BY <1>7, ClaimTypes DEF WatcherRefundTakerPayment, Payments
<1>8. CASE WatcherStop
  BY <1>8 DEF WatcherStop
<1> QED
  BY <1>1, <1>2, <1>3, <1>4, <1>5, <1>6, <1>7, <1>8 DEF WatcherNext, WatcherHandles

\* Blocks, evictions and the clock.
LEMMA ChainTypes ==
    ASSUME LedgerTypeOK, MineStep \/ EvictStep \/ TickStep
    PROVE  LedgerTypeOK'
<1>1. CASE MineStep
  BY <1>1 DEF MineStep, Mine, TxStates
<1>2. CASE EvictStep
  BY <1>2 DEF EvictStep, Evict, TxStates
<1>3. CASE TickStep
  BY <1>3 DEF TickStep, Tick
<1> QED
  BY <1>1, <1>2, <1>3

\* The initial states are well typed.
LEMMA TypeInitial == Init => TypeOK
<1> SUFFICES ASSUME Init PROVE TypeOK
  OBVIOUS
<1>1. LedgerTypeOK
  BY DEF Init, LedgerInit, TxStates
<1>2. MakerTypeOK
  BY ShortSequences DEF Init, MakerInit, MakerSwapCommand
<1>3. TakerTypeOK
  BY ShortSequences DEF Init, TakerInit, TakerSwapCommand
<1>4. WatcherTypeOK
  BY DEF Init, WatcherInit, WatcherStates
<1> QED
  BY <1>1, <1>2, <1>3, <1>4 DEF TypeOK

\* Every step of the swap keeps every variable well typed.
LEMMA TypeStep == TypeOK /\ [Next]_vars => TypeOK'
<1> SUFFICES ASSUME TypeOK, [Next]_vars PROVE TypeOK'
  OBVIOUS
<1> USE DEF TypeOK
<1>1. CASE MakerStep
  BY <1>1, MakerTypes DEF MakerStep, takerVars
<1>2. CASE TakerStep
  BY <1>2, TakerTypes DEF TakerStep, makerVars
<1>3. CASE WatcherStep
  BY <1>3, WatcherTypes DEF WatcherStep, makerVars, takerVars
<1>4. CASE MineStep \/ EvictStep \/ TickStep
  BY <1>4, ChainTypes DEF MineStep, EvictStep, TickStep, makerVars, takerVars
<1>5. CASE Terminating \/ UNCHANGED vars
  BY <1>5 DEF Terminating, vars, ledgerVars, makerVars, takerVars
<1> QED
  BY <1>1, <1>2, <1>3, <1>4, <1>5 DEF Next

\* Every reachable state is well typed, for all lock times, clock skews, timeouts and
\* numbers of crashes, with or without watchers, evictions and failing nodes.
THEOREM TypeCorrect == Spec => []TypeOK
BY TypeInitial, TypeStep, PTL DEF Spec

-----------------------------------------------------------------------------
(* What a step of each party does to the ledger.                           *)

\* A step that leaves every transaction alone, except that it may broadcast t.
OnlyAdds(t) ==
    /\ \A u \in Txs : u # t => tx'[u] = tx[u]
    /\ tx'[t] # tx[t] => tx[t] = "none" /\ tx'[t] = "mempool"

\* Each call of SwapOps broadcasts at most its own transaction, and a claim changes the chain
\* only while the payment is unspent.
LEMMA ClaimEffects ==
    ASSUME LedgerTypeOK, NEW p \in Payments
    PROVE  /\ SendPaymentOk(p) \/ SendPaymentErr(p) => OnlyAdds(p)
           /\ SpendOk(p) \/ SpendErr(p) =>
                  OnlyAdds(SpendOf(p)) /\ (tx' = tx \/ Unspent(p))
           /\ RefundOk(p) \/ RefundErr(p) =>
                  OnlyAdds(RefundOf(p)) /\ (tx' = tx \/ Unspent(p))
<1>1. p \in Txs /\ SpendOf(p) \in Txs /\ RefundOf(p) \in Txs
  BY DEF Payments, Txs, SpendOf, RefundOf
<1>2. \A t \in Txs : tx' = Put(t) => OnlyAdds(t)
  BY DEF Put, OnlyAdds
<1>3. \A t \in Txs : tx' = tx => OnlyAdds(t)
  BY DEF OnlyAdds
<1>4. SendPaymentOk(p) \/ SendPaymentErr(p) => OnlyAdds(p)
  BY <1>1, <1>2, <1>3 DEF SendPaymentOk, SendPaymentErr
<1>5. SpendOk(p) \/ SpendErr(p) => OnlyAdds(SpendOf(p)) /\ (tx' = tx \/ Unspent(p))
  BY <1>1, <1>2, <1>3 DEF SpendOk, SpendErr
<1>6. RefundOk(p) \/ RefundErr(p) => OnlyAdds(RefundOf(p)) /\ (tx' = tx \/ Unspent(p))
  BY <1>1, <1>2, <1>3 DEF RefundOk, RefundErr
<1> QED
  BY <1>4, <1>5, <1>6

\* The names of the transactions that claim the two payments.
LEMMA Payment2 ==
    /\ "MakerPayment" \in Payments /\ "TakerPayment" \in Payments
    /\ SpendOf("MakerPayment") = "MakerPaymentSpend"
    /\ SpendOf("TakerPayment") = "TakerPaymentSpend"
    /\ RefundOf("MakerPayment") = "MakerPaymentRefund"
    /\ RefundOf("TakerPayment") = "TakerPaymentRefund"
BY DEF Payments, SpendOf, RefundOf

\* A step that leaves the chains alone adds any transaction in the weak sense of OnlyAdds.
LEMMA Nothing == ASSUME LedgerTypeOK, UNCHANGED tx PROVE \A t \in Txs : OnlyAdds(t)
BY DEF OnlyAdds

\* The maker only spends the taker's payment: from spend_taker_payment before its deadline,
\* or from recover_funds after the taker has spent the maker's.
LEMMA MakerLedger ==
    ASSUME LedgerTypeOK, MakerTypeOK, MakerNext(tStartedAt)
    PROVE  /\ now' = now
           /\ \A m \in {"NegotiationReply", "TakerSwapWatcherMsg"} : m \in net' <=> m \in net
           /\ \/ OnlyAdds("MakerPayment") \/ OnlyAdds("MakerPaymentRefund")
              \/ /\ OnlyAdds("TakerPaymentSpend")
                 /\ \/ tx' = tx
                    \/ /\ mCmd = "SpendTakerPayment" /\ Unspent("TakerPayment")
                       /\ now <= taker_payment_spend_deadline(mStartedAt)
                    \/ SpendSeen("MakerPayment") /\ ~SpendSeen("TakerPayment")
<1> DEFINE peer == tStartedAt
           Goal == /\ now' = now
                   /\ \A m \in {"NegotiationReply", "TakerSwapWatcherMsg"} : m \in net' <=> m \in net
                   /\ \/ OnlyAdds("MakerPayment") \/ OnlyAdds("MakerPaymentRefund")
                      \/ /\ OnlyAdds("TakerPaymentSpend")
                         /\ \/ tx' = tx
                            \/ /\ mCmd = "SpendTakerPayment" /\ Unspent("TakerPayment")
                               /\ now <= taker_payment_spend_deadline(mStartedAt)
                            \/ SpendSeen("MakerPayment") /\ ~SpendSeen("TakerPayment")
<1>a. "MakerPayment" \in Txs
  BY DEF Txs, Payments
<1>b. UNCHANGED <<now, tx, net>> => Goal
  BY <1>a, Nothing
<1>c. ASSUME UNCHANGED <<now, tx>>, NEW m \in {"Negotiation", "Negotiated", "NegotiatedFalse", "MakerPayment"},
             net' = net \cup {m}
      PROVE  Goal
  BY <1>a, <1>c, Nothing
<1>1. CASE MakerStart \/ MakerWaitTakerFee \/ MakerWaitOwnConfirmation \/ MakerWaitForTakerPayment
  BY <1>1, <1>b DEF MakerStart, MakerWaitTakerFee, MakerWaitOwnConfirmation,
                    MakerWaitForTakerPayment, ledgerVars
<1>2. CASE MakerValidateTakerPayment \/ MakerConfirmTakerPaymentSpend \/ MakerPrepareRefund
           \/ MakerFinalizeRefund \/ MakerFinish
  BY <1>2, <1>b DEF MakerValidateTakerPayment, MakerConfirmTakerPaymentSpend, MakerPrepareRefund,
                    MakerFinalizeRefund, MakerFinish, ledgerVars
<1>3. CASE MakerSaveEvent \/ MakerCrash \/ MakerRestart
  BY <1>3, <1>b DEF MakerSaveEvent, save_my_maker_swap_event, MakerCrash, MakerRestart, ledgerVars
<1>4. CASE MakerNegotiateSend \/ MakerNegotiate(peer) \/ MakerWaitTakerFeeSend
           \/ MakerWaitForTakerPaymentSend
  BY <1>4, <1>b, <1>c DEF MakerNegotiateSend, MakerNegotiate, MakerWaitTakerFeeSend,
                          MakerWaitForTakerPaymentSend, Broadcast
<1>5. CASE MakerPaymentSend
  BY <1>5, <1>a, Nothing, ClaimEffects, Payment2 DEF MakerPaymentSend
<1>6. CASE MakerSpendTakerPayment
  BY <1>6, <1>b, ClaimEffects, Payment2 DEF MakerSpendTakerPayment, MakerRuns
<1>7. CASE MakerRefundPayment
  BY <1>7, ClaimEffects, Payment2 DEF MakerRefundPayment
<1>8. CASE MakerRecoverFunds
  BY <1>8, ClaimEffects, Payment2 DEF MakerRecoverFunds
<1> QED
  BY <1>1, <1>2, <1>3, <1>4, <1>5, <1>6, <1>7, <1>8 DEF MakerNext, MakerHandles

\* The taker knows the secret, or can read it off the chain.
SecretKnown ==
    \/ tSecret \/ TakerRemembers("TakerPaymentSpent") \/ SpendSeen("TakerPayment")

\* The taker spends the maker's payment only with the secret, and refunds its own only after
\* the lock time.
LEMMA TakerLedger ==
    ASSUME LedgerTypeOK, TakerTypeOK, TakerNext(mStartedAt)
    PROVE  /\ now' = now
           /\ \/ OnlyAdds("TakerPayment")
              \/ OnlyAdds("MakerPaymentSpend") /\ (tx' = tx \/ SecretKnown)
              \/ /\ OnlyAdds("TakerPaymentRefund")
                 /\ \/ tx' = tx
                    \/ Unspent("TakerPayment") /\ now > taker_payment_lock(tStartedAt)
<1> DEFINE peer == mStartedAt
<1>a. "TakerPayment" \in Txs
  BY DEF Txs, Payments
<1>b. UNCHANGED tx => OnlyAdds("TakerPayment")
  BY <1>a, Nothing
<1>1. CASE TakerStart \/ TakerNegotiateBegin \/ TakerNegotiate \/ TakerWaitForMakerPayment
           \/ TakerValidateMakerPayment \/ TakerWaitForTakerPaymentSpend
  BY <1>1, <1>b DEF TakerStart, TakerNegotiateBegin, TakerNegotiate, TakerWaitForMakerPayment,
                    TakerValidateMakerPayment, TakerWaitForTakerPaymentSpend, ledgerVars
<1>2. CASE TakerConfirmMakerPaymentSpend \/ TakerPrepareRefund \/ TakerFinalizeRefund \/ TakerFinish
           \/ TakerSaveEvent \/ TakerCrash \/ TakerRestart
  BY <1>2, <1>b DEF TakerConfirmMakerPaymentSpend, TakerPrepareRefund, TakerFinalizeRefund,
                    TakerFinish, TakerSaveEvent, save_my_taker_swap_event, TakerCrash,
                           TakerRestart, ledgerVars
<1>3. CASE TakerNegotiateReply(peer) \/ TakerSendTakerFee \/ TakerWaitForMakerPaymentSend
           \/ TakerTellWatchers \/ TakerWaitForSpendSend
  BY <1>3, <1>b DEF TakerNegotiateReply, TakerSendTakerFee, TakerWaitForMakerPaymentSend,
                    TakerTellWatchers, TakerWaitForSpendSend
<1>4. CASE TakerSendTakerPayment
  BY <1>4, <1>b, ClaimEffects, Payment2 DEF TakerSendTakerPayment
<1>5. CASE TakerSpendMakerPayment
  BY <1>5, <1>b, ClaimEffects, Payment2 DEF TakerSpendMakerPayment, SecretKnown
<1>6. CASE TakerRefundPayment
  BY <1>6, ClaimEffects, Payment2 DEF TakerRefundPayment, can_refund_htlc
<1>7. CASE TakerRecoverFunds
  BY <1>7, ClaimEffects, Payment2 DEF TakerRecoverFunds, can_refund_htlc, SecretKnown, TakerRemembers
<1> QED
  BY <1>1, <1>2, <1>3, <1>4, <1>5, <1>6, <1>7 DEF TakerNext, TakerHandles

\* The watcher spends the maker's payment only in its state SpendMakerPayment and refunds the
\* taker's only after the lock time.
LEMMA WatcherLedger ==
    ASSUME LedgerTypeOK, WatcherTypeOK, WatcherNext(tStartedAt)
    PROVE  /\ now' = now /\ net' = net
           /\ \/ tx' = tx
              \/ OnlyAdds("MakerPaymentSpend") /\ wState = "SpendMakerPayment"
              \/ /\ OnlyAdds("TakerPaymentRefund") /\ wState = "RefundTakerPayment"
                 /\ \/ tx' = tx
                    \/ Unspent("TakerPayment") /\ now > taker_payment_lock(tStartedAt)
<1>1. CASE WatcherSpawn \/ WatcherStop \/ WatcherValidateTakerFee
           \/ WatcherValidateTakerPayment(tStartedAt)
           \/ WatcherWaitForTakerPaymentSpend(tStartedAt)
           \/ WatcherWaitForMakerPaymentSpend(tStartedAt)
  BY <1>1 DEF WatcherSpawn, WatcherStop, WatcherValidateTakerFee, WatcherValidateTakerPayment,
              WatcherWaitForTakerPaymentSpend, WatcherWaitForMakerPaymentSpend, ledgerVars
<1>2. CASE WatcherSpendMakerPayment
  BY <1>2, ClaimEffects, Payment2 DEF WatcherSpendMakerPayment, change_state
<1>3. CASE WatcherRefundTakerPayment(tStartedAt)
  BY <1>3, ClaimEffects, Payment2 DEF WatcherRefundTakerPayment, change_state, can_refund_htlc
<1> QED
  BY <1>1, <1>2, <1>3 DEF WatcherNext, WatcherHandles

-----------------------------------------------------------------------------
(* What the parties remember.                                              *)

\* The members of a short list.
LEMMA ListMembers ==
    /\ \A a, e : (\E i \in 1..Len(<<a>>) : <<a>>[i] = e) <=> e = a
    /\ \A a, b, e : (\E i \in 1..Len(<<a, b>>) : <<a, b>>[i] = e) <=> e \in {a, b}
    /\ \A a, b, c, e : (\E i \in 1..Len(<<a, b, c>>) : <<a, b, c>>[i] = e) <=> e \in {a, b, c}
    /\ \A e : ~\E i \in 1..Len(<<>>) : <<>>[i] = e
OBVIOUS

\* What the maker remembers after a handler returned one event, or two.
LEMMA MakerReturnsOne ==
    ASSUME MakerTypeOK, NEW next, NEW a, MakerReturns(next, <<a>>), NEW e
    PROVE  MakerRemembers(e)' <=> e \in mSaved \/ e = a
<1>1. mSaved' = mSaved /\ mQueue' = <<a>>
  BY DEF MakerReturns
<1>2. MakerRemembers(e)' <=> e \in mSaved \/ \E i \in 1..Len(<<a>>) : <<a>>[i] = e
  BY <1>1 DEF MakerRemembers
<1> QED
  BY <1>2, ListMembers

\* The same for a handler that returned two events.
LEMMA MakerReturnsTwo ==
    ASSUME MakerTypeOK, NEW next, NEW a, NEW b, MakerReturns(next, <<a, b>>), NEW e
    PROVE  MakerRemembers(e)' <=> e \in mSaved \/ e \in {a, b}
<1>1. mSaved' = mSaved /\ mQueue' = <<a, b>>
  BY DEF MakerReturns
<1>2. MakerRemembers(e)' <=> e \in mSaved \/ \E i \in 1..Len(<<a, b>>) : <<a, b>>[i] = e
  BY <1>1 DEF MakerRemembers
<1> QED
  BY <1>2, ListMembers

\* Saving an event moves it from the queue to the saved ones.
LEMMA MakerSaveMemory ==
    ASSUME MakerTypeOK, MakerSaveEvent, NEW e
    PROVE  MakerRemembers(e)' <=> MakerRemembers(e)
<1>1. /\ mQueue \in Seq(MakerSwapEvent) /\ mQueue # <<>>
      /\ mSaved' = mSaved \cup {mQueue[1]} /\ mQueue' = Tail(mQueue)
  BY DEF MakerSaveEvent, save_my_maker_swap_event
<1>2. /\ Len(mQueue) \in Nat \ {0} /\ Len(mQueue') = Len(mQueue) - 1
      /\ \A i \in 1..Len(mQueue') : mQueue'[i] = mQueue[i + 1]
  BY <1>1
<1>3. ASSUME MakerRemembers(e) PROVE MakerRemembers(e)'
  <2>1. CASE e \in mSaved
    BY <1>1, <2>1 DEF MakerRemembers
  <2>2. ASSUME NEW i \in 1..Len(mQueue), mQueue[i] = e PROVE MakerRemembers(e)'
    <3>1. CASE i = 1
      BY <1>1, <2>2, <3>1 DEF MakerRemembers
    <3>2. CASE i # 1
      <4>1. i - 1 \in 1..Len(mQueue') /\ mQueue'[i - 1] = e
        BY <1>2, <2>2, <3>2
      <4> QED
        BY <4>1 DEF MakerRemembers
    <3> QED
      BY <3>1, <3>2
  <2> QED
    BY <1>3, <2>1, <2>2 DEF MakerRemembers
<1>4. ASSUME MakerRemembers(e)' PROVE MakerRemembers(e)
  <2>1. CASE e \in mSaved'
    BY <1>1, <1>2, <2>1 DEF MakerRemembers
  <2>2. ASSUME NEW i \in 1..Len(mQueue'), mQueue'[i] = e PROVE MakerRemembers(e)
    <3>1. i + 1 \in 1..Len(mQueue) /\ mQueue[i + 1] = e
      BY <1>2, <2>2
    <3> QED
      BY <3>1 DEF MakerRemembers
  <2> QED
    BY <1>4, <2>1, <2>2 DEF MakerRemembers
<1> QED
  BY <1>3, <1>4

\* get_command never goes back to Start, and leads to SpendTakerPayment only from
\* TakerPaymentValidatedAndConfirmed.
LEMMA MakerGetCommandType ==
    /\ \A e : MakerGetCommand(e) \in (MakerSwapCommand \cup {"None"}) \ {"Start"}
    /\ MakerGetCommand("None") = "None"
    /\ \A e : MakerGetCommand(e) = "SpendTakerPayment" => e = "TakerPaymentValidatedAndConfirmed"
BY DEF MakerGetCommand, MakerSwapCommand

\* A maker that has left Start never comes back to it: its start time is settled.
LEMMA MakerStays ==
    ASSUME MakerTypeOK, MakerNext(tStartedAt), mCmd # "Start"
    PROVE  mCmd' # "Start" /\ mStartedAt' = mStartedAt
<1> DEFINE peer == tStartedAt
<1> USE DEF MakerReturns, MakerWaits, MakerRefundBecause, MakerRuns, makerVars
<1>1. CASE MakerStart \/ MakerNegotiateSend \/ MakerNegotiate(peer) \/ MakerWaitTakerFeeSend
           \/ MakerWaitTakerFee \/ MakerPaymentSend
  BY <1>1 DEF MakerStart, MakerNegotiateSend, MakerNegotiate, MakerWaitTakerFeeSend,
              MakerWaitTakerFee, MakerPaymentSend
<1>2. CASE MakerWaitForTakerPaymentSend \/ MakerWaitOwnConfirmation \/ MakerWaitForTakerPayment
           \/ MakerValidateTakerPayment \/ MakerSpendTakerPayment \/ MakerConfirmTakerPaymentSpend
  BY <1>2 DEF MakerWaitForTakerPaymentSend, MakerWaitOwnConfirmation, MakerWaitForTakerPayment,
              MakerValidateTakerPayment, MakerSpendTakerPayment, MakerConfirmTakerPaymentSpend
<1>3. CASE MakerPrepareRefund \/ MakerRefundPayment \/ MakerFinalizeRefund \/ MakerFinish
  BY <1>3 DEF MakerPrepareRefund, MakerRefundPayment, MakerFinalizeRefund, MakerFinish
<1>4. CASE MakerSaveEvent \/ MakerRecoverFunds \/ MakerCrash
  BY <1>4 DEF MakerSaveEvent, save_my_maker_swap_event, MakerRecoverFunds, MakerCrash
<1>5. CASE MakerRestart
  BY <1>5, MakerGetCommandType DEF MakerRestart
<1> QED
  BY <1>1, <1>2, <1>3, <1>4, <1>5 DEF MakerNext, MakerHandles

\* The last event is one of the saved ones.
LEMMA MakerLast ==
    ASSUME MakerTypeOK, MakerNext(tStartedAt), mLast # "None" => mLast \in mSaved
    PROVE  mLast' # "None" => mLast' \in mSaved'
<1> DEFINE peer == tStartedAt
<1> USE DEF MakerReturns, MakerWaits, MakerRefundBecause, makerVars
<1>1. CASE MakerStart \/ MakerNegotiateSend \/ MakerNegotiate(peer) \/ MakerWaitTakerFeeSend
           \/ MakerWaitTakerFee \/ MakerPaymentSend
  BY <1>1 DEF MakerStart, MakerNegotiateSend, MakerNegotiate, MakerWaitTakerFeeSend,
              MakerWaitTakerFee, MakerPaymentSend
<1>2. CASE MakerWaitForTakerPaymentSend \/ MakerWaitOwnConfirmation \/ MakerWaitForTakerPayment
           \/ MakerValidateTakerPayment \/ MakerSpendTakerPayment \/ MakerConfirmTakerPaymentSpend
  BY <1>2 DEF MakerWaitForTakerPaymentSend, MakerWaitOwnConfirmation, MakerWaitForTakerPayment,
              MakerValidateTakerPayment, MakerSpendTakerPayment, MakerConfirmTakerPaymentSpend
<1>3. CASE MakerPrepareRefund \/ MakerRefundPayment \/ MakerFinalizeRefund \/ MakerFinish
  BY <1>3 DEF MakerPrepareRefund, MakerRefundPayment, MakerFinalizeRefund, MakerFinish
<1>4. CASE MakerSaveEvent \/ MakerRecoverFunds \/ MakerCrash \/ MakerRestart
  BY <1>4 DEF MakerSaveEvent, save_my_maker_swap_event, MakerRecoverFunds, MakerCrash, MakerRestart
<1> QED
  BY <1>1, <1>2, <1>3, <1>4 DEF MakerNext, MakerHandles

\* A maker that has not negotiated has nothing to resume from but the events before it.
LEMMA MakerNegotiated ==
    ASSUME TypeOK, InvNegotiated, InvTakerStarted, MakerStep
    PROVE  InvNegotiated'
<1>0. MakerNext(tStartedAt) /\ UNCHANGED <<tCmd, tStartedAt>>
  BY DEF MakerStep, takerVars
<1>1. mLast' # "None" => mLast' \in mSaved'
  BY <1>0, MakerLast DEF TypeOK, InvNegotiated
<1>2. CASE StartsAgree
  <2>1. StartsAgree'
    BY <1>0, <1>2, MakerStays DEF TypeOK, StartsAgree
  <2> QED
    BY <1>1, <2>1 DEF InvNegotiated
<1>3. CASE ~StartsAgree
  <2>1. mCmd \notin PostCommands /\ \A e \in PostEvents : ~MakerRemembers(e)
    BY <1>3 DEF InvNegotiated
  <2>2. /\ PostEvents \cap {"Started", "StartFailed", "NegotiateFailed", "Finished"} = {}
        /\ PostCommands \cap {"Start", "Negotiate", "Finish", "None"} = {}
    BY DEF PostEvents, PostCommands, MakerGetCommand, MakerSwapCommand
  <2>3. \A e \in PostEvents : e \notin mSaved
    BY <2>1 DEF MakerRemembers
  <2>4. ASSUME mCmd' \notin PostCommands, \A e \in PostEvents : ~MakerRemembers(e)'
        PROVE  InvNegotiated'
    BY <1>1, <2>4 DEF InvNegotiated, PostEvents, PostCommands
  <2>5. ASSUME NEW next \in {"Negotiate", "Finish", "None"},
               NEW ev \in {"Started", "StartFailed", "NegotiateFailed", "Finished"},
               MakerReturns(next, <<ev>>)
        PROVE  InvNegotiated'
    <3>1. \A e \in PostEvents : ~MakerRemembers(e)'
      BY <2>2, <2>3, <2>5, MakerReturnsOne DEF TypeOK
    <3>2. mCmd' \notin PostCommands
      BY <2>2, <2>5 DEF MakerReturns
    <3> QED
      BY <2>4, <3>1, <3>2
  <2>6. CASE MakerStart
    BY <2>5, <2>6 DEF MakerStart
  <2>7. CASE MakerNegotiateSend
    <3>1. UNCHANGED <<mCmd, mSaved, mQueue>>
      BY <2>7 DEF MakerNegotiateSend, MakerWaits
    <3> QED
      BY <2>1, <2>4, <3>1 DEF MakerRemembers
  <2>8. CASE MakerNegotiate(tStartedAt)
    <3>1. CASE MakerReturns("Finish", <<"NegotiateFailed">>)
      BY <2>5, <3>1
    <3>2. CASE /\ "NegotiationReply" \in net
               /\ AbsDiff(mStartedAt, tStartedAt) <= MaxStartedAtDiff
               /\ MakerReturns("WaitForTakerFee", <<"Negotiated">>)
      <4>1. StartsAgree'
        BY <1>0, <2>8, <3>2 DEF StartsAgree, MakerReturns, MakerNegotiate, InvTakerStarted
      <4> QED
        BY <1>1, <4>1 DEF InvNegotiated
    <3> QED
      BY <2>8, <3>1, <3>2 DEF MakerNegotiate, Received
  <2>9. CASE MakerFinish
    BY <2>5, <2>9 DEF MakerFinish
  <2>10. CASE MakerSaveEvent
    <3>1. \A e \in PostEvents : ~MakerRemembers(e)'
      BY <2>1, <2>10, MakerSaveMemory DEF TypeOK
    <3> QED
      BY <2>1, <2>4, <2>10, <3>1 DEF MakerSaveEvent, save_my_maker_swap_event
  <2>11. CASE MakerRecoverFunds
    <3>1. UNCHANGED <<mCmd, mSaved, mQueue>>
      BY <2>11 DEF MakerRecoverFunds, makerVars
    <3> QED
      BY <2>1, <2>4, <3>1 DEF MakerRemembers
  <2>12. CASE MakerCrash
    <3>1. mCmd' = "None" /\ mSaved' = mSaved /\ mQueue' = <<>>
      BY <2>12 DEF MakerCrash
    <3>2. \A e \in PostEvents : ~MakerRemembers(e)'
      BY <2>3, <3>1 DEF MakerRemembers
    <3> QED
      BY <2>2, <2>4, <3>1, <3>2
  <2>13. CASE MakerRestart
    <3>1. UNCHANGED <<mSaved, mQueue>> /\ (mCmd' = "None" \/ mCmd' = MakerGetCommand(mLast))
      BY <2>13 DEF MakerRestart
    <3>2. ASSUME MakerGetCommand(mLast) \in PostCommands PROVE FALSE
      <4>1. mLast # "None"
        BY <2>2, <3>2, MakerGetCommandType
      <4>2. mLast \in PostEvents
        BY <3>2, <4>1 DEF PostEvents, TypeOK, MakerTypeOK
      <4> QED
        BY <2>3, <4>1, <4>2 DEF InvNegotiated
    <3>3. mCmd' \notin PostCommands
      BY <2>2, <3>1, <3>2
    <3>4. \A e \in PostEvents : ~MakerRemembers(e)'
      BY <2>1, <3>1 DEF MakerRemembers
    <3> QED
      BY <2>4, <3>3, <3>4
  <2>14. \/ MakerStart \/ MakerNegotiateSend \/ MakerNegotiate(tStartedAt) \/ MakerFinish
         \/ MakerSaveEvent \/ MakerRecoverFunds \/ MakerCrash \/ MakerRestart
    <3> USE <2>1 DEF MakerRuns, PostCommands, MakerSwapCommand
    <3>1. ~(MakerWaitTakerFeeSend \/ MakerWaitTakerFee \/ MakerPaymentSend)
      BY DEF MakerWaitTakerFeeSend, MakerWaitTakerFee, MakerPaymentSend
    <3>2. ~(MakerWaitForTakerPaymentSend \/ MakerWaitOwnConfirmation \/ MakerWaitForTakerPayment)
      BY DEF MakerWaitForTakerPaymentSend, MakerWaitOwnConfirmation, MakerWaitForTakerPayment
    <3>3. ~(MakerValidateTakerPayment \/ MakerSpendTakerPayment \/ MakerConfirmTakerPaymentSpend)
      BY DEF MakerValidateTakerPayment, MakerSpendTakerPayment, MakerConfirmTakerPaymentSpend
    <3>4. ~(MakerPrepareRefund \/ MakerRefundPayment \/ MakerFinalizeRefund)
      BY DEF MakerPrepareRefund, MakerRefundPayment, MakerFinalizeRefund
    <3> QED
      BY <1>0, <3>1, <3>2, <3>3, <3>4 DEF MakerNext, MakerHandles
  <2> QED
    BY <2>6, <2>7, <2>8, <2>9, <2>10, <2>11, <2>12, <2>13, <2>14
<1> QED
  BY <1>2, <1>3

\* The maker decides to spend the taker's payment only after it has seen it confirmed, and
\* a restart takes the decision from the saved event that records it.
LEMMA MakerConfirmed ==
    ASSUME TypeOK, InvNegotiated, InvConfirmed, MakerNext(tStartedAt)
    PROVE  /\ mCmd' = "SpendTakerPayment" => Mined("TakerPayment")
           /\ MakerRemembers("TakerPaymentValidatedAndConfirmed")' => Mined("TakerPayment")
<1> DEFINE valid == "TakerPaymentValidatedAndConfirmed"
           peer == tStartedAt
<1>0. MakerTypeOK
  BY DEF TypeOK
<1>a. valid \in mSaved => Mined("TakerPayment")
  BY DEF InvConfirmed, MakerRemembers
<1>b. ASSUME NEW next, next # "SpendTakerPayment", NEW e, e # valid, MakerReturns(next, <<e>>)
      PROVE  /\ mCmd' = "SpendTakerPayment" => Mined("TakerPayment")
             /\ MakerRemembers(valid)' => Mined("TakerPayment")
  <2>1. MakerRemembers(valid)' <=> valid \in mSaved \/ valid = e
    BY <1>0, <1>b, MakerReturnsOne
  <2> QED
    BY <1>a, <1>b, <2>1 DEF MakerReturns
<1>c. ASSUME NEW next, next # "SpendTakerPayment", NEW e, e # valid, NEW f, f # valid,
             MakerReturns(next, <<e, f>>)
      PROVE  /\ mCmd' = "SpendTakerPayment" => Mined("TakerPayment")
             /\ MakerRemembers(valid)' => Mined("TakerPayment")
  <2>1. MakerRemembers(valid)' <=> valid \in mSaved \/ valid \in {e, f}
    BY <1>0, <1>c, MakerReturnsTwo
  <2> QED
    BY <1>a, <1>c, <2>1 DEF MakerReturns
<1>d. ASSUME UNCHANGED <<mCmd, mSaved, mQueue>>
      PROVE  /\ mCmd' = "SpendTakerPayment" => Mined("TakerPayment")
             /\ MakerRemembers(valid)' => Mined("TakerPayment")
  BY <1>d DEF InvConfirmed, MakerRemembers
<1>e. ASSUME NEW e, e # valid, MakerRefundBecause(e)
      PROVE  /\ mCmd' = "SpendTakerPayment" => Mined("TakerPayment")
             /\ MakerRemembers(valid)' => Mined("TakerPayment")
  BY <1>c, <1>e DEF MakerRefundBecause
<1>1. CASE MakerStart
  BY <1>1, <1>b DEF MakerStart
<1>2. CASE MakerNegotiateSend \/ MakerWaitTakerFeeSend
  BY <1>2, <1>d DEF MakerNegotiateSend, MakerWaitTakerFeeSend, MakerWaits
<1>3. CASE MakerNegotiate(peer)
  BY <1>3, <1>b DEF MakerNegotiate
<1>4. CASE MakerWaitTakerFee
  BY <1>4, <1>b, <1>c DEF MakerWaitTakerFee
<1>5. CASE MakerPaymentSend
  BY <1>5, <1>b DEF MakerPaymentSend
<1>6. CASE MakerWaitForTakerPaymentSend \/ MakerWaitOwnConfirmation
  BY <1>6, <1>d, <1>e DEF MakerWaitForTakerPaymentSend, MakerWaitOwnConfirmation, MakerWaits
<1>7. CASE MakerWaitForTakerPayment
  BY <1>7, <1>c, <1>e DEF MakerWaitForTakerPayment
<1>8. CASE MakerValidateTakerPayment
  BY <1>8, <1>b, <1>e DEF MakerValidateTakerPayment, wait_for_confirmations
<1>9. CASE MakerSpendTakerPayment
  BY <1>9, <1>c, <1>e DEF MakerSpendTakerPayment
<1>10. CASE MakerConfirmTakerPaymentSpend
  BY <1>10, <1>b, <1>e DEF MakerConfirmTakerPaymentSpend
<1>11. CASE MakerPrepareRefund \/ MakerFinalizeRefund \/ MakerFinish
  BY <1>11, <1>b DEF MakerPrepareRefund, MakerFinalizeRefund, MakerFinish
<1>12. CASE MakerRefundPayment
  BY <1>12, <1>b DEF MakerRefundPayment
<1>13. CASE MakerSaveEvent
  <2>1. MakerRemembers(valid)' <=> MakerRemembers(valid)
    BY <1>0, <1>13, MakerSaveMemory
  <2> QED
    BY <1>13, <2>1 DEF MakerSaveEvent, save_my_maker_swap_event, InvConfirmed
<1>14. CASE MakerRecoverFunds
  BY <1>14, <1>d DEF MakerRecoverFunds, makerVars
<1>15. CASE MakerCrash
  <2>1. mCmd' = "None" /\ mSaved' = mSaved /\ mQueue' = <<>>
    BY <1>15 DEF MakerCrash
  <2>2. MakerRemembers(valid)' => valid \in mSaved
    BY <2>1 DEF MakerRemembers
  <2> QED
    BY <1>a, <2>1, <2>2
<1>16. CASE MakerRestart
  <2>1. UNCHANGED <<mSaved, mQueue>> /\ (mCmd' = "None" \/ mCmd' = MakerGetCommand(mLast))
    BY <1>16 DEF MakerRestart
  <2>2. MakerRemembers(valid)' <=> MakerRemembers(valid)
    BY <2>1 DEF MakerRemembers
  <2>3. MakerGetCommand(mLast) = "SpendTakerPayment" => valid \in mSaved
    BY MakerGetCommandType DEF InvNegotiated
  <2> QED
    BY <1>a, <2>1, <2>2, <2>3 DEF InvConfirmed
<1> QED
  BY <1>1, <1>2, <1>3, <1>4, <1>5, <1>6, <1>7, <1>8, <1>9, <1>10, <1>11, <1>12, <1>13, <1>14,
     <1>15, <1>16 DEF MakerNext, MakerHandles

-----------------------------------------------------------------------------
(* The same for the taker, whose restart also looks at the chain.          *)

\* Every step of a taker leaves it past Start.
LEMMA TakerLeavesStart ==
    ASSUME TypeOK, InvTakerStarted, TakerNext(mStartedAt)
    PROVE  tCmd' # "Start"
<1> DEFINE peer == mStartedAt
<1> USE DEF TakerReturns, TakerWaits, TakerRefundBecause, TakerRuns
<1>1. CASE TakerStart \/ TakerNegotiateBegin \/ TakerNegotiateReply(peer) \/ TakerNegotiate
           \/ TakerSendTakerFee \/ TakerWaitForMakerPaymentSend
  BY <1>1 DEF TakerStart, TakerNegotiateBegin, TakerNegotiateReply, TakerNegotiate,
              TakerSendTakerFee, TakerWaitForMakerPaymentSend
<1>2. CASE TakerWaitForMakerPayment \/ TakerValidateMakerPayment \/ TakerTellWatchers
           \/ TakerWaitForSpendSend \/ TakerWaitForTakerPaymentSpend
  BY <1>2 DEF TakerWaitForMakerPayment, TakerValidateMakerPayment, TakerTellWatchers,
              TakerWaitForSpendSend, TakerWaitForTakerPaymentSpend
<1>3. CASE TakerSendTakerPayment
  BY <1>3 DEF TakerSendTakerPayment
<1>4. CASE TakerSpendMakerPayment \/ TakerConfirmMakerPaymentSpend \/ TakerPrepareRefund
           \/ TakerRefundPayment \/ TakerFinalizeRefund \/ TakerFinish
  BY <1>4 DEF TakerSpendMakerPayment, TakerConfirmMakerPaymentSpend, TakerPrepareRefund,
              TakerRefundPayment, TakerFinalizeRefund, TakerFinish
<1>5. CASE TakerSaveEvent \/ TakerCrash
  BY <1>5 DEF TakerSaveEvent, save_my_taker_swap_event, TakerCrash, InvTakerStarted
<1>6. CASE TakerRecoverFunds
  BY <1>6 DEF TakerRecoverFunds, TakerNotRecoverable, takerVars, InvTakerStarted
<1>7. CASE TakerRestart
  <2>1. \A e : TakerGetCommand(e) # "Start"
    BY DEF TakerGetCommand
  <2>2. \A cmd : TakerCommandFromActivity(cmd) /\ cmd # "Start" => tCmd' # "Start"
    BY DEF TakerCommandFromActivity, check_maker_payment_spend_and_add_event, TakerLoaded
  <2> QED
    BY <1>7, <2>1, <2>2 DEF TakerRestart, TakerLoaded
<1> QED
  BY <1>1, <1>2, <1>3, <1>4, <1>5, <1>6, <1>7 DEF TakerNext, TakerHandles

\* The start time of a taker that has left Start is settled.
LEMMA TakerStays ==
    ASSUME TypeOK, TakerNext(mStartedAt), tCmd # "Start"
    PROVE  tStartedAt' = tStartedAt
<1> DEFINE peer == mStartedAt
<1> USE DEF TakerWaits, TakerRuns, takerVars
<1>1. CASE TakerStart \/ TakerNegotiateBegin \/ TakerNegotiateReply(peer) \/ TakerNegotiate
           \/ TakerSendTakerFee \/ TakerWaitForMakerPaymentSend
  BY <1>1 DEF TakerStart, TakerNegotiateBegin, TakerNegotiateReply, TakerNegotiate,
              TakerSendTakerFee, TakerWaitForMakerPaymentSend
<1>2. CASE TakerWaitForMakerPayment \/ TakerValidateMakerPayment \/ TakerTellWatchers
           \/ TakerWaitForSpendSend \/ TakerWaitForTakerPaymentSpend
  BY <1>2 DEF TakerWaitForMakerPayment, TakerValidateMakerPayment, TakerTellWatchers,
              TakerWaitForSpendSend, TakerWaitForTakerPaymentSpend
<1>3. CASE TakerSendTakerPayment
  BY <1>3 DEF TakerSendTakerPayment
<1>4. CASE TakerSpendMakerPayment \/ TakerConfirmMakerPaymentSpend \/ TakerPrepareRefund
           \/ TakerRefundPayment \/ TakerFinalizeRefund \/ TakerFinish
  BY <1>4 DEF TakerSpendMakerPayment, TakerConfirmMakerPaymentSpend, TakerPrepareRefund,
              TakerRefundPayment, TakerFinalizeRefund, TakerFinish
<1>5. CASE TakerSaveEvent \/ TakerCrash \/ TakerRecoverFunds \/ TakerRestart
  BY <1>5 DEF TakerSaveEvent, save_my_taker_swap_event, TakerCrash, TakerRecoverFunds, TakerRestart
<1> QED
  BY <1>1, <1>2, <1>3, <1>4, <1>5 DEF TakerNext, TakerHandles

\* Saving an event moves it from the queue to the saved ones.
LEMMA TakerSaveMemory ==
    ASSUME TakerTypeOK, TakerSaveEvent, NEW e
    PROVE  TakerRemembers(e)' <=> TakerRemembers(e)
<1>1. /\ tQueue \in Seq(TakerSwapEvent) /\ tQueue # <<>>
      /\ tSaved' = tSaved \cup {tQueue[1]} /\ tQueue' = Tail(tQueue)
  BY DEF TakerSaveEvent, save_my_taker_swap_event, TakerTypeOK
<1>2. /\ Len(tQueue) \in Nat \ {0} /\ Len(tQueue') = Len(tQueue) - 1
      /\ \A i \in 1..Len(tQueue') : tQueue'[i] = tQueue[i + 1]
  BY <1>1
<1>3. ASSUME TakerRemembers(e) PROVE TakerRemembers(e)'
  <2>1. CASE e \in tSaved
    BY <1>1, <2>1 DEF TakerRemembers
  <2>2. ASSUME NEW i \in 1..Len(tQueue), tQueue[i] = e PROVE TakerRemembers(e)'
    <3>1. CASE i = 1
      BY <1>1, <2>2, <3>1 DEF TakerRemembers
    <3>2. CASE i # 1
      <4>1. i - 1 \in 1..Len(tQueue') /\ tQueue'[i - 1] = e
        BY <1>2, <2>2, <3>2
      <4> QED
        BY <4>1 DEF TakerRemembers
    <3> QED
      BY <3>1, <3>2
  <2> QED
    BY <1>3, <2>1, <2>2 DEF TakerRemembers
<1>4. ASSUME TakerRemembers(e)' PROVE TakerRemembers(e)
  <2>1. CASE e \in tSaved'
    BY <1>1, <1>2, <2>1 DEF TakerRemembers
  <2>2. ASSUME NEW i \in 1..Len(tQueue'), tQueue'[i] = e PROVE TakerRemembers(e)
    <3>1. i + 1 \in 1..Len(tQueue) /\ tQueue[i + 1] = e
      BY <1>2, <2>2
    <3> QED
      BY <3>1 DEF TakerRemembers
  <2> QED
    BY <1>4, <2>1, <2>2 DEF TakerRemembers
<1> QED
  BY <1>3, <1>4

\* Whatever a taker does, it knows the secret afterwards only if it knew it or could read it
\* off the chain.
LEMMA TakerLearns ==
    ASSUME TypeOK, TakerNext(mStartedAt)
    PROVE  tSecret' \/ TakerRemembers("TakerPaymentSpent")' => SecretKnown
<1> DEFINE spent == "TakerPaymentSpent"
           peer == mStartedAt
<1>0. TakerTypeOK
  BY DEF TypeOK
<1>a. ASSUME UNCHANGED <<tSecret, tSaved, tQueue>>
      PROVE  tSecret' \/ TakerRemembers(spent)' => SecretKnown
  BY <1>a DEF SecretKnown, TakerRemembers
<1>b. ASSUME NEW next, NEW e, e # spent, TakerReturns(next, <<e>>)
      PROVE  tSecret' \/ TakerRemembers(spent)' => SecretKnown
  <2>1. tSaved' = tSaved /\ tSecret' = tSecret /\ tQueue' = <<e>>
    BY <1>b DEF TakerReturns
  <2>2. TakerRemembers(spent)' <=> spent \in tSaved \/ \E i \in 1..Len(<<e>>) : <<e>>[i] = spent
    BY <2>1 DEF TakerRemembers
  <2>3. TakerRemembers(spent)' => spent \in tSaved
    BY <1>b, <2>2, ListMembers
  <2> QED
    BY <2>1, <2>3 DEF SecretKnown, TakerRemembers
<1>c. ASSUME NEW next, NEW e, e # spent, NEW f, f # spent, TakerReturns(next, <<e, f>>)
      PROVE  tSecret' \/ TakerRemembers(spent)' => SecretKnown
  <2>1. tSaved' = tSaved /\ tSecret' = tSecret /\ tQueue' = <<e, f>>
    BY <1>c DEF TakerReturns
  <2>2. TakerRemembers(spent)'
            <=> spent \in tSaved \/ \E i \in 1..Len(<<e, f>>) : <<e, f>>[i] = spent
    BY <2>1 DEF TakerRemembers
  <2>3. TakerRemembers(spent)' => spent \in tSaved
    BY <1>c, <2>2, ListMembers
  <2> QED
    BY <2>1, <2>3 DEF SecretKnown, TakerRemembers
<1>d. ASSUME NEW e, e # spent, TakerRefundBecause(e)
      PROVE  tSecret' \/ TakerRemembers(spent)' => SecretKnown
  BY <1>c, <1>d DEF TakerRefundBecause
<1>e. ASSUME SpendSeen("TakerPayment")
      PROVE  tSecret' \/ TakerRemembers(spent)' => SecretKnown
  BY <1>e DEF SecretKnown
<1>1. CASE TakerStart
  BY <1>1, <1>b DEF TakerStart
<1>2. CASE TakerNegotiateBegin \/ TakerWaitForSpendSend
  BY <1>2, <1>a DEF TakerNegotiateBegin, TakerWaitForSpendSend, TakerWaits
<1>3. CASE TakerNegotiateReply(peer) \/ TakerNegotiate
  BY <1>3, <1>a, <1>b DEF TakerNegotiateReply, TakerNegotiate, TakerWaits
<1>4. CASE TakerSendTakerFee
  BY <1>4, <1>b DEF TakerSendTakerFee
<1>5. CASE TakerWaitForMakerPaymentSend
  BY <1>5, <1>a, <1>b DEF TakerWaitForMakerPaymentSend, TakerWaits
<1>6. CASE TakerWaitForMakerPayment
  <2>1. CASE TakerReturns("Finish", <<"MakerPaymentValidateFailed">>)
    BY <1>b, <2>1
  <2>2. CASE TakerReturns("ValidateMakerPayment",
                          <<"TakerPaymentInstructionsReceived", "MakerPaymentReceived",
                            "MakerPaymentWaitConfirmStarted">>)
    <3> DEFINE list == <<"TakerPaymentInstructionsReceived", "MakerPaymentReceived",
                         "MakerPaymentWaitConfirmStarted">>
    <3>1. tSaved' = tSaved /\ tSecret' = tSecret /\ tQueue' = list
      BY <2>2 DEF TakerReturns
    <3>2. TakerRemembers(spent)' <=> spent \in tSaved \/ \E i \in 1..Len(list) : list[i] = spent
      BY <3>1 DEF TakerRemembers
    <3>3. TakerRemembers(spent)' => spent \in tSaved
      BY <3>2, ListMembers
    <3> QED
      BY <3>1, <3>3 DEF SecretKnown, TakerRemembers
  <2> QED
    BY <1>6, <2>1, <2>2 DEF TakerWaitForMakerPayment
<1>7. CASE TakerValidateMakerPayment
  <2>1. CASE TakerReturns("Panicked", <<>>)
    <3>1. tSaved' = tSaved /\ tSecret' = tSecret /\ tQueue' = <<>>
      BY <2>1 DEF TakerReturns
    <3>2. TakerRemembers(spent)' => spent \in tSaved
      BY <3>1 DEF TakerRemembers
    <3> QED
      BY <3>1, <3>2 DEF SecretKnown, TakerRemembers
  <2> QED
    BY <1>7, <1>b, <2>1 DEF TakerValidateMakerPayment
<1>8. CASE TakerSendTakerPayment
  BY <1>8, <1>a, <1>b DEF TakerSendTakerPayment, TakerWaits
<1>9. CASE TakerTellWatchers
  BY <1>9, <1>b, <1>c DEF TakerTellWatchers
<1>10. CASE TakerWaitForTakerPaymentSpend
  BY <1>10, <1>b, <1>d, <1>e DEF TakerWaitForTakerPaymentSpend
<1>11. CASE TakerSpendMakerPayment
  BY <1>11, <1>b DEF TakerSpendMakerPayment
<1>12. CASE TakerConfirmMakerPaymentSpend
  BY <1>12, <1>b, <1>d DEF TakerConfirmMakerPaymentSpend
<1>13. CASE TakerPrepareRefund \/ TakerFinalizeRefund \/ TakerFinish
  BY <1>13, <1>b DEF TakerPrepareRefund, TakerFinalizeRefund, TakerFinish
<1>14. CASE TakerRefundPayment
  BY <1>14, <1>b DEF TakerRefundPayment
<1>15. CASE TakerSaveEvent
  <2>1. TakerRemembers(spent)' <=> TakerRemembers(spent)
    BY <1>0, <1>15, TakerSaveMemory
  <2>2. tSecret' <=> tSecret \/ Head(tQueue) = spent
    BY <1>15 DEF TakerSaveEvent, save_my_taker_swap_event
  <2>3. Head(tQueue) = tQueue[1] /\ 1 \in 1..Len(tQueue)
    BY <1>0, <1>15 DEF TakerSaveEvent, save_my_taker_swap_event
  <2>4. Head(tQueue) = spent => TakerRemembers(spent)
    BY <2>3 DEF TakerRemembers
  <2> QED
    BY <2>1, <2>2, <2>4 DEF SecretKnown
<1>16. CASE TakerCrash
  <2>1. ~tSecret' /\ tSaved' = tSaved /\ tQueue' = <<>>
    BY <1>16 DEF TakerCrash
  <2>2. TakerRemembers(spent)' => spent \in tSaved
    BY <2>1 DEF TakerRemembers
  <2> QED
    BY <2>1, <2>2 DEF SecretKnown, TakerRemembers
<1>17. CASE TakerRecoverFunds
  BY <1>17, <1>a DEF TakerRecoverFunds, takerVars
<1>18. CASE TakerRestart
  <2>0. tQueue' = tQueue
    BY <1>18 DEF TakerRestart
  <2>1. ASSUME NEW cmd, NEW ev, NEW secret, TakerLoaded(cmd, ev, secret), spent \notin ev,
               secret => spent \in tSaved
        PROVE  tSecret' \/ TakerRemembers(spent)' => SecretKnown
    <3>1. tSecret' = secret /\ tSaved' = tSaved \cup ev
      BY <2>1 DEF TakerLoaded
    <3>2. TakerRemembers(spent)' => TakerRemembers(spent)
      BY <2>0, <2>1, <3>1 DEF TakerRemembers
    <3> QED
      BY <2>1, <3>1, <3>2 DEF SecretKnown, TakerRemembers
  <2>2. check_maker_payment_spend_and_add_event(FALSE)
            => (tSecret' \/ TakerRemembers(spent)' => SecretKnown)
    BY <2>1 DEF check_maker_payment_spend_and_add_event
  <2>3. ASSUME NEW cmd, TakerCommandFromActivity(cmd)
        PROVE  tSecret' \/ TakerRemembers(spent)' => SecretKnown
    BY <1>e, <2>1, <2>2, <2>3 DEF TakerCommandFromActivity
  <2> QED
    BY <1>18, <2>1, <2>3 DEF TakerRestart
<1> QED
  BY <1>1, <1>2, <1>3, <1>4, <1>5, <1>6, <1>7, <1>8, <1>9, <1>10, <1>11, <1>12, <1>13, <1>14,
     <1>15, <1>16, <1>17, <1>18 DEF TakerNext, TakerHandles

\* A taker that is still at Start leaves the chains alone.
LEMMA TakerStartsQuietly ==
    ASSUME TypeOK, InvTakerStarted, TakerNext(mStartedAt), tCmd = "Start"
    PROVE  tx' = tx
<1> DEFINE peer == mStartedAt
<1> USE DEF TakerRuns
<1>1. ~(TakerSendTakerPayment \/ TakerSpendMakerPayment \/ TakerRefundPayment)
  BY DEF TakerSendTakerPayment, TakerSpendMakerPayment, TakerRefundPayment
<1>2. ~TakerRecoverFunds
  BY DEF TakerRecoverFunds, TakerNotRecoverable, InvTakerStarted
<1>3. CASE TakerStart \/ TakerSaveEvent \/ TakerCrash \/ TakerRestart
  BY <1>3 DEF TakerStart, TakerSaveEvent, save_my_taker_swap_event, TakerCrash, TakerRestart, ledgerVars
<1>4. CASE TakerNegotiateBegin \/ TakerNegotiateReply(peer) \/ TakerNegotiate
           \/ TakerSendTakerFee \/ TakerWaitForMakerPaymentSend \/ TakerWaitForMakerPayment
           \/ TakerValidateMakerPayment
  BY <1>4 DEF TakerNegotiateBegin, TakerNegotiateReply, TakerNegotiate, TakerSendTakerFee,
              TakerWaitForMakerPaymentSend, TakerWaitForMakerPayment, TakerValidateMakerPayment
<1>5. CASE TakerTellWatchers \/ TakerWaitForSpendSend \/ TakerWaitForTakerPaymentSpend
           \/ TakerConfirmMakerPaymentSpend \/ TakerPrepareRefund \/ TakerFinalizeRefund \/ TakerFinish
  BY <1>5 DEF TakerTellWatchers, TakerWaitForSpendSend, TakerWaitForTakerPaymentSpend,
              TakerConfirmMakerPaymentSpend, TakerPrepareRefund, TakerFinalizeRefund, TakerFinish
<1> QED
  BY <1>1, <1>2, <1>3, <1>4, <1>5 DEF TakerNext, TakerHandles

-----------------------------------------------------------------------------
(* MakerNeverLoses.                                                        *)

\* The predicates on the chains, spelled out.
LEMMA Views ==
    /\ SpendSeen("TakerPayment") <=> tx["TakerPaymentSpend"] # "none"
    /\ RefundSeen("TakerPayment") <=> tx["TakerPaymentRefund"] # "none"
    /\ SpendSeen("MakerPayment") <=> tx["MakerPaymentSpend"] # "none"
    /\ Unspent("TakerPayment") => ~Mined("TakerPaymentSpend") /\ ~Mined("TakerPaymentRefund")
    /\ \A t : Seen(t) <=> tx[t] # "none"
    /\ \A t : Mined(t) <=> tx[t] = "mined"
BY DEF SpendSeen, RefundSeen, Unspent, Seen, Mined, SpendOf, RefundOf

\* The same after a step.
LEMMA ViewsNext ==
    /\ SpendSeen("TakerPayment")' <=> tx'["TakerPaymentSpend"] # "none"
    /\ SpendSeen("MakerPayment")' <=> tx'["MakerPaymentSpend"] # "none"
    /\ \A t : Seen(t)' <=> tx'[t] # "none"
    /\ \A t : Mined(t)' <=> tx'[t] = "mined"
BY DEF SpendSeen, Seen, Mined, SpendOf

\* The six transactions of a swap.
LEMMA TxNames ==
    Txs = {"MakerPayment", "TakerPayment", "MakerPaymentSpend", "MakerPaymentRefund",
           "TakerPaymentSpend", "TakerPaymentRefund"}
BY DEF Txs, Payments

\* No step of the maker breaks the inductive invariant: spend_taker_payment runs before the
\* taker's lock time because negotiation has bounded the difference of the start times.
LEMMA SafeMaker ==
    ASSUME IInv, MakerStep
    PROVE  InvNegotiated' /\ InvTakerStarted' /\ InvConfirmed' /\ InvSecret' /\ InvTiming'
<1> USE Views, ViewsNext, TxNames
<1>0. /\ TypeOK /\ LedgerTypeOK /\ MakerTypeOK /\ SafeParameters /\ InvNegotiated /\ InvTakerStarted
      /\ InvConfirmed /\ InvSecret /\ InvTiming
  BY DEF IInv, TypeOK
<1>1. MakerNext(tStartedAt) /\ UNCHANGED <<takerVars, wState>>
  BY DEF MakerStep
<1>2. /\ now' = now
      /\ \A m \in {"NegotiationReply", "TakerSwapWatcherMsg"} : m \in net' <=> m \in net
      /\ \/ OnlyAdds("MakerPayment") \/ OnlyAdds("MakerPaymentRefund")
         \/ /\ OnlyAdds("TakerPaymentSpend")
            /\ \/ tx' = tx
               \/ /\ mCmd = "SpendTakerPayment" /\ Unspent("TakerPayment")
                  /\ now <= taker_payment_spend_deadline(mStartedAt)
               \/ SpendSeen("MakerPayment") /\ ~SpendSeen("TakerPayment")
  BY <1>0, <1>1, MakerLedger
<1>3. InvNegotiated'
  BY <1>0, MakerNegotiated
<1>4. InvTakerStarted'
  BY <1>0, <1>1, <1>2 DEF InvTakerStarted, takerVars
<1>5. \/ OnlyAdds("MakerPayment") \/ OnlyAdds("MakerPaymentRefund")
      \/ /\ OnlyAdds("TakerPaymentSpend")
         /\ \/ tx' = tx
            \/ /\ mCmd = "SpendTakerPayment" /\ Unspent("TakerPayment")
               /\ now <= taker_payment_spend_deadline(mStartedAt)
  BY <1>0, <1>2 DEF InvSecret
<1>6. InvConfirmed'
  <2>1. Mined("TakerPayment")' <=> Mined("TakerPayment")
    BY <1>0, <1>5 DEF OnlyAdds
  <2>2. /\ mCmd' = "SpendTakerPayment" => Mined("TakerPayment")
        /\ MakerRemembers("TakerPaymentValidatedAndConfirmed")' => Mined("TakerPayment")
    BY <1>0, <1>1, MakerConfirmed
  <2>3. SpendSeen("TakerPayment")' => SpendSeen("TakerPayment") \/ mCmd = "SpendTakerPayment"
    BY <1>5 DEF OnlyAdds
  <2>4. SecretAfterConfirmation'
    BY <1>0, <2>1, <2>3 DEF InvConfirmed, SecretAfterConfirmation
  <2> QED
    BY <2>1, <2>2, <2>4 DEF InvConfirmed
<1>7. InvSecret'
  <2>1. SpendSeen("MakerPayment")' <=> SpendSeen("MakerPayment")
    BY <1>5 DEF OnlyAdds
  <2>2. SpendSeen("TakerPayment") => SpendSeen("TakerPayment")'
    BY <1>5 DEF OnlyAdds
  <2>3. TakerRemembers("TakerPaymentSpent")' <=> TakerRemembers("TakerPaymentSpent")
    BY <1>1 DEF takerVars, TakerRemembers
  <2> QED
    BY <1>0, <1>1, <2>1, <2>2, <2>3 DEF InvSecret, takerVars
<1>8. InvTiming'
  <2>1. /\ tx'["TakerPaymentRefund"] = tx["TakerPaymentRefund"]
        /\ Mined("TakerPaymentSpend")' <=> Mined("TakerPaymentSpend")
    BY <1>5 DEF OnlyAdds
  <2>2. ASSUME tx'["TakerPaymentSpend"] = "mempool"
        PROVE  tCmd # "Start" /\ now <= taker_payment_lock(tStartedAt)
    <3>1. CASE tx["TakerPaymentSpend"] = "mempool"
      BY <1>0, <3>1 DEF InvTiming
    <3>2. CASE tx["TakerPaymentSpend"] # "mempool"
      <4>1. /\ mCmd = "SpendTakerPayment"
            /\ now <= taker_payment_spend_deadline(mStartedAt)
        BY <1>5, <2>2, <3>2 DEF OnlyAdds
      <4>2. StartsAgree
        BY <1>0, <4>1 DEF InvNegotiated, PostCommands, MakerSwapCommand
      <4>3. mStartedAt <= tStartedAt + MaxStartedAtDiff
        BY <1>0, <4>2, TimesAssumption DEF StartsAgree, AbsDiff, TypeOK
      <4>4. /\ now <= mStartedAt + (LockTime * 4) \div 5
            /\ MaxStartedAtDiff + (LockTime * 4) \div 5 <= LockTime
        BY <1>0, <4>1 DEF SafeParameters, taker_payment_spend_deadline
      <4>5. /\ (LockTime * 4) \div 5 \in Int /\ LockTime \in Nat /\ MaxStartedAtDiff \in Nat
            /\ mStartedAt \in Nat /\ tStartedAt \in Nat /\ now \in Nat
        BY <1>0, TimesAssumption DEF TypeOK
      <4>6. now <= tStartedAt + LockTime
        BY <4>3, <4>4, <4>5
      <4> QED
        BY <4>2, <4>6 DEF StartsAgree, taker_payment_lock
    <3> QED
      BY <3>1, <3>2
  <2> QED
    BY <1>0, <1>1, <1>2, <2>1, <2>2 DEF InvTiming, takerVars, taker_payment_lock
<1> QED
  BY <1>3, <1>4, <1>6, <1>7, <1>8

\* No step of the taker breaks it: the secret comes from the chain, and a refund comes after
\* the lock time.
LEMMA SafeTaker ==
    ASSUME IInv, TakerStep
    PROVE  InvNegotiated' /\ InvTakerStarted' /\ InvConfirmed' /\ InvSecret' /\ InvTiming'
<1> USE Views, ViewsNext, TxNames
<1>0. /\ TypeOK /\ LedgerTypeOK /\ TakerTypeOK /\ SafeParameters /\ InvNegotiated /\ InvTakerStarted
      /\ InvConfirmed /\ InvSecret /\ InvTiming
  BY DEF IInv, TypeOK
<1>1. TakerNext(mStartedAt) /\ UNCHANGED <<makerVars, wState>>
  BY DEF TakerStep
<1>2. /\ now' = now
      /\ \/ OnlyAdds("TakerPayment")
         \/ OnlyAdds("MakerPaymentSpend") /\ (tx' = tx \/ SecretKnown)
         \/ /\ OnlyAdds("TakerPaymentRefund")
            /\ \/ tx' = tx
               \/ Unspent("TakerPayment") /\ now > taker_payment_lock(tStartedAt)
  BY <1>0, <1>1, TakerLedger
<1>3. tCmd' # "Start" /\ (tCmd # "Start" => tStartedAt' = tStartedAt)
  BY <1>0, <1>1, TakerLeavesStart, TakerStays
<1>4. SecretKnown => SpendSeen("TakerPayment")
  BY <1>0 DEF SecretKnown, InvSecret
<1>5. /\ tx'["TakerPaymentSpend"] = tx["TakerPaymentSpend"]
      /\ Mined("TakerPayment") => Mined("TakerPayment")'
  BY <1>2 DEF OnlyAdds
<1>6. InvNegotiated'
  <2>1. StartsAgree => StartsAgree'
    BY <1>1, <1>3 DEF StartsAgree, makerVars
  <2>2. \A e : MakerRemembers(e)' <=> MakerRemembers(e)
    BY <1>1 DEF makerVars, MakerRemembers
  <2>3. UNCHANGED <<mCmd, mLast, mSaved>>
    BY <1>1 DEF makerVars
  <2> QED
    BY <1>0, <2>1, <2>2, <2>3 DEF InvNegotiated, PostEvents, PostCommands
<1>7. InvTakerStarted'
  BY <1>3 DEF InvTakerStarted
<1>8. InvConfirmed'
  <2>1. \A e : MakerRemembers(e)' <=> MakerRemembers(e)
    BY <1>1 DEF makerVars, MakerRemembers
  <2> QED
    BY <1>0, <1>1, <1>5, <2>1 DEF InvConfirmed, SecretAfterConfirmation, makerVars
<1>9. InvSecret'
  <2>1. tSecret' \/ TakerRemembers("TakerPaymentSpent")' => SpendSeen("TakerPayment")
    BY <1>0, <1>1, <1>4, TakerLearns
  <2>2. SpendSeen("MakerPayment")' => SpendSeen("MakerPayment") \/ SecretKnown
    BY <1>2 DEF OnlyAdds
  <2>3. SpendSeen("TakerPayment")' <=> SpendSeen("TakerPayment")
    BY <1>5
  <2> QED
    BY <1>0, <1>1, <1>4, <2>1, <2>2, <2>3 DEF InvSecret
<1>10. InvTiming'
  <2>1. CASE tCmd = "Start"
    <3>1. tx' = tx
      BY <1>0, <1>1, <2>1, TakerStartsQuietly
    <3>2. tx["TakerPaymentSpend"] # "mempool" /\ ~Seen("TakerPaymentRefund")
      BY <1>0, <2>1 DEF InvTiming
    <3> QED
      BY <3>1, <3>2 DEF InvTiming
  <2>2. CASE tCmd # "Start"
    <3>1. Seen("TakerPaymentRefund")'
              => \/ Seen("TakerPaymentRefund")
                 \/ Unspent("TakerPayment") /\ now > taker_payment_lock(tStartedAt)
      BY <1>2 DEF OnlyAdds
    <3>2. now' = now /\ tStartedAt' = tStartedAt /\ tCmd' # "Start"
      BY <1>2, <1>3, <2>2
    <3> QED
      BY <1>0, <1>5, <2>2, <3>1, <3>2 DEF InvTiming, taker_payment_lock
  <2> QED
    BY <2>1, <2>2
<1> QED
  BY <1>6, <1>7, <1>8, <1>9, <1>10

\* No step of the watcher breaks it: its start time is the taker's.
LEMMA SafeWatcher ==
    ASSUME IInv, WatcherStep
    PROVE  InvNegotiated' /\ InvTakerStarted' /\ InvConfirmed' /\ InvSecret' /\ InvTiming'
<1> USE Views, ViewsNext, TxNames
<1>0. /\ TypeOK /\ LedgerTypeOK /\ WatcherTypeOK /\ SafeParameters /\ InvNegotiated
      /\ InvTakerStarted /\ InvConfirmed /\ InvSecret /\ InvTiming
  BY DEF IInv, TypeOK
<1>1. WatcherNext(tStartedAt) /\ UNCHANGED <<makerVars, takerVars>>
  BY DEF WatcherStep
<1>2. /\ now' = now /\ net' = net
      /\ \/ tx' = tx
         \/ OnlyAdds("MakerPaymentSpend") /\ wState = "SpendMakerPayment"
         \/ /\ OnlyAdds("TakerPaymentRefund") /\ wState = "RefundTakerPayment"
            /\ \/ tx' = tx
               \/ Unspent("TakerPayment") /\ now > taker_payment_lock(tStartedAt)
  BY <1>0, <1>1, WatcherLedger
<1>3. /\ UNCHANGED <<mCmd, mLast, mSaved, mQueue, mStartedAt>>
      /\ UNCHANGED <<tCmd, tSaved, tQueue, tSecret, tStartedAt>>
  BY <1>1 DEF makerVars, takerVars
<1>4. wState' # "idle" => wState # "idle" \/ "TakerSwapWatcherMsg" \in net
  BY <1>1 DEF WatcherNext, WatcherHandles, WatcherSpawn, Received, WatcherStop, WatcherValidateTakerFee,
              WatcherValidateTakerPayment, WatcherWaitForTakerPaymentSpend,
              WatcherWaitForMakerPaymentSpend, WatcherSpendMakerPayment,
              WatcherRefundTakerPayment, change_state
<1>5. wState' \in {"WaitForMakerPaymentSpend", "SpendMakerPayment"}
          => \/ wState \in {"WaitForMakerPaymentSpend", "SpendMakerPayment"}
             \/ SpendSeen("TakerPayment")
  BY <1>1 DEF WatcherNext, WatcherHandles, WatcherSpawn, WatcherStop, WatcherValidateTakerFee,
              WatcherValidateTakerPayment, WatcherWaitForTakerPaymentSpend,
              WatcherWaitForMakerPaymentSpend, WatcherSpendMakerPayment,
              WatcherRefundTakerPayment, change_state
<1>6. /\ tx'["TakerPaymentSpend"] = tx["TakerPaymentSpend"]
      /\ tx'["TakerPayment"] = tx["TakerPayment"]
  BY <1>2 DEF OnlyAdds
<1>7. \A e : (MakerRemembers(e)' <=> MakerRemembers(e)) /\ (TakerRemembers(e)' <=> TakerRemembers(e))
  BY <1>3 DEF MakerRemembers, TakerRemembers
<1>8. InvNegotiated'
  <2>1. StartsAgree => StartsAgree'
    BY <1>3 DEF StartsAgree
  <2> QED
    BY <1>0, <1>3, <1>7, <2>1 DEF InvNegotiated, PostEvents, PostCommands
<1>9. InvTakerStarted'
  BY <1>0, <1>2, <1>3, <1>4 DEF InvTakerStarted
<1>10. InvConfirmed'
  BY <1>0, <1>3, <1>6, <1>7 DEF InvConfirmed, SecretAfterConfirmation
<1>11. InvSecret'
  <2>1. SpendSeen("MakerPayment")' => SpendSeen("MakerPayment") \/ wState = "SpendMakerPayment"
    BY <1>2 DEF OnlyAdds
  <2> QED
    BY <1>0, <1>3, <1>5, <1>6, <1>7, <2>1 DEF InvSecret
<1>12. InvTiming'
  <2>1. Seen("TakerPaymentRefund")'
            => \/ Seen("TakerPaymentRefund")
               \/ /\ wState = "RefundTakerPayment"
                  /\ Unspent("TakerPayment") /\ now > taker_payment_lock(tStartedAt)
    BY <1>2 DEF OnlyAdds
  <2>2. wState = "RefundTakerPayment" => tCmd # "Start"
    BY <1>0 DEF InvTakerStarted
  <2> QED
    BY <1>0, <1>2, <1>3, <1>6, <2>1, <2>2 DEF InvTiming, taker_payment_lock
<1> QED
  BY <1>8, <1>9, <1>10, <1>11, <1>12

\* A block never has to choose between the spend and the refund of the taker's payment, and
\* the clock moves only when nothing is left to mine.
LEMMA SafeChain ==
    ASSUME IInv, MineStep \/ EvictStep \/ TickStep
    PROVE  InvNegotiated' /\ InvTakerStarted' /\ InvConfirmed' /\ InvSecret' /\ InvTiming'
<1> USE Views, ViewsNext, TxNames
<1>0. /\ TypeOK /\ LedgerTypeOK /\ SafeParameters /\ InvNegotiated
      /\ InvTakerStarted /\ InvConfirmed /\ InvSecret /\ InvTiming
  BY DEF IInv, TypeOK
<1>1. UNCHANGED <<makerVars, takerVars, wState, net>>
  BY DEF MineStep, EvictStep, TickStep, Mine, Evict, Tick
<1>2. /\ UNCHANGED <<mCmd, mLast, mSaved, mQueue, mStartedAt, wState, net>>
      /\ UNCHANGED <<tCmd, tSaved, tQueue, tSecret, tStartedAt>>
  BY <1>1 DEF makerVars, takerVars
<1>3. \A e : (MakerRemembers(e)' <=> MakerRemembers(e)) /\ (TakerRemembers(e)' <=> TakerRemembers(e))
  BY <1>2 DEF MakerRemembers, TakerRemembers
<1>4. InvNegotiated'
  <2>1. StartsAgree => StartsAgree'
    BY <1>2 DEF StartsAgree
  <2> QED
    BY <1>0, <1>2, <1>3, <2>1 DEF InvNegotiated, PostEvents, PostCommands
<1>5. InvTakerStarted'
  BY <1>0, <1>2 DEF InvTakerStarted
<1>6. ~EvictStep
  BY <1>0 DEF EvictStep, Evict, SafeParameters
<1>7. CASE TickStep
  <2>1. tx' = tx /\ now' = now + 1 /\ \A t \in Txs : tx[t] # "mempool"
    BY <1>0, <1>7 DEF TickStep, Tick, SafeParameters
  <2>2. tStartedAt \in Nat /\ LockTime \in Nat /\ now \in Nat
    BY <1>0, TimesAssumption DEF TypeOK
  <2>3. InvConfirmed' /\ InvSecret'
    BY <1>0, <1>2, <1>3, <2>1 DEF InvConfirmed, SecretAfterConfirmation, InvSecret
  <2>4. InvTiming'
    BY <1>0, <1>2, <2>1, <2>2 DEF InvTiming, taker_payment_lock
  <2> QED
    BY <1>4, <1>5, <2>3, <2>4
<1>8. CASE MineStep
  <2>1. PICK t \in Txs : Mine(t)
    BY <1>8 DEF MineStep
  <2>2. /\ tx[t] = "mempool" /\ now' = now
        /\ \A u \in Txs : tx'[u] = IF u = t THEN "mined"
                                   ELSE IF u \in Conflicts(t) THEN "none" ELSE tx[u]
    BY <2>1 DEF Mine
  <2>3. /\ tx'["TakerPayment"] \in {tx["TakerPayment"], "mined"}
        /\ tx'["MakerPaymentSpend"] # "none" => tx["MakerPaymentSpend"] # "none"
        /\ tx'["TakerPaymentRefund"] # "none" => tx["TakerPaymentRefund"] # "none"
        /\ tx'["TakerPaymentSpend"] # "none" => tx["TakerPaymentSpend"] # "none"
        /\ tx'["TakerPaymentSpend"] = "mempool" => tx["TakerPaymentSpend"] = "mempool"
    BY <2>2 DEF Conflicts
  <2>4. tx["TakerPaymentSpend"] # "none" => tx'["TakerPaymentSpend"] # "none"
    <3>1. CASE t = "TakerPaymentRefund"
      <4>1. tx["TakerPaymentSpend"] \in {"none", "mempool", "mined"}
        BY <1>0 DEF TxStates
      <4>2. now \in Nat /\ taker_payment_lock(tStartedAt) \in Nat
        BY <1>0, TimesAssumption DEF TypeOK, taker_payment_lock
      <4>3. tx["TakerPaymentSpend"] = "none"
        BY <1>0, <2>2, <3>1, <4>1, <4>2 DEF InvTiming
      <4> QED
        BY <4>3
    <3>2. CASE t # "TakerPaymentRefund"
      BY <2>2, <3>2 DEF Conflicts
    <3> QED
      BY <3>1, <3>2
  <2>5. tx'["TakerPaymentSpend"] = "mined"
            => tx["TakerPaymentSpend"] = "mined" \/ tx'["TakerPaymentRefund"] = "none"
    BY <2>2 DEF Conflicts
  <2>6. InvConfirmed'
    BY <1>0, <1>2, <1>3, <2>3 DEF InvConfirmed, SecretAfterConfirmation
  <2>7. InvSecret'
    BY <1>0, <1>2, <1>3, <2>3, <2>4 DEF InvSecret
  <2>8. InvTiming'
    BY <1>0, <1>2, <2>2, <2>3, <2>5 DEF InvTiming, taker_payment_lock
  <2> QED
    BY <1>4, <1>5, <2>6, <2>7, <2>8
<1> QED
  BY <1>6, <1>7, <1>8

\* The inductive invariant holds initially.
LEMMA SafeInitial == SafeParameters /\ Init => IInv
<1> SUFFICES ASSUME SafeParameters, Init PROVE IInv
  OBVIOUS
<1>0. TypeOK
  BY TypeInitial
<1>1. /\ tx = [t \in Txs |-> "none"] /\ net = {} /\ wState = "idle"
      /\ mCmd = "Start" /\ mQueue = <<>> /\ mSaved = {} /\ mLast = "None"
      /\ tCmd = "Start" /\ tQueue = <<>> /\ tSaved = {} /\ tSecret = FALSE
  BY DEF Init, LedgerInit, MakerInit, TakerInit, WatcherInit
<1>2. \A e : ~MakerRemembers(e) /\ ~TakerRemembers(e)
  BY <1>1 DEF MakerRemembers, TakerRemembers
<1>3. \A t \in Txs : ~Seen(t) /\ ~Mined(t)
  BY <1>1 DEF Seen, Mined
<1>4. InvNegotiated /\ InvTakerStarted
  BY <1>1, <1>2 DEF InvNegotiated, InvTakerStarted, PostCommands
<1>5. InvConfirmed /\ InvSecret /\ InvTiming
  BY <1>1, <1>2, <1>3, Views, TxNames DEF InvConfirmed, InvSecret, InvTiming, SecretAfterConfirmation
<1> QED
  BY <1>0, <1>4, <1>5 DEF IInv

\* Every step of the swap preserves the inductive invariant.
LEMMA SafeStep == IInv /\ [Next]_vars => IInv'
<1> SUFFICES ASSUME IInv, [Next]_vars PROVE IInv'
  OBVIOUS
<1>0. TypeOK' /\ SafeParameters'
  BY TypeStep DEF IInv, SafeParameters
<1>1. CASE MakerStep
  BY <1>0, <1>1, SafeMaker DEF IInv
<1>2. CASE TakerStep
  BY <1>0, <1>2, SafeTaker DEF IInv
<1>3. CASE WatcherStep
  BY <1>0, <1>3, SafeWatcher DEF IInv
<1>4. CASE MineStep \/ EvictStep \/ TickStep
  BY <1>0, <1>4, SafeChain DEF IInv
<1>5. CASE Terminating \/ UNCHANGED vars
  BY <1>0, <1>5 DEF Terminating, vars, ledgerVars, makerVars, takerVars, IInv, InvNegotiated,
     InvTakerStarted, InvConfirmed, InvSecret, InvTiming, MakerRemembers, TakerRemembers,
     StartsAgree, SecretAfterConfirmation, SpendSeen, Seen, Mined
<1> QED
  BY <1>1, <1>2, <1>3, <1>4, <1>5 DEF Next

\* The inductive invariant is strong enough.
LEMMA SafeEnough == IInv => MakerNeverLoses
<1> SUFFICES ASSUME IInv PROVE MakerNeverLoses
  OBVIOUS
<1> USE Views, TxNames
<1>1. tx["TakerPaymentSpend"] \in {"none", "mempool", "mined"}
  BY DEF IInv, TypeOK, TxStates
<1>2. now \in Nat /\ taker_payment_lock(tStartedAt) \in Nat
  BY TimesAssumption DEF IInv, TypeOK, taker_payment_lock
<1> QED
  BY <1>1, <1>2 DEF IInv, InvSecret, InvTiming, MakerNeverLoses

\* If blocks come faster than deadlines and the clocks of the parties differ by no more than
\* the margin between the maker's last moment to spend and the taker's first to refund, the
\* order of events that the deadlines of lp_swap.rs are for holds throughout the swap.
THEOREM SwapInvariant == SafeParameters /\ Spec => []IInv
BY SafeInitial, SafeStep, PTL DEF Spec

\* Under these conditions the maker never loses both coins: for all lock times, timeouts and
\* start times, any number of crashes of either party, a watcher that may stop at any time,
\* and failing nodes.
THEOREM MakerSafe == SafeParameters /\ Spec => []MakerNeverLoses
BY SwapInvariant, SafeEnough, PTL

-----------------------------------------------------------------------------
(* MakerRestoreAgrees.                                                     *)

\* Every handler of the maker returns the command that get_command gives for its last event.
LEMMA RestoreStep == TypeOK /\ RestoreInv /\ [Next]_vars => RestoreInv'
<1> SUFFICES ASSUME TypeOK, RestoreInv, [Next]_vars PROVE RestoreInv'
  OBVIOUS
<1>0. MakerTypeOK
  BY DEF TypeOK
<1>a. ASSUME mUp, NEW next, NEW e, next = MakerGetCommand(e), MakerReturns(next, <<e>>)
      PROVE  RestoreInv'
  <2>1. mCmd' = next /\ mQueue' = <<e>> /\ mUp' = mUp
    BY <1>a DEF MakerReturns
  <2>2. mQueue' # <<>> /\ mQueue'[Len(mQueue')] = e
    BY <2>1
  <2> QED
    BY <1>a, <2>1, <2>2 DEF RestoreInv
<1>b. ASSUME mUp, NEW next, NEW d, NEW e, next = MakerGetCommand(e), MakerReturns(next, <<d, e>>)
      PROVE  RestoreInv'
  <2>1. mCmd' = next /\ mQueue' = <<d, e>> /\ mUp' = mUp
    BY <1>b DEF MakerReturns
  <2>2. mQueue' # <<>> /\ mQueue'[Len(mQueue')] = e
    BY <2>1
  <2> QED
    BY <1>b, <2>1, <2>2 DEF RestoreInv
<1>c. ASSUME mUp, NEW d, MakerRefundBecause(d)
      PROVE  RestoreInv'
  BY <1>b, <1>c DEF MakerRefundBecause, MakerGetCommand
<1>d. ASSUME UNCHANGED <<mUp, mCmd, mQueue, mSaved, mLast>>
      PROVE  RestoreInv'
  BY <1>d DEF RestoreInv
<1>1. CASE MakerStep
  <2> DEFINE peer == tStartedAt
  <2>0. MakerNext(tStartedAt)
    BY <1>1 DEF MakerStep
  <2> USE DEF MakerRuns
  <2>1. CASE MakerStart
    BY <2>1, <1>a DEF MakerStart, MakerGetCommand
  <2>2. CASE MakerNegotiateSend \/ MakerWaitTakerFeeSend \/ MakerRecoverFunds
    BY <2>2, <1>d DEF MakerNegotiateSend, MakerWaitTakerFeeSend, MakerRecoverFunds, MakerWaits,
                      makerVars
  <2>3. CASE MakerNegotiate(peer)
    BY <2>3, <1>a DEF MakerNegotiate, MakerGetCommand
  <2>4. CASE MakerWaitTakerFee
    BY <2>4, <1>a, <1>b DEF MakerWaitTakerFee, MakerGetCommand
  <2>5. CASE MakerPaymentSend
    BY <2>5, <1>a DEF MakerPaymentSend, MakerGetCommand
  <2>6. CASE MakerWaitForTakerPaymentSend \/ MakerWaitOwnConfirmation
    BY <2>6, <1>c, <1>d DEF MakerWaitForTakerPaymentSend, MakerWaitOwnConfirmation, MakerWaits
  <2>7. CASE MakerWaitForTakerPayment
    BY <2>7, <1>b, <1>c DEF MakerWaitForTakerPayment, MakerGetCommand
  <2>8. CASE MakerValidateTakerPayment
    BY <2>8, <1>a, <1>c DEF MakerValidateTakerPayment, MakerGetCommand
  <2>9. CASE MakerSpendTakerPayment
    BY <2>9, <1>b, <1>c DEF MakerSpendTakerPayment, MakerGetCommand
  <2>10. CASE MakerConfirmTakerPaymentSpend
    BY <2>10, <1>a, <1>c DEF MakerConfirmTakerPaymentSpend, MakerGetCommand
  <2>11. CASE MakerPrepareRefund \/ MakerRefundPayment \/ MakerFinalizeRefund \/ MakerFinish
    BY <2>11, <1>a DEF MakerPrepareRefund, MakerRefundPayment, MakerFinalizeRefund, MakerFinish,
                       MakerGetCommand
  <2>12. CASE MakerSaveEvent
    <3>1. /\ mQueue \in Seq(MakerSwapEvent) /\ mQueue # <<>> /\ mQueue' = Tail(mQueue)
          /\ mLast' = mQueue[1] /\ mCmd' = mCmd /\ mUp' = mUp /\ mUp
      BY <1>0, <2>12 DEF MakerSaveEvent, save_my_maker_swap_event
    <3>2. mCmd = MakerGetCommand(mQueue[Len(mQueue)])
      BY <3>1 DEF RestoreInv
    <3>3. CASE Len(mQueue) = 1
      <4>1. mQueue' = <<>>
        BY <3>1, <3>3
      <4> QED
        BY <3>1, <3>2, <3>3, <4>1 DEF RestoreInv
    <3>4. CASE Len(mQueue) # 1
      <4>1. /\ Len(mQueue) \in Nat \ {0, 1} /\ Len(mQueue') = Len(mQueue) - 1
            /\ \A i \in 1..Len(mQueue') : mQueue'[i] = mQueue[i + 1]
        BY <3>1, <3>4
      <4>2. mQueue' # <<>> /\ mQueue'[Len(mQueue')] = mQueue[Len(mQueue)]
        BY <4>1
      <4> QED
        BY <3>1, <3>2, <4>2 DEF RestoreInv
    <3> QED
      BY <3>3, <3>4
  <2>13. CASE MakerCrash
    BY <2>13 DEF MakerCrash, RestoreInv
  <2>14. CASE MakerRestart
    BY <2>14 DEF MakerRestart, swap_kick_starts, RestoreInv
  <2> QED
    BY <2>0, <2>1, <2>2, <2>3, <2>4, <2>5, <2>6, <2>7, <2>8, <2>9, <2>10, <2>11, <2>12, <2>13,
       <2>14 DEF MakerNext, MakerHandles
<1>2. CASE TakerStep \/ WatcherStep \/ MineStep \/ EvictStep \/ TickStep
  BY <1>2, <1>d DEF TakerStep, WatcherStep, MineStep, EvictStep, TickStep, makerVars
<1>3. CASE Terminating \/ UNCHANGED vars
  BY <1>3, <1>d DEF Terminating, vars, makerVars
<1> QED
  BY <1>1, <1>2, <1>3 DEF Next

\* A restart never changes what the maker does next: for all parameters and any number of
\* crashes, the command that a running maker is at is the one get_command would restore.
THEOREM RestoreAgrees == Spec => []MakerRestoreAgrees
<1>1. Init => RestoreInv
  BY DEF Init, MakerInit, RestoreInv
<1>2. RestoreInv => MakerRestoreAgrees
  BY DEF RestoreInv, MakerRestoreAgrees
<1> QED
  BY <1>1, <1>2, TypeCorrect, RestoreStep, PTL DEF Spec

=============================================================================
