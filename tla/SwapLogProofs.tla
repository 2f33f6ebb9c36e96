---------------------------- MODULE SwapLogProofs ---------------------------
(***************************************************************************)
(* The order of the saved events of a legacy swap: that the data a handler *)
(* unwraps is there when the handler runs, whatever crash or restart it    *)
(* follows.                                                                *)
(*                                                                         *)
(* The handlers are first reduced to a table: the command a handler runs,  *)
(* the command it returns, the events it returns and what it saw on chain. *)
(* The invariants are then proved from the table.                          *)
(***************************************************************************)
EXTENDS AtomicSwapProofs

USE DEF LedgerTypeOK, MakerTypeOK, TakerTypeOK, WatcherTypeOK

\* e is one of the events of the list q.
Listed(q, e) == \E i \in 1..Len(q) : q[i] = e

-----------------------------------------------------------------------------
(* The maker's handlers.                                                   *)

\* The events after which maker_swap.rs prepares the refund, and the commands they come from.
MakerGivesUp(from, e) ==
    \/ from = "WaitForTakerPayment"
       /\ e \in {"MakerPaymentDataSendFailed", "MakerPaymentWaitConfirmFailed",
                 "TakerPaymentValidateFailed"}
    \/ from = "ValidateTakerPayment"
       /\ e \in {"TakerPaymentWaitConfirmFailed", "TakerPaymentValidateFailed"}
    \/ from = "SpendTakerPayment" /\ e = "TakerPaymentSpendFailed"
    \/ from = "ConfirmTakerPaymentSpend" /\ e = "TakerPaymentSpendConfirmFailed"

\* A handler that ran command from returned command next and the events E, first of all first.
MakerRow(from, next, first, E) ==
    \/ from = "Start" /\ next = "Negotiate" /\ first = "Started" /\ E = {first}
    \/ from = "Start" /\ next = "Finish" /\ first = "StartFailed" /\ E = {first}
    \/ from = "Negotiate" /\ next = "WaitForTakerFee" /\ first = "Negotiated" /\ E = {first}
    \/ from = "Negotiate" /\ next = "Finish" /\ first = "NegotiateFailed" /\ E = {first}
    \/ from = "WaitForTakerFee" /\ next = "SendPayment"
       /\ first = "MakerPaymentInstructionsReceived" /\ E = {first, "TakerFeeValidated"}
    \/ from = "WaitForTakerFee" /\ next = "Finish" /\ first = "TakerFeeValidateFailed" /\ E = {first}
    \/ from = "SendPayment" /\ next = "WaitForTakerPayment" /\ first = "MakerPaymentSent"
       /\ E = {first}
    \/ from \in {"SendPayment", "ValidateTakerPayment"} /\ next = "Finish"
       /\ first = "MakerPaymentTransactionFailed" /\ E = {first}
    \/ from = "WaitForTakerPayment" /\ next = "ValidateTakerPayment"
       /\ first = "TakerPaymentReceived" /\ E = {first, "TakerPaymentWaitConfirmStarted"}
    \/ from = "ValidateTakerPayment" /\ next = "SpendTakerPayment"
       /\ first = "TakerPaymentValidatedAndConfirmed" /\ E = {first} /\ Mined("TakerPayment")
    \/ from = "SpendTakerPayment" /\ next = "ConfirmTakerPaymentSpend"
       /\ first = "TakerPaymentSpent" /\ E = {first, "TakerPaymentSpendConfirmStarted"}
    \/ from = "ConfirmTakerPaymentSpend" /\ next = "Finish"
       /\ first = "TakerPaymentSpendConfirmed" /\ E = {first} /\ Mined("TakerPaymentSpend")
    \/ MakerGivesUp(from, first) /\ next = "PrepareForMakerPaymentRefund"
       /\ E = {first, "MakerPaymentWaitRefundStarted"}
    \/ from = "PrepareForMakerPaymentRefund" /\ next = "RefundMakerPayment"
       /\ first = "MakerPaymentRefundStarted" /\ E = {first}
    \/ from = "RefundMakerPayment" /\ next = "FinalizeMakerPaymentRefund"
       /\ first = "MakerPaymentRefunded" /\ E = {first} /\ Seen("MakerPaymentRefund")'
    \/ from = "RefundMakerPayment" /\ next = "Finish" /\ first = "MakerPaymentRefundFailed"
       /\ E = {first}
    \/ from = "FinalizeMakerPaymentRefund" /\ next = "Finish"
       /\ first = "MakerPaymentRefundFinished" /\ E = {first}
    \/ from = "Finish" /\ next = "None" /\ first = "Finished" /\ E = {first}

\* What every handler does to the maker's variables, given its row.
MakerHandled(from, next, first, E) ==
    /\ mUp /\ mQueue = <<>> /\ mCmd = from
    /\ mCmd' = next /\ UNCHANGED <<mUp, mSaved, mLast>>
    /\ mQueue' # <<>> /\ mQueue'[1] = first /\ first \in E
    /\ \A e : Listed(mQueue', e) <=> e \in E
    /\ \A i \in 1..Len(mQueue') : i # 1 => mQueue'[i] \in E \ {first}
    /\ E = {first} => mQueue' = <<first>>

MakerReturned ==
    \E from, next, first, E : MakerRow(from, next, first, E) /\ MakerHandled(from, next, first, E)

\* A step of the maker waits or recovers, returns from a handler, saves, dies or restarts.
LEMMA MakerSteps ==
    ASSUME LedgerTypeOK, MakerTypeOK, MakerNext(tStartedAt)
    PROVE  \/ UNCHANGED <<mUp, mCmd, mQueue, mSaved, mLast>>
           \/ MakerSaveEvent \/ MakerCrash \/ MakerRestart
           \/ MakerReturned
<1> DEFINE Same == UNCHANGED <<mUp, mCmd, mQueue, mSaved, mLast>>
           peer == tStartedAt
<1> USE DEF MakerRuns
<1>a. ASSUME NEW from, NEW next, NEW a, MakerRuns(from), MakerReturns(next, <<a>>),
             MakerRow(from, next, a, {a})
      PROVE  MakerReturned
  <2>1. /\ mUp /\ mQueue = <<>> /\ mCmd = from /\ mCmd' = next
        /\ UNCHANGED <<mUp, mSaved, mLast>> /\ mQueue' = <<a>>
    BY <1>a DEF MakerReturns
  <2>2. \A e : Listed(mQueue', e) <=> e \in {a}
    BY <2>1, ListMembers DEF Listed
  <2>3. mQueue' # <<>> /\ mQueue'[1] = a /\ \A i \in 1..Len(mQueue') : i = 1
    BY <2>1
  <2>4. MakerHandled(from, next, a, {a})
    BY <2>1, <2>2, <2>3 DEF MakerHandled
  <2> QED
    BY <1>a, <2>4, Zenon DEF MakerReturned
<1>b. ASSUME NEW from, NEW next, NEW a, NEW b, a # b, MakerRuns(from), MakerReturns(next, <<a, b>>),
             MakerRow(from, next, a, {a, b})
      PROVE  MakerReturned
  <2>1. /\ mUp /\ mQueue = <<>> /\ mCmd = from /\ mCmd' = next
        /\ UNCHANGED <<mUp, mSaved, mLast>> /\ mQueue' = <<a, b>>
    BY <1>b DEF MakerReturns
  <2>2. \A e : Listed(mQueue', e) <=> e \in {a, b}
    BY <2>1, ListMembers DEF Listed
  <2>3. mQueue' # <<>> /\ mQueue'[1] = a /\ \A i \in 1..Len(mQueue') : i # 1 => mQueue'[i] = b
    BY <2>1
  <2>4. MakerHandled(from, next, a, {a, b})
    BY <1>b, <2>1, <2>2, <2>3 DEF MakerHandled
  <2> QED
    BY <1>b, <2>4, Zenon DEF MakerReturned
<1>c. ASSUME NEW from, NEW a, MakerRuns(from), MakerRefundBecause(a), MakerGivesUp(from, a)
      PROVE  MakerReturned
  <2>1. MakerRow(from, "PrepareForMakerPaymentRefund", a, {a, "MakerPaymentWaitRefundStarted"})
    BY <1>c DEF MakerRow
  <2>2. a # "MakerPaymentWaitRefundStarted"
    BY <1>c DEF MakerGivesUp
  <2> QED
    BY <1>b, <1>c, <2>1, <2>2 DEF MakerRefundBecause
<1>1. CASE MakerStart
  BY <1>1, <1>a DEF MakerStart, MakerRow
<1>2. CASE MakerNegotiateSend \/ MakerWaitTakerFeeSend \/ MakerRecoverFunds
  BY <1>2 DEF MakerNegotiateSend, MakerWaitTakerFeeSend, MakerRecoverFunds, MakerWaits, makerVars
<1>3. CASE MakerNegotiate(peer)
  BY <1>3, <1>a DEF MakerNegotiate, MakerRow
<1>4. CASE MakerWaitTakerFee
  BY <1>4, <1>a, <1>b DEF MakerWaitTakerFee, MakerRow
<1>5. CASE MakerPaymentSend
  BY <1>5, <1>a DEF MakerPaymentSend, MakerRow
<1>6. CASE MakerWaitForTakerPaymentSend \/ MakerWaitOwnConfirmation
  BY <1>6, <1>c DEF MakerWaitForTakerPaymentSend, MakerWaitOwnConfirmation, MakerWaits,
                    MakerGivesUp
<1>7. CASE MakerWaitForTakerPayment
  BY <1>7, <1>b, <1>c DEF MakerWaitForTakerPayment, MakerRow, MakerGivesUp
<1>8. CASE MakerValidateTakerPayment
  BY <1>8, <1>a, <1>c DEF MakerValidateTakerPayment, MakerRow, MakerGivesUp, wait_for_confirmations
<1>9. CASE MakerSpendTakerPayment
  BY <1>9, <1>b, <1>c DEF MakerSpendTakerPayment, MakerRow, MakerGivesUp
<1>10. CASE MakerConfirmTakerPaymentSpend
  BY <1>10, <1>a, <1>c DEF MakerConfirmTakerPaymentSpend, MakerRow, MakerGivesUp,
                           wait_for_confirmations
<1>11. CASE MakerPrepareRefund \/ MakerFinalizeRefund \/ MakerFinish
  BY <1>11, <1>a DEF MakerPrepareRefund, MakerFinalizeRefund, MakerFinish, MakerRow
<1>12. CASE MakerRefundPayment
  <2>1. RefundOk("MakerPayment") => Seen("MakerPaymentRefund")'
    BY Payment2, TxNames DEF RefundOk, Put, Seen
  <2> QED
    BY <1>12, <1>a, <2>1 DEF MakerRefundPayment, MakerRow
<1> QED
  BY <1>1, <1>2, <1>3, <1>4, <1>5, <1>6, <1>7, <1>8, <1>9, <1>10, <1>11, <1>12
     DEF MakerNext, MakerHandles

-----------------------------------------------------------------------------
(* The maker's log.                                                        *)

\* The events that must have been applied before command cmd is run.
MakerNeeds(cmd) ==
    (IF cmd \in {"SendPayment", "WaitForTakerPayment", "ValidateTakerPayment",
                 "SpendTakerPayment", "ConfirmTakerPaymentSpend",
                 "PrepareForMakerPaymentRefund", "RefundMakerPayment"}
     THEN {"TakerFeeValidated"} ELSE {}) \cup
    (IF cmd \in {"WaitForTakerPayment", "ValidateTakerPayment", "SpendTakerPayment",
                 "ConfirmTakerPaymentSpend", "PrepareForMakerPaymentRefund",
                 "RefundMakerPayment"}
     THEN {"MakerPaymentSent"} ELSE {}) \cup
    (IF cmd \in {"ValidateTakerPayment", "SpendTakerPayment", "ConfirmTakerPaymentSpend"}
     THEN {"TakerPaymentReceived"} ELSE {}) \cup
    (IF cmd = "ConfirmTakerPaymentSpend" THEN {"TakerPaymentSpent"} ELSE {})

\* The commands and events before the maker pays, and the events with which it gives up
\* without having paid.
MakerPre       == {"Start", "Negotiate", "WaitForTakerFee"}
MakerPreEvents == {"Started", "Negotiated", "MakerPaymentInstructionsReceived"}
MakerFailures  == {"StartFailed", "NegotiateFailed", "TakerFeeValidateFailed"}

\* Each event is saved after those its command needs.
MakerDataInv ==
    /\ \A n \in MakerNeeds(mCmd) : MakerRemembers(n)
    /\ \A e \in mSaved : MakerNeeds(MakerGetCommand(e)) \subseteq mSaved
    /\ \A e \in MakerSwapEvent : Listed(mQueue, e)
           => MakerNeeds(MakerGetCommand(e)) \subseteq mSaved \cup {mQueue[1], e}

MakerLastInv ==
    /\ mLast # "None" => mLast \in mSaved
    /\ mSaved # {} => mLast # "None"
    /\ ~mUp => mQueue = <<>>

\* A maker that gave up before it paid does not pay, and one that may pay has not given up.
MakerGateInv ==
    /\ (\E f \in MakerFailures : MakerRemembers(f)) => mCmd \in {"Finish", "None"}
    /\ (\E f \in MakerFailures : f \in mSaved)
           => /\ mLast \in MakerFailures \cup {"Finished"}
              /\ \A e \in MakerSwapEvent :
                     Listed(mQueue, e) => e \in MakerFailures \cup {"Finished"}
    /\ MakerRemembers("TakerFeeValidated")
           => mCmd \notin MakerPre /\ \A f \in MakerFailures : ~MakerRemembers(f)
    /\ "TakerFeeValidated" \in mSaved
           => /\ mLast \notin MakerPreEvents
              /\ \A e \in MakerPreEvents : ~Listed(mQueue, e)
    /\ \A i \in 1..Len(mQueue) : mQueue[i] \in MakerPreEvents => i = 1
    /\ \A e \in MakerSwapEvent : Listed(mQueue, e) /\ e \in MakerFailures => mQueue = <<e>>

MakerLogInv == MakerDataInv /\ MakerLastInv /\ MakerGateInv

\* Taking the first event off a list.
LEMMA ListTail ==
    ASSUME NEW S, NEW q \in Seq(S), q # <<>>
    PROVE  /\ Head(q) = q[1] /\ q[1] \in S /\ Listed(q, q[1])
           /\ \A e : Listed(q, e) <=> e = q[1] \/ Listed(Tail(q), e)
<1>1. /\ Len(q) \in Nat \ {0} /\ Len(Tail(q)) = Len(q) - 1
      /\ \A i \in 1..Len(Tail(q)) : Tail(q)[i] = q[i + 1]
      /\ Head(q) = q[1] /\ q[1] \in S
  OBVIOUS
<1>2. Listed(q, q[1])
  BY <1>1 DEF Listed
<1>3. ASSUME NEW e, Listed(Tail(q), e) PROVE Listed(q, e)
  <2>1. PICK i \in 1..Len(Tail(q)) : Tail(q)[i] = e
    BY <1>3 DEF Listed
  <2>2. i + 1 \in 1..Len(q) /\ q[i + 1] = e
    BY <1>1, <2>1
  <2> QED
    BY <2>2 DEF Listed
<1>4. ASSUME NEW e, Listed(q, e), e # q[1] PROVE Listed(Tail(q), e)
  <2>1. PICK i \in 1..Len(q) : q[i] = e
    BY <1>4 DEF Listed
  <2>2. i - 1 \in 1..Len(Tail(q)) /\ Tail(q)[i - 1] = e
    BY <1>1, <1>4, <2>1
  <2> QED
    BY <2>2 DEF Listed
<1> QED
  BY <1>1, <1>2, <1>3, <1>4

\* The members of a list are of the list's type, and the empty list has none.
LEMMA ListTypes ==
    /\ \A S : \A q \in Seq(S) : \A e : Listed(q, e) => e \in S
    /\ \A e : ~Listed(<<>>, e)
BY DEF Listed

\* What the rows of the maker's table have in common.
LEMMA MakerRowFacts ==
    ASSUME NEW from, NEW next, NEW first, NEW E, MakerRow(from, next, first, E)
    PROVE  /\ MakerNeeds(next) \subseteq MakerNeeds(from) \cup E
           /\ \A e \in E : MakerNeeds(MakerGetCommand(e)) \subseteq MakerNeeds(from) \cup {first, e}
           /\ \A e \in E : e \in MakerFailures => from \in MakerPre /\ next = "Finish" /\ E = {e}
           /\ \A e \in E : e \in MakerPreEvents => from \in MakerPre /\ e = first
           /\ next \in MakerPre => from \in MakerPre
           /\ "TakerFeeValidated" \in E => from \in MakerPre /\ next = "SendPayment"
           /\ from = "Finish" => E = {"Finished"} /\ next = "None"
           /\ from # "None" /\ (next = "None" => E = {"Finished"}) /\ E \subseteq MakerSwapEvent
<1>1. CASE MakerGivesUp(from, first) /\ next = "PrepareForMakerPaymentRefund"
           /\ E = {first, "MakerPaymentWaitRefundStarted"}
  BY <1>1 DEF MakerGivesUp, MakerNeeds, MakerGetCommand, MakerFailures, MakerPre, MakerPreEvents,
              MakerSwapEvent
<1>2. CASE ~MakerGivesUp(from, first)
  <2>1. MakerNeeds(next) \subseteq MakerNeeds(from) \cup E
    BY <1>2 DEF MakerRow, MakerNeeds
  <2>2. \A e \in E : MakerNeeds(MakerGetCommand(e)) \subseteq MakerNeeds(from) \cup {first, e}
    BY <1>2 DEF MakerRow, MakerNeeds, MakerGetCommand
  <2> QED
    BY <1>2, <2>1, <2>2 DEF MakerRow, MakerFailures, MakerPre, MakerPreEvents, MakerSwapEvent
<1>3. MakerGivesUp(from, first) => next = "PrepareForMakerPaymentRefund"
                                   /\ E = {first, "MakerPaymentWaitRefundStarted"}
  BY DEF MakerRow, MakerGivesUp
<1> QED
  BY <1>1, <1>2, <1>3

\* Every step of the maker keeps its log in order.
LEMMA MakerLogStep ==
    ASSUME LedgerTypeOK, MakerTypeOK, MakerLogInv, MakerNext(tStartedAt)
    PROVE  MakerLogInv'
<1> USE DEF MakerLogInv
<1>m. /\ \A e : MakerRemembers(e) <=> e \in mSaved \/ Listed(mQueue, e)
      /\ \A e : MakerRemembers(e)' <=> e \in mSaved' \/ Listed(mQueue', e)
  BY DEF MakerRemembers, Listed
<1>q. \A e : Listed(mQueue, e) => e \in MakerSwapEvent
  BY ListTypes
<1>1. CASE UNCHANGED <<mUp, mCmd, mQueue, mSaved, mLast>>
  BY <1>1 DEF MakerDataInv, MakerLastInv, MakerGateInv, MakerRemembers, Listed
<1>2. CASE MakerSaveEvent
  <2>1. /\ mQueue \in Seq(MakerSwapEvent) /\ mQueue # <<>> /\ mQueue' = Tail(mQueue)
        /\ mCmd' = mCmd
    BY <1>2 DEF MakerSaveEvent, save_my_maker_swap_event
  <2> DEFINE head == mQueue[1]
  <2>2. /\ mSaved' = mSaved \cup {head} /\ mLast' = head /\ head \in MakerSwapEvent
        /\ Listed(mQueue, head)
        /\ \A e : Listed(mQueue, e) <=> e = head \/ Listed(mQueue', e)
    BY <1>2, <2>1, ListTail DEF MakerSaveEvent, save_my_maker_swap_event
  <2>3. \A e : MakerRemembers(e)' <=> MakerRemembers(e)
    BY <1>2, MakerSaveMemory
  <2>4. MakerDataInv'
    <3>1. \A n \in MakerNeeds(mCmd) : MakerRemembers(n)'
      BY <2>3 DEF MakerDataInv
    <3>2. \A e \in mSaved' : MakerNeeds(MakerGetCommand(e)) \subseteq mSaved'
      BY <2>2 DEF MakerDataInv
    <3>3. ASSUME NEW e \in MakerSwapEvent, Listed(mQueue', e)
          PROVE  MakerNeeds(MakerGetCommand(e)) \subseteq mSaved' \cup {mQueue'[1], e}
      BY <2>2, <3>3 DEF MakerDataInv
    <3> QED
      BY <2>1, <3>1, <3>2, <3>3 DEF MakerDataInv
  <2>5. MakerLastInv'
    BY <1>2, <2>2 DEF MakerLastInv, MakerSwapEvent, MakerSaveEvent
  <2>6. MakerGateInv'
    <3>1. \A i \in 1..Len(mQueue') : mQueue'[i] \notin MakerPreEvents
      <4>1. \A i \in 1..Len(mQueue') : i + 1 \in 1..Len(mQueue) /\ mQueue'[i] = mQueue[i + 1]
        BY <2>1
      <4>2. \A i \in 1..Len(mQueue') : i + 1 # 1
        OBVIOUS
      <4> QED
        BY <4>1, <4>2 DEF MakerGateInv
    <3>2. \A e \in MakerPreEvents : ~Listed(mQueue', e)
      BY <3>1 DEF Listed
    <3>3. \A e \in MakerSwapEvent : ~(Listed(mQueue', e) /\ e \in MakerFailures)
      <4>1. ASSUME NEW e \in MakerSwapEvent, Listed(mQueue', e), e \in MakerFailures PROVE FALSE
        <5>1. mQueue = <<e>>
          BY <2>2, <4>1 DEF MakerGateInv
        <5>2. mQueue' = <<>>
          BY <2>1, <5>1
        <5> QED
          BY <4>1, <5>2, ListTypes
      <4> QED
        BY <4>1
    <3>4. ASSUME NEW f \in MakerFailures, f \in mSaved'
          PROVE  /\ mLast' \in MakerFailures \cup {"Finished"}
                 /\ \A e \in MakerSwapEvent :
                        Listed(mQueue', e) => e \in MakerFailures \cup {"Finished"}
      <4>1. CASE f \in mSaved
        BY <2>2, <4>1 DEF MakerGateInv
      <4>2. CASE f = head
        <5>1. mQueue' = <<>>
          BY <2>1, <2>2, <4>2 DEF MakerGateInv
        <5> QED
          BY <2>2, <4>2, <5>1, ListTypes
      <4> QED
        BY <2>2, <3>4, <4>1, <4>2
    <3>5. "TakerFeeValidated" \in mSaved' => mLast' \notin MakerPreEvents
      <4>1. CASE "TakerFeeValidated" \in mSaved
        BY <2>2, <4>1 DEF MakerGateInv
      <4>2. CASE head = "TakerFeeValidated"
        BY <2>2, <4>2 DEF MakerPreEvents
      <4> QED
        BY <2>2, <4>1, <4>2
    <3>6. /\ (\E f \in MakerFailures : MakerRemembers(f)') => mCmd' \in {"Finish", "None"}
          /\ MakerRemembers("TakerFeeValidated")'
                 => mCmd' \notin MakerPre /\ \A f \in MakerFailures : ~MakerRemembers(f)'
      BY <2>1, <2>3 DEF MakerGateInv
    <3> QED
      BY <3>1, <3>2, <3>3, <3>4, <3>5, <3>6 DEF MakerGateInv
  <2> QED
    BY <2>4, <2>5, <2>6
<1>3. CASE MakerCrash
  <2>1. mCmd' = "None" /\ mSaved' = mSaved /\ mQueue' = <<>> /\ mLast' = mLast
    BY <1>3 DEF MakerCrash
  <2>2. \A e : ~Listed(mQueue', e)
    BY <2>1, ListTypes
  <2> QED
    BY <1>m, <2>1, <2>2 DEF MakerDataInv, MakerLastInv, MakerGateInv, MakerNeeds, MakerPre
<1>4. CASE MakerRestart
  <2>1. /\ UNCHANGED <<mSaved, mLast, mQueue>> /\ mQueue = <<>>
        /\ mCmd' = "None" \/ (mCmd' = MakerGetCommand(mLast) /\ mLast \in mSaved)
    BY <1>4 DEF MakerRestart, swap_kick_starts, MakerLastInv
  <2>2. \A e : MakerRemembers(e)' <=> MakerRemembers(e)
    BY <2>1 DEF MakerRemembers
  <2>3. MakerDataInv'
    <3>1. \A n \in MakerNeeds(mCmd') : MakerRemembers(n)
      BY <1>m, <2>1 DEF MakerDataInv, MakerNeeds
    <3> QED
      BY <2>1, <2>2, <3>1 DEF MakerDataInv, Listed
  <2>4. MakerGateInv'
    <3>1. /\ \A e : MakerGetCommand(e) \in MakerPre => e \in MakerPreEvents
          /\ \A e \in MakerFailures \cup {"Finished"} : MakerGetCommand(e) \in {"Finish", "None"}
          /\ "None" \notin MakerPre
      BY DEF MakerGetCommand, MakerPre, MakerPreEvents, MakerFailures
    <3>2. \A e : ~Listed(mQueue, e) /\ ~Listed(mQueue', e)
      BY <2>1, ListTypes
    <3>3. (\E f \in MakerFailures : f \in mSaved) => mCmd' \in {"Finish", "None"}
      BY <2>1, <3>1 DEF MakerGateInv
    <3>4. "TakerFeeValidated" \in mSaved => mCmd' \notin MakerPre
      BY <2>1, <3>1 DEF MakerGateInv
    <3>5. \A i \in 1..Len(mQueue') : FALSE
      BY <2>1
    <3> QED
      BY <1>m, <2>1, <3>2, <3>3, <3>4, <3>5 DEF MakerGateInv
  <2> QED
    BY <2>1, <2>3, <2>4 DEF MakerLastInv
<1>5. CASE MakerReturned
  <2>1. PICK from, next, first, E :
            MakerRow(from, next, first, E) /\ MakerHandled(from, next, first, E)
    BY <1>5 DEF MakerReturned
  <2>2. \A e : ~Listed(mQueue, e)
    BY <2>1, ListTypes DEF MakerHandled
  <2>3. /\ \A e : MakerRemembers(e) <=> e \in mSaved
        /\ \A e : MakerRemembers(e)' <=> e \in mSaved \/ e \in E
        /\ \A e : Listed(mQueue', e) <=> e \in E
        /\ mSaved' = mSaved /\ mLast' = mLast /\ mCmd = from /\ mCmd' = next
        /\ mQueue'[1] = first /\ first \in E
    BY <1>m, <2>1, <2>2 DEF MakerHandled
  <2>4. MakerDataInv'
    <3>1. MakerNeeds(from) \subseteq mSaved
      BY <2>3 DEF MakerDataInv
    <3>2. \A n \in MakerNeeds(mCmd') : MakerRemembers(n)'
      BY <2>1, <2>3, <3>1, MakerRowFacts
    <3>3. \A e \in E : MakerNeeds(MakerGetCommand(e)) \subseteq mSaved \cup {first, e}
      BY <2>1, <3>1, MakerRowFacts
    <3> QED
      BY <2>3, <3>2, <3>3 DEF MakerDataInv
  <2>5. MakerGateInv'
    <3>0. "None" \notin MakerPre /\ "Finish" \notin MakerPre /\ "Finished" \notin MakerFailures
          /\ "SendPayment" \notin MakerPre /\ "TakerFeeValidated" \notin MakerFailures
          /\ "Finished" # "TakerFeeValidated" /\ "Finished" \notin MakerPreEvents
      BY DEF MakerPre, MakerFailures, MakerPreEvents
    <3>1. ASSUME NEW f \in MakerFailures, f \in mSaved
          PROVE  from = "Finish" /\ E = {"Finished"} /\ next = "None"
      BY <2>1, <2>3, <3>1, MakerRowFacts DEF MakerGateInv
    <3>2. (\E f \in MakerFailures : MakerRemembers(f)') => mCmd' \in {"Finish", "None"}
      BY <2>1, <2>3, <3>1, MakerRowFacts
    <3>3. (\E f \in MakerFailures : f \in mSaved')
              => /\ mLast' \in MakerFailures \cup {"Finished"}
                 /\ \A e \in MakerSwapEvent :
                        Listed(mQueue', e) => e \in MakerFailures \cup {"Finished"}
      BY <2>3, <3>1 DEF MakerGateInv
    <3>4. ASSUME "TakerFeeValidated" \in mSaved
          PROVE  from \notin MakerPre /\ \A f \in MakerFailures : f \notin mSaved
      BY <2>3, <3>4 DEF MakerGateInv
    <3>5. MakerRemembers("TakerFeeValidated")'
              => mCmd' \notin MakerPre /\ \A f \in MakerFailures : ~MakerRemembers(f)'
      <4>1. CASE "TakerFeeValidated" \in mSaved
        BY <2>1, <2>3, <3>4, <4>1, MakerRowFacts
      <4>2. CASE "TakerFeeValidated" \in E
        <5>1. from \in MakerPre /\ next = "SendPayment"
          BY <2>1, <4>2, MakerRowFacts
        <5>2. \A f \in MakerFailures : f \notin mSaved
          BY <2>1, <3>0, <3>1, <5>1
        <5>3. \A f \in MakerFailures : f \notin E
          BY <2>1, <5>1, MakerRowFacts
        <5> QED
          BY <2>3, <3>0, <5>1, <5>2, <5>3
      <4> QED
        BY <2>3, <4>1, <4>2
    <3>6. "TakerFeeValidated" \in mSaved'
              => /\ mLast' \notin MakerPreEvents
                 /\ \A e \in MakerPreEvents : ~Listed(mQueue', e)
      BY <2>1, <2>3, <3>4, MakerRowFacts DEF MakerGateInv
    <3>7. \A i \in 1..Len(mQueue') : mQueue'[i] \in MakerPreEvents => i = 1
      BY <2>1, MakerRowFacts DEF MakerHandled
    <3>8. \A e \in MakerSwapEvent : Listed(mQueue', e) /\ e \in MakerFailures => mQueue' = <<e>>
      BY <2>1, <2>3, MakerRowFacts DEF MakerHandled
    <3> QED
      BY <3>2, <3>3, <3>5, <3>6, <3>7, <3>8 DEF MakerGateInv
  <2> QED
    BY <2>1, <2>3, <2>4, <2>5 DEF MakerLastInv, MakerHandled
<1> QED
  BY <1>1, <1>2, <1>3, <1>4, <1>5, MakerSteps

\* An untouched log stays in order.
LEMMA MakerLogStays ==
    ASSUME UNCHANGED makerVars, MakerLogInv
    PROVE  MakerLogInv'
BY DEF makerVars, MakerLogInv, MakerDataInv, MakerLastInv, MakerGateInv, MakerRemembers, Listed

\* The log is in order at the start and after every step of the swap.
LEMMA MakerLogAlways == Spec => []MakerLogInv
<1>1. Init => MakerLogInv
  <2> SUFFICES ASSUME Init PROVE MakerLogInv
    OBVIOUS
  <2>1. mUp /\ mCmd = "Start" /\ mQueue = <<>> /\ mSaved = {} /\ mLast = "None"
    BY DEF Init, MakerInit
  <2>2. \A e : ~Listed(mQueue, e) /\ ~MakerRemembers(e)
    BY <2>1 DEF Listed, MakerRemembers
  <2> QED
    BY <2>1, <2>2 DEF MakerLogInv, MakerDataInv, MakerLastInv, MakerGateInv, MakerNeeds
<1>2. TypeOK /\ MakerLogInv /\ [Next]_vars => MakerLogInv'
  <2> SUFFICES ASSUME TypeOK, MakerLogInv, [Next]_vars PROVE MakerLogInv'
    OBVIOUS
  <2>1. CASE MakerStep
    BY <2>1, MakerLogStep DEF MakerStep, TypeOK
  <2>2. CASE ~MakerStep
    <3>1. UNCHANGED makerVars
      BY <2>2 DEF Next, TakerStep, WatcherStep, MineStep, EvictStep, TickStep, Terminating, vars
    <3> QED
      BY <3>1, MakerLogStays
  <2> QED
    BY <2>1, <2>2
<1> QED
  BY <1>1, <1>2, TypeCorrect, PTL DEF Spec

\* Whenever a handler of maker_swap.rs runs, the events whose data it unwraps have been applied:
\* for all parameters and any number of crashes of either party.
THEOREM MakerHasData == Spec => []MakerHasDataForCommand
<1>1. MakerLogInv => MakerHasDataForCommand
  <2> SUFFICES ASSUME MakerLogInv, mQueue = <<>> PROVE MakerHasDataForCommand
    BY DEF MakerHasDataForCommand
  <2>1. \A n \in MakerNeeds(mCmd) : n \in mSaved
    BY DEF MakerLogInv, MakerDataInv, MakerRemembers
  <2> QED
    BY <2>1 DEF MakerNeeds, MakerHasDataForCommand
<1> QED
  BY <1>1, MakerLogAlways, PTL

-----------------------------------------------------------------------------
(* The taker's handlers.                                                   *)

TakerRow(from, next, first, E) ==
    \/ from = "Start" /\ next = "Negotiate" /\ first = "Started" /\ E = {first}
    \/ from = "Start" /\ next = "Finish" /\ first = "StartFailed" /\ E = {first}
    \/ from = "Negotiate" /\ next = "SendTakerFee" /\ first = "Negotiated" /\ E = {first}
    \/ from = "Negotiate" /\ next = "Finish" /\ first = "NegotiateFailed" /\ E = {first}
    \/ from = "SendTakerFee" /\ next = "WaitForMakerPayment" /\ first = "TakerFeeSent" /\ E = {first}
    \/ from = "SendTakerFee" /\ next = "Finish" /\ first = "TakerFeeSendFailed" /\ E = {first}
    \/ from \in {"WaitForMakerPayment", "ValidateMakerPayment"} /\ next = "Finish"
       /\ first = "MakerPaymentValidateFailed" /\ E = {first}
    \/ from = "WaitForMakerPayment" /\ next = "ValidateMakerPayment"
       /\ first = "TakerPaymentInstructionsReceived"
       /\ E = {first, "MakerPaymentReceived", "MakerPaymentWaitConfirmStarted"}
    \/ from = "ValidateMakerPayment" /\ next = "SendTakerPayment"
       /\ first = "MakerPaymentValidatedAndConfirmed" /\ E = {first}
       /\ "MakerPaymentReceived" \in tSaved /\ Mined("MakerPayment")
    \/ from = "ValidateMakerPayment" /\ next = "Finish"
       /\ first = "MakerPaymentWaitConfirmFailed" /\ E = {first}
    \/ from = "SendTakerPayment" /\ next = "Finish" /\ first = "TakerPaymentTransactionFailed"
       /\ E = {first}
    \/ from = "SendTakerPayment" /\ next = "WaitForTakerPaymentSpend"
       /\ first = "TakerPaymentSent" /\ E \in {{first}, {first, "WatcherMessageSent"}}
    \/ from = "WaitForTakerPaymentSpend" /\ next = "SpendMakerPayment"
       /\ first = "TakerPaymentSpent" /\ E = {first} /\ SpendSeen("TakerPayment")
    \/ from = "WaitForTakerPaymentSpend" /\ next = "Finish"
       /\ first = "TakerPaymentWaitForSpendFailed" /\ E = {first}
    \/ from = "WaitForTakerPaymentSpend" /\ next = "PrepareForTakerPaymentRefund"
       /\ first = "TakerPaymentWaitForSpendFailed" /\ E = {first, "TakerPaymentWaitRefundStarted"}
    \/ from = "SpendMakerPayment" /\ next = "ConfirmMakerPaymentSpend"
       /\ first = "MakerPaymentSpent" /\ E = {first} /\ tSecret
    \/ from = "SpendMakerPayment" /\ next = "Finish" /\ first = "MakerPaymentSpendFailed"
       /\ E = {first}
    \/ from = "ConfirmMakerPaymentSpend" /\ next = "Finish"
       /\ first = "MakerPaymentSpendConfirmed" /\ E = {first} /\ Mined("MakerPaymentSpend")
    \/ from = "ConfirmMakerPaymentSpend" /\ next = "PrepareForTakerPaymentRefund"
       /\ first = "MakerPaymentSpendConfirmFailed" /\ E = {first, "TakerPaymentWaitRefundStarted"}
    \/ from = "PrepareForTakerPaymentRefund" /\ next = "RefundTakerPayment"
       /\ first = "TakerPaymentRefundStarted" /\ E = {first}
    \/ from = "RefundTakerPayment" /\ next = "FinalizeTakerPaymentRefund"
       /\ first = "TakerPaymentRefunded" /\ E = {first} /\ Seen("TakerPaymentRefund")'
    \/ from = "RefundTakerPayment" /\ next = "Finish" /\ first = "TakerPaymentRefundFailed"
       /\ E = {first}
    \/ from = "FinalizeTakerPaymentRefund" /\ next = "Finish"
       /\ first = "TakerPaymentRefundFinished" /\ E = {first}
    \/ from = "Finish" /\ next = "None" /\ first = "Finished" /\ E = {first}

TakerHandled(from, next, first, E) ==
    /\ tUp /\ tQueue = <<>> /\ tCmd = from
    /\ tCmd' = next /\ UNCHANGED <<tUp, tSaved, tLast, tSecret>>
    /\ tQueue' # <<>> /\ tQueue'[1] = first /\ first \in E
    /\ \A e : Listed(tQueue', e) <=> e \in E
    /\ E = {first} => tQueue' = <<first>>

TakerReturned ==
    \E from, next, first, E : TakerRow(from, next, first, E) /\ TakerHandled(from, next, first, E)

\* validate_maker_payment without a maker payment.
TakerPanics ==
    /\ tUp /\ tQueue = <<>> /\ tCmd = "ValidateMakerPayment"
    /\ tCmd' = "Panicked" /\ UNCHANGED <<tUp, tQueue, tSaved, tLast, tSecret>>

\* What load_from_saved makes of the command cmd that the last event resumes from.
Searched == {"WaitForTakerPaymentSpend", "SpendMakerPayment", "PrepareForTakerPaymentRefund",
             "RefundTakerPayment"}

TakerLoadRow(cmd, next, E, secret) ==
    \/ next = cmd /\ E = {} /\ (secret <=> "TakerPaymentSpent" \in tSaved)
    \/ /\ cmd \in {"WaitForTakerPaymentSpend", "SpendMakerPayment"} /\ SpendSeen("MakerPayment")
       /\ next = "ConfirmMakerPaymentSpend"
       /\ \/ E = {"MakerPaymentSpentByWatcher"}
          \/ /\ E = {"MakerPaymentSpentByWatcher", "TakerPaymentSpent"}
             /\ SpendSeen("TakerPayment")
       /\ secret => SpendSeen("TakerPayment") \/ "TakerPaymentSpent" \in tSaved
    \/ /\ cmd = "WaitForTakerPaymentSpend" /\ SpendSeen("TakerPayment")
       /\ next = "SpendMakerPayment" /\ E = {} /\ secret
    \/ /\ cmd \in {"WaitForTakerPaymentSpend", "PrepareForTakerPaymentRefund", "RefundTakerPayment"}
       /\ RefundSeen("TakerPayment")
       /\ next = "Finish" /\ E = {"TakerPaymentRefundedByWatcher"} /\ ~secret
    \/ /\ cmd \in Searched /\ next \in Stuck /\ E = {}
       /\ secret => SpendSeen("TakerPayment") \/ "TakerPaymentSpent" \in tSaved

TakerResumes == IF "Started" \in tSaved THEN TakerGetCommand(tLast) ELSE "None"

TakerReloaded ==
    \E next, E, secret : /\ TakerLoadRow(TakerResumes, next, E, secret)
                         /\ TakerLoaded(next, E, secret)

\* A restart of the taker is one of the rows of load_from_saved.
LEMMA TakerReloads ==
    ASSUME TakerTypeOK, TakerRestart
    PROVE  ~tUp /\ tUp' /\ tQueue' = tQueue /\ TakerReloaded
<1> DEFINE spent == "TakerPaymentSpent"
           cmd == TakerResumes
<1>a. ASSUME NEW next, NEW E, NEW secret, TakerLoaded(next, E, secret),
             TakerLoadRow(TakerResumes, next, E, secret)
      PROVE  TakerReloaded
  BY <1>a, Zenon DEF TakerReloaded
<1>b. TakerLoaded(TakerResumes, {}, spent \in tSaved) => TakerReloaded
  <2>1. TakerLoadRow(TakerResumes, TakerResumes, {}, spent \in tSaved)
    BY DEF TakerLoadRow
  <2> QED
    BY <1>a, <2>1
<1>c. ASSUME NEW found \in BOOLEAN, check_maker_payment_spend_and_add_event(found),
             \/ found /\ TakerResumes = "WaitForTakerPaymentSpend" /\ SpendSeen("TakerPayment")
             \/ ~found /\ TakerResumes = "SpendMakerPayment"
      PROVE  TakerReloaded
  <2> DEFINE secret == found \/ spent \in tSaved
             E == {"MakerPaymentSpentByWatcher"} \cup (IF found THEN {spent} ELSE {})
  <2>1. CASE SpendSeen("MakerPayment") /\ TakerLoaded("ConfirmMakerPaymentSpend", E, secret)
    <3>1. TakerLoadRow(TakerResumes, "ConfirmMakerPaymentSpend", E, secret)
      BY <1>c, <2>1 DEF TakerLoadRow
    <3> QED
      BY <1>a, <2>1, <3>1
  <2>2. CASE TakerLoaded("MakerCheatedError", {}, secret)
    <3>1. TakerLoadRow(TakerResumes, "MakerCheatedError", {}, secret)
      BY <1>c DEF TakerLoadRow, Stuck, Searched
    <3> QED
      BY <1>a, <2>2, <3>1
  <2>3. CASE TakerLoaded("SpendMakerPayment", {}, secret)
    <3>1. TakerLoadRow(TakerResumes, "SpendMakerPayment", {}, secret)
      BY <1>c DEF TakerLoadRow
    <3> QED
      BY <1>a, <2>3, <3>1
  <2> QED
    BY <1>c, <2>1, <2>2, <2>3 DEF check_maker_payment_spend_and_add_event
<1>d. ASSUME TakerCommandFromActivity(TakerResumes) PROVE TakerReloaded
  <2>1. TakerLoaded("Finish", {"TakerPaymentRefundedByWatcher"}, FALSE)
            /\ RefundSeen("TakerPayment") /\ TakerResumes \in {"WaitForTakerPaymentSpend",
                   "PrepareForTakerPaymentRefund", "RefundTakerPayment"} => TakerReloaded
    BY <1>a DEF TakerLoadRow
  <2>2. ASSUME NEW next \in Stuck, TakerLoaded(next, {}, FALSE), TakerResumes \in Searched
        PROVE  TakerReloaded
    BY <1>a, <2>2 DEF TakerLoadRow
  <2>3. {"TakerPaymentSpentError", "LoadFailed"} \subseteq Stuck
    BY DEF Stuck
  <2> QED
    BY <1>b, <1>c, <1>d, <2>1, <2>2, <2>3 DEF TakerCommandFromActivity, Searched
<1>1. ~tUp /\ tUp' /\ tQueue' = tQueue
  BY DEF TakerRestart
<1>2. TakerReloaded
  BY <1>b, <1>d DEF TakerRestart, swap_kick_starts, TakerResumes
<1> QED
  BY <1>1, <1>2

\* A step of the taker waits or recovers, returns from a handler, panics, saves, dies or
\* restarts.
LEMMA TakerSteps ==
    ASSUME LedgerTypeOK, TakerTypeOK, TakerNext(mStartedAt)
    PROVE  \/ UNCHANGED <<tUp, tCmd, tQueue, tSaved, tLast, tSecret>>
           \/ TakerSaveEvent \/ TakerCrash \/ TakerRestart
           \/ TakerPanics \/ TakerReturned
<1> DEFINE peer == mStartedAt
<1> USE DEF TakerRuns
<1>a. ASSUME NEW from, NEW next, NEW a, TakerRuns(from), TakerReturns(next, <<a>>),
             TakerRow(from, next, a, {a})
      PROVE  TakerReturned
  <2>1. /\ tUp /\ tQueue = <<>> /\ tCmd = from /\ tCmd' = next
        /\ UNCHANGED <<tUp, tSaved, tLast, tSecret>> /\ tQueue' = <<a>>
    BY <1>a DEF TakerReturns
  <2>2. \A e : Listed(tQueue', e) <=> e \in {a}
    BY <2>1, ListMembers DEF Listed
  <2>3. tQueue' # <<>> /\ tQueue'[1] = a
    BY <2>1
  <2>4. TakerHandled(from, next, a, {a})
    BY <2>1, <2>2, <2>3 DEF TakerHandled
  <2> QED
    BY <1>a, <2>4, Zenon DEF TakerReturned
<1>b. ASSUME NEW from, NEW next, NEW a, NEW b, a # b, TakerRuns(from),
             TakerReturns(next, <<a, b>>), TakerRow(from, next, a, {a, b})
      PROVE  TakerReturned
  <2>1. /\ tUp /\ tQueue = <<>> /\ tCmd = from /\ tCmd' = next
        /\ UNCHANGED <<tUp, tSaved, tLast, tSecret>> /\ tQueue' = <<a, b>>
    BY <1>b DEF TakerReturns
  <2>2. \A e : Listed(tQueue', e) <=> e \in {a, b}
    BY <2>1, ListMembers DEF Listed
  <2>3. tQueue' # <<>> /\ tQueue'[1] = a
    BY <2>1
  <2>4. TakerHandled(from, next, a, {a, b})
    BY <1>b, <2>1, <2>2, <2>3 DEF TakerHandled
  <2> QED
    BY <1>b, <2>4, Zenon DEF TakerReturned
<1>1. CASE TakerStart
  BY <1>1, <1>a DEF TakerStart, TakerRow
<1>2. CASE TakerNegotiateBegin \/ TakerWaitForSpendSend \/ TakerRecoverFunds
  BY <1>2 DEF TakerNegotiateBegin, TakerWaitForSpendSend, TakerRecoverFunds, TakerWaits, takerVars
<1>3. CASE TakerNegotiateReply(peer) \/ TakerNegotiate
  BY <1>3, <1>a DEF TakerNegotiateReply, TakerNegotiate, TakerWaits, TakerRow
<1>4. CASE TakerSendTakerFee
  BY <1>4, <1>a DEF TakerSendTakerFee, TakerRow
<1>5. CASE TakerWaitForMakerPaymentSend
  BY <1>5, <1>a DEF TakerWaitForMakerPaymentSend, TakerWaits, TakerRow
<1>6. CASE TakerWaitForMakerPayment
  <2> DEFINE list == <<"TakerPaymentInstructionsReceived", "MakerPaymentReceived",
                       "MakerPaymentWaitConfirmStarted">>
             E == {"TakerPaymentInstructionsReceived", "MakerPaymentReceived",
                   "MakerPaymentWaitConfirmStarted"}
  <2>1. CASE TakerReturns("ValidateMakerPayment", list)
    <3>1. /\ tUp /\ tQueue = <<>> /\ tCmd = "WaitForMakerPayment" /\ tQueue' = list
          /\ UNCHANGED <<tUp, tSaved, tLast, tSecret>> /\ tCmd' = "ValidateMakerPayment"
      BY <1>6, <2>1 DEF TakerReturns, TakerWaitForMakerPayment
    <3>2. \A e : Listed(tQueue', e) <=> e \in E
      BY <3>1, ListMembers DEF Listed
    <3>3. tQueue' # <<>> /\ tQueue'[1] = "TakerPaymentInstructionsReceived"
      BY <3>1
    <3>4. TakerHandled("WaitForMakerPayment", "ValidateMakerPayment",
                       "TakerPaymentInstructionsReceived", E)
      BY <3>1, <3>2, <3>3 DEF TakerHandled
    <3>5. TakerRow("WaitForMakerPayment", "ValidateMakerPayment",
                   "TakerPaymentInstructionsReceived", E)
      BY DEF TakerRow
    <3> QED
      BY <3>4, <3>5, Zenon DEF TakerReturned
  <2>2. CASE TakerReturns("Finish", <<"MakerPaymentValidateFailed">>)
    BY <1>6, <1>a, <2>2 DEF TakerWaitForMakerPayment, TakerRow
  <2> QED
    BY <1>6, <2>1, <2>2 DEF TakerWaitForMakerPayment
<1>7. CASE TakerValidateMakerPayment
  <2>1. TakerReturns("Panicked", <<>>) => TakerPanics
    BY <1>7 DEF TakerReturns, TakerPanics, TakerValidateMakerPayment
  <2> QED
    BY <1>7, <1>a, <2>1 DEF TakerValidateMakerPayment, TakerRow, wait_for_confirmations
<1>8. CASE TakerSendTakerPayment
  BY <1>8, <1>a DEF TakerSendTakerPayment, TakerWaits, TakerRow
<1>9. CASE TakerTellWatchers
  BY <1>9, <1>a, <1>b DEF TakerTellWatchers, TakerRow
<1>10. CASE TakerWaitForTakerPaymentSpend
  BY <1>10, <1>a, <1>b DEF TakerWaitForTakerPaymentSpend, TakerRefundBecause, TakerRow
<1>11. CASE TakerSpendMakerPayment
  BY <1>11, <1>a DEF TakerSpendMakerPayment, TakerRow
<1>12. CASE TakerConfirmMakerPaymentSpend
  BY <1>12, <1>a, <1>b DEF TakerConfirmMakerPaymentSpend, TakerRefundBecause, TakerRow,
                           wait_for_confirmations
<1>13. CASE TakerPrepareRefund \/ TakerFinalizeRefund \/ TakerFinish
  BY <1>13, <1>a DEF TakerPrepareRefund, TakerFinalizeRefund, TakerFinish, TakerRow
<1>14. CASE TakerRefundPayment
  <2>1. RefundOk("TakerPayment") => Seen("TakerPaymentRefund")'
    BY Payment2, TxNames DEF RefundOk, Put, Seen
  <2> QED
    BY <1>14, <1>a, <2>1 DEF TakerRefundPayment, TakerRow
<1> QED
  BY <1>1, <1>2, <1>3, <1>4, <1>5, <1>6, <1>7, <1>8, <1>9, <1>10, <1>11, <1>12, <1>13, <1>14
     DEF TakerNext, TakerHandles

-----------------------------------------------------------------------------
(* The taker's log.                                                        *)

\* The events that must have been applied before command cmd is run.
TakerNeeds(cmd) ==
    (IF cmd \in Searched \cup {"SendTakerPayment", "ConfirmMakerPaymentSpend"}
     THEN {"MakerPaymentReceived", "MakerPaymentValidatedAndConfirmed"} ELSE {}) \cup
    (IF cmd \in Searched \cup {"ConfirmMakerPaymentSpend"} THEN {"TakerPaymentSent"} ELSE {})

MakerPaymentTaken == {"MakerPaymentSpent", "MakerPaymentSpentByWatcher"}

\* The events of S are enough to run cmd.
TakerHas(cmd, S) ==
    /\ TakerNeeds(cmd) \subseteq S
    /\ cmd = "ConfirmMakerPaymentSpend" => MakerPaymentTaken \cap S # {}

\* The commands and events before the taker pays, and the events with which it gives up
\* without having paid.
TakerPre       == {"Start", "Negotiate", "SendTakerFee", "WaitForMakerPayment",
                   "ValidateMakerPayment"}
TakerPreEvents == {"Started", "Negotiated", "TakerFeeSent", "TakerPaymentInstructionsReceived",
                   "MakerPaymentReceived", "MakerPaymentWaitConfirmStarted"}
TakerFailures  == {"StartFailed", "NegotiateFailed", "TakerFeeSendFailed",
                   "MakerPaymentValidateFailed", "MakerPaymentWaitConfirmFailed"}

\* Each event is saved after those its command needs, and the secret is in memory when the
\* maker's payment is to be spent.
TakerDataInv ==
    /\ TakerHas(tCmd, {e \in TakerSwapEvent : TakerRemembers(e)})
    /\ \A e \in tSaved : TakerHas(TakerGetCommand(e), tSaved)
    /\ \A e \in TakerSwapEvent : Listed(tQueue, e)
           => TakerHas(TakerGetCommand(e), tSaved \cup {tQueue[1], e})
    /\ tUp /\ tCmd = "SpendMakerPayment" => tSecret \/ Listed(tQueue, "TakerPaymentSpent")

TakerLastInv ==
    /\ tLast # "None" => tLast \in tSaved
    /\ tSaved # {} => tLast # "None"
    /\ ~tUp => tQueue = <<>>
    /\ tUp /\ tCmd = "None" /\ tQueue # <<>> => tQueue = <<"Finished">>
    /\ tUp /\ tCmd = "None" /\ tQueue = <<>> /\ "Started" \in tSaved => tLast = "Finished"

\* A taker that gave up before it paid does not pay, and one that may pay has not given up.
TakerGateInv ==
    /\ (\E f \in TakerFailures : TakerRemembers(f)) => tCmd \in {"Finish", "None"}
    /\ (\E f \in TakerFailures : f \in tSaved)
           => /\ tLast \in TakerFailures \cup {"Finished"}
              /\ \A e \in TakerSwapEvent :
                     Listed(tQueue, e) => e \in TakerFailures \cup {"Finished"}
    /\ TakerRemembers("MakerPaymentValidatedAndConfirmed")
           => tCmd \notin TakerPre /\ \A f \in TakerFailures : ~TakerRemembers(f)
    /\ "MakerPaymentValidatedAndConfirmed" \in tSaved
           => /\ tLast \notin TakerPreEvents
              /\ \A e \in TakerPreEvents : ~Listed(tQueue, e)
    /\ \A e \in TakerFailures \cup {"MakerPaymentValidatedAndConfirmed"} :
           Listed(tQueue, e) => tQueue = <<e>>

TakerLogInv == TakerDataInv /\ TakerLastInv /\ TakerGateInv

\* What the rows of the taker's table have in common.
LEMMA TakerRowFacts ==
    ASSUME NEW from, NEW next, NEW first, NEW E, TakerRow(from, next, first, E)
    PROVE  /\ TakerNeeds(next) \subseteq TakerNeeds(from) \cup E \cup tSaved
           /\ \A e \in E : TakerNeeds(TakerGetCommand(e))
                               \subseteq TakerNeeds(from) \cup {first, e} \cup tSaved
           /\ next = "ConfirmMakerPaymentSpend" => "MakerPaymentSpent" \in E
           /\ \A e \in E : TakerGetCommand(e) = "ConfirmMakerPaymentSpend" => e \in MakerPaymentTaken
           /\ next = "SpendMakerPayment" => "TakerPaymentSpent" \in E
           /\ \A e \in E : e \in TakerFailures => from \in TakerPre /\ next = "Finish" /\ E = {e}
           /\ \A e \in E : e \in TakerPreEvents => from \in TakerPre
           /\ next \in TakerPre => from \in TakerPre
           /\ "MakerPaymentValidatedAndConfirmed" \in E
                  => /\ from \in TakerPre /\ next = "SendTakerPayment"
                     /\ E = {"MakerPaymentValidatedAndConfirmed"}
           /\ from = "Finish" => E = {"Finished"} /\ next = "None"
           /\ from # "None" /\ (next = "None" => E = {"Finished"}) /\ E \subseteq TakerSwapEvent
<1>1. TakerNeeds(next) \subseteq TakerNeeds(from) \cup E \cup tSaved
  BY DEF TakerRow, TakerNeeds, Searched
<1>2. \A e \in E : /\ TakerNeeds(TakerGetCommand(e))
                          \subseteq TakerNeeds(from) \cup {first, e} \cup tSaved
                   /\ TakerGetCommand(e) = "ConfirmMakerPaymentSpend" => e \in MakerPaymentTaken
  BY DEF TakerRow, TakerNeeds, Searched, TakerGetCommand, MakerPaymentTaken
<1>3. /\ next = "ConfirmMakerPaymentSpend" => "MakerPaymentSpent" \in E
      /\ next = "SpendMakerPayment" => "TakerPaymentSpent" \in E
      /\ \A e \in E : e \in TakerFailures => from \in TakerPre /\ next = "Finish" /\ E = {e}
      /\ \A e \in E : e \in TakerPreEvents => from \in TakerPre
      /\ next \in TakerPre => from \in TakerPre
  BY DEF TakerRow, TakerFailures, TakerPre, TakerPreEvents
<1>4. /\ "MakerPaymentValidatedAndConfirmed" \in E
             => /\ from \in TakerPre /\ next = "SendTakerPayment"
                /\ E = {"MakerPaymentValidatedAndConfirmed"}
      /\ from = "Finish" => E = {"Finished"} /\ next = "None"
      /\ from # "None" /\ (next = "None" => E = {"Finished"}) /\ E \subseteq TakerSwapEvent
  BY DEF TakerRow, TakerPre, TakerSwapEvent
<1> QED
  BY <1>1, <1>2, <1>3, <1>4

\* More events are enough for whatever fewer are enough for.
LEMMA TakerHasMore ==
    ASSUME NEW cmd, NEW S, NEW T, TakerHas(cmd, S), S \subseteq T
    PROVE  TakerHas(cmd, T)
BY DEF TakerHas

\* Commands that need no data.
LEMMA TakerFree ==
    \A cmd, S : cmd \in Stuck \cup {"None", "Finish"} => TakerHas(cmd, S)
BY DEF TakerHas, TakerNeeds, Searched, Stuck

\* Which events lead to which commands.
LEMMA TakerGetCommandFacts ==
    /\ \A e : TakerGetCommand(e) \in TakerPre => e \in TakerPreEvents
    /\ \A e \in TakerFailures \cup {"Finished"} : TakerGetCommand(e) \in {"Finish", "None"}
    /\ \A e : TakerGetCommand(e) = "SpendMakerPayment" => e = "TakerPaymentSpent"
    /\ \A e \in TakerSwapEvent : TakerGetCommand(e) = "None" => e = "Finished"
    /\ TakerGetCommand("TakerPaymentSpent") = "SpendMakerPayment"
    /\ TakerGetCommand("MakerPaymentSpentByWatcher") = "ConfirmMakerPaymentSpend"
    /\ TakerGetCommand("TakerPaymentRefundedByWatcher") = "Finish"
<1>1. \A e \in TakerSwapEvent : TakerGetCommand(e) = "None" => e = "Finished"
  BY DEF TakerGetCommand, TakerSwapEvent
<1> QED
  BY <1>1 DEF TakerGetCommand, TakerPre, TakerPreEvents, TakerFailures

\* Every step of the taker keeps its log in order.
LEMMA TakerLogStep ==
    ASSUME LedgerTypeOK, TakerTypeOK, TakerLogInv, TakerNext(mStartedAt)
    PROVE  TakerLogInv'
<1> USE DEF TakerLogInv
<1> DEFINE gate == "MakerPaymentValidatedAndConfirmed"
           Known == {e \in TakerSwapEvent : TakerRemembers(e)}
<1>m. /\ \A e : TakerRemembers(e) <=> e \in tSaved \/ Listed(tQueue, e)
      /\ \A e : TakerRemembers(e)' <=> e \in tSaved' \/ Listed(tQueue', e)
  BY DEF TakerRemembers, Listed
<1>1. CASE UNCHANGED <<tUp, tCmd, tQueue, tSaved, tLast, tSecret>>
  BY <1>1 DEF TakerDataInv, TakerLastInv, TakerGateInv, TakerRemembers, Listed
<1>2. CASE TakerSaveEvent
  <2>1. /\ tQueue \in Seq(TakerSwapEvent) /\ tQueue # <<>> /\ tQueue' = Tail(tQueue)
        /\ tCmd' = tCmd /\ tUp /\ tUp'
    BY <1>2 DEF TakerSaveEvent, save_my_taker_swap_event
  <2> DEFINE head == tQueue[1]
  <2>2. /\ tSaved' = tSaved \cup {head} /\ tLast' = head /\ head \in TakerSwapEvent
        /\ Listed(tQueue, head) /\ (tSecret' <=> tSecret \/ head = "TakerPaymentSpent")
        /\ \A e : Listed(tQueue, e) <=> e = head \/ Listed(tQueue', e)
    BY <1>2, <2>1, ListTail DEF TakerSaveEvent, save_my_taker_swap_event
  <2>3. \A e : TakerRemembers(e)' <=> TakerRemembers(e)
    BY <1>2, TakerSaveMemory
  <2>4. TakerDataInv'
    <3>1. TakerHas(tCmd', Known')
      BY <2>1, <2>3 DEF TakerDataInv
    <3>2. ASSUME NEW e \in tSaved' PROVE TakerHas(TakerGetCommand(e), tSaved')
      <4>1. TakerHas(TakerGetCommand(e), tSaved) \/ TakerHas(TakerGetCommand(e), tSaved \cup {head, e})
        BY <2>2, <3>2 DEF TakerDataInv
      <4> QED
        BY <2>2, <3>2, <4>1, TakerHasMore
    <3>3. ASSUME NEW e \in TakerSwapEvent, Listed(tQueue', e)
          PROVE  TakerHas(TakerGetCommand(e), tSaved' \cup {tQueue'[1], e})
      <4>1. TakerHas(TakerGetCommand(e), tSaved \cup {head, e})
        BY <2>2, <3>3 DEF TakerDataInv
      <4> QED
        BY <2>2, <4>1, TakerHasMore
    <3>4. tCmd' = "SpendMakerPayment" => tSecret' \/ Listed(tQueue', "TakerPaymentSpent")
      BY <2>1, <2>2 DEF TakerDataInv
    <3> QED
      BY <3>1, <3>2, <3>3, <3>4 DEF TakerDataInv
  <2>5. TakerLastInv'
    <3>1. head # "None"
      BY <2>2 DEF TakerSwapEvent
    <3>2. tCmd = "None" => tQueue' = <<>> /\ head = "Finished"
      BY <2>1 DEF TakerLastInv
    <3> QED
      BY <2>1, <2>2, <3>1, <3>2 DEF TakerLastInv
  <2>6. TakerGateInv'
    <3>1. ASSUME NEW e \in TakerFailures \cup {gate}, Listed(tQueue, e) PROVE tQueue' = <<>> /\ head = e
      BY <2>1, <3>1 DEF TakerGateInv
    <3>2. \A e \in TakerFailures \cup {gate} : ~Listed(tQueue', e)
      BY <2>2, <3>1, ListTypes
    <3>3. ASSUME NEW f \in TakerFailures, f \in tSaved'
          PROVE  /\ tLast' \in TakerFailures \cup {"Finished"}
                 /\ \A e \in TakerSwapEvent :
                        Listed(tQueue', e) => e \in TakerFailures \cup {"Finished"}
      <4>1. CASE f \in tSaved
        BY <2>2, <4>1 DEF TakerGateInv
      <4>2. CASE f = head
        BY <2>2, <3>1, <4>2, ListTypes
      <4> QED
        BY <2>2, <3>3, <4>1, <4>2
    <3>4. ASSUME gate \in tSaved'
          PROVE  tLast' \notin TakerPreEvents /\ \A e \in TakerPreEvents : ~Listed(tQueue', e)
      <4>1. CASE gate \in tSaved
        BY <2>2, <4>1 DEF TakerGateInv
      <4>2. CASE gate = head
        BY <2>2, <3>1, <4>2, ListTypes DEF TakerPreEvents
      <4> QED
        BY <2>2, <3>4, <4>1, <4>2
    <3>5. /\ (\E f \in TakerFailures : TakerRemembers(f)') => tCmd' \in {"Finish", "None"}
          /\ TakerRemembers(gate)'
                 => tCmd' \notin TakerPre /\ \A f \in TakerFailures : ~TakerRemembers(f)'
      BY <2>1, <2>3 DEF TakerGateInv
    <3> QED
      BY <3>2, <3>3, <3>4, <3>5 DEF TakerGateInv
  <2> QED
    BY <2>4, <2>5, <2>6
<1>3. CASE TakerCrash
  <2>1. tCmd' = "None" /\ tSaved' = tSaved /\ tQueue' = <<>> /\ tLast' = tLast /\ ~tUp'
    BY <1>3 DEF TakerCrash
  <2>2. \A e : ~Listed(tQueue', e)
    BY <2>1, ListTypes
  <2>3. TakerDataInv'
    BY <2>1, <2>2, TakerFree DEF TakerDataInv
  <2> QED
    BY <1>m, <2>1, <2>2, <2>3 DEF TakerLastInv, TakerGateInv, TakerPre
<1>4. CASE TakerPanics
  <2>1. /\ tCmd = "ValidateMakerPayment" /\ tCmd' = "Panicked" /\ tQueue = <<>> /\ tUp
        /\ UNCHANGED <<tUp, tQueue, tSaved, tLast, tSecret>>
    BY <1>4 DEF TakerPanics
  <2>2. \A e : (Listed(tQueue', e) <=> Listed(tQueue, e)) /\ (TakerRemembers(e)' <=> TakerRemembers(e))
    BY <2>1 DEF Listed, TakerRemembers
  <2>3. TakerDataInv'
    <3>1. TakerHas(tCmd', Known')
      BY <2>1, TakerFree DEF Stuck
    <3> QED
      BY <2>1, <2>2, <3>1 DEF TakerDataInv
  <2>4. TakerGateInv'
    <3>1. ~TakerRemembers(gate) /\ \A f \in TakerFailures : ~TakerRemembers(f)
      BY <2>1 DEF TakerGateInv, TakerPre
    <3> QED
      BY <1>m, <2>1, <2>2, <3>1 DEF TakerGateInv
  <2> QED
    BY <2>1, <2>3, <2>4 DEF TakerLastInv
<1>5. CASE TakerRestart
  <2>1. ~tUp /\ tUp' /\ tQueue' = tQueue /\ TakerReloaded
    BY <1>5, TakerReloads
  <2>2. PICK next, E, secret :
            TakerLoadRow(TakerResumes, next, E, secret) /\ TakerLoaded(next, E, secret)
    BY <2>1 DEF TakerReloaded
  <2>3. tQueue = <<>> /\ tQueue' = <<>>
    BY <2>1 DEF TakerLastInv
  <2>4. \A e : ~Listed(tQueue, e) /\ ~Listed(tQueue', e)
    BY <2>3, ListTypes
  <2>5. /\ tCmd' = next /\ tSaved' = tSaved \cup E /\ tSecret' = secret
        /\ E = {} => tLast' = tLast
        /\ E # {} => tLast' \in E \ {"TakerPaymentSpent"}
    BY <2>2 DEF TakerLoaded
  <2>6. TakerResumes = "None" \/ (TakerResumes = TakerGetCommand(tLast) /\ tLast \in tSaved)
    BY DEF TakerResumes, TakerLastInv
  <2>7. TakerHas(TakerResumes, tSaved)
    BY <2>6, TakerFree DEF TakerDataInv
  <2>8. TakerHas(next, tSaved') /\ \A e \in E : TakerHas(TakerGetCommand(e), tSaved')
    <3>1. CASE next = TakerResumes /\ E = {}
      BY <2>5, <2>7, <3>1
    <3>2. CASE /\ TakerResumes \in {"WaitForTakerPaymentSpend", "SpendMakerPayment"}
               /\ next = "ConfirmMakerPaymentSpend" /\ "MakerPaymentSpentByWatcher" \in E
               /\ E \subseteq {"MakerPaymentSpentByWatcher", "TakerPaymentSpent"}
      <4>1. TakerNeeds("ConfirmMakerPaymentSpend") \subseteq tSaved'
        BY <2>5, <2>7, <3>2 DEF TakerHas, TakerNeeds, Searched
      <4>2. TakerNeeds("SpendMakerPayment") \subseteq tSaved'
        BY <2>5, <2>7, <3>2 DEF TakerHas, TakerNeeds, Searched
      <4>3. TakerHas("ConfirmMakerPaymentSpend", tSaved') /\ TakerHas("SpendMakerPayment", tSaved')
        BY <2>5, <3>2, <4>1, <4>2 DEF TakerHas, MakerPaymentTaken
      <4> QED
        BY <3>2, <4>3, TakerGetCommandFacts
    <3>3. CASE TakerResumes = "WaitForTakerPaymentSpend" /\ next = "SpendMakerPayment" /\ E = {}
      BY <2>5, <2>7, <3>3 DEF TakerHas, TakerNeeds, Searched
    <3>4. CASE next \in Stuck \cup {"Finish"} /\ E \subseteq {"TakerPaymentRefundedByWatcher"}
      BY <3>4, TakerFree, TakerGetCommandFacts
    <3> QED
      BY <2>2, <3>1, <3>2, <3>3, <3>4 DEF TakerLoadRow
  <2>9. TakerDataInv'
    <3>1. E \subseteq {"MakerPaymentSpentByWatcher", "TakerPaymentSpent",
                       "TakerPaymentRefundedByWatcher"}
      BY <2>2 DEF TakerLoadRow
    <3>2. tSaved' \subseteq {e \in TakerSwapEvent : TakerRemembers(e)'}
      BY <1>m, <2>5, <3>1 DEF TakerSwapEvent
    <3>3. TakerHas(tCmd', Known')
      BY <2>5, <2>8, <3>2, TakerHasMore
    <3>4. \A e \in tSaved' : TakerHas(TakerGetCommand(e), tSaved')
      BY <2>5, <2>8, TakerHasMore DEF TakerDataInv
    <3>5. next = "SpendMakerPayment" => secret
      <4>1. next = "SpendMakerPayment" /\ next = TakerResumes => "TakerPaymentSpent" \in tSaved
        BY <2>6, TakerGetCommandFacts
      <4> QED
        BY <2>2, <4>1 DEF TakerLoadRow, Stuck
    <3> QED
      BY <2>4, <2>5, <3>3, <3>4, <3>5 DEF TakerDataInv
  <2>10. TakerLastInv'
    <3>1. E # {} => tLast' \in tSaved' /\ tLast' # "None"
      BY <2>2, <2>5 DEF TakerLoadRow
    <3>2. E = {} => (tLast' # "None" => tLast' \in tSaved') /\ (tSaved' # {} => tLast' # "None")
      BY <2>5 DEF TakerLastInv
    <3>3. next = "None" => TakerResumes = "None" /\ E = {}
      BY <2>2 DEF TakerLoadRow, Stuck
    <3>4. TakerResumes = "None" /\ "Started" \in tSaved => tLast = "Finished"
      BY TakerGetCommandFacts DEF TakerResumes, TakerLastInv
    <3> QED
      BY <2>1, <2>3, <2>5, <3>1, <3>2, <3>3, <3>4 DEF TakerLastInv
  <2>11. TakerGateInv'
    <3>1. ASSUME NEW f \in TakerFailures, f \in tSaved'
          PROVE  f \in tSaved /\ next \in {"Finish", "None"} /\ E = {}
      <4>1. f \in tSaved
        BY <2>2, <2>5, <3>1 DEF TakerLoadRow, TakerFailures
      <4>2. TakerResumes \in {"Finish", "None"}
        BY <2>6, <4>1, TakerGetCommandFacts DEF TakerGateInv
      <4> QED
        BY <2>2, <4>1, <4>2 DEF TakerLoadRow, Searched
    <3>2. ASSUME gate \in tSaved'
          PROVE  gate \in tSaved /\ next \notin TakerPre /\ tLast' \notin TakerPreEvents
      <4>1. gate \in tSaved
        BY <2>2, <2>5, <3>2 DEF TakerLoadRow
      <4>2. TakerResumes \notin TakerPre
        BY <2>6, <4>1, TakerGetCommandFacts DEF TakerGateInv, TakerPre
      <4>3. next \notin TakerPre
        BY <2>2, <4>2 DEF TakerLoadRow, Stuck, TakerPre
      <4>4. E # {} => tLast' \in {"MakerPaymentSpentByWatcher", "TakerPaymentRefundedByWatcher"}
        BY <2>2, <2>5 DEF TakerLoadRow
      <4> QED
        BY <2>5, <4>1, <4>3, <4>4 DEF TakerGateInv, TakerPreEvents
    <3>3. \A f \in TakerFailures : gate \in tSaved => f \notin tSaved
      BY <1>m DEF TakerGateInv
    <3> QED
      BY <1>m, <2>4, <2>5, <3>1, <3>2, <3>3 DEF TakerGateInv
  <2> QED
    BY <2>9, <2>10, <2>11
<1>6. CASE TakerReturned
  <2>1. PICK from, next, first, E :
            TakerRow(from, next, first, E) /\ TakerHandled(from, next, first, E)
    BY <1>6 DEF TakerReturned
  <2>2. \A e : ~Listed(tQueue, e)
    BY <2>1, ListTypes DEF TakerHandled
  <2>3. /\ \A e : TakerRemembers(e) <=> e \in tSaved
        /\ \A e : TakerRemembers(e)' <=> e \in tSaved \/ e \in E
        /\ \A e : Listed(tQueue', e) <=> e \in E
        /\ tSaved' = tSaved /\ tLast' = tLast /\ tCmd = from /\ tCmd' = next
        /\ tQueue'[1] = first /\ first \in E
    BY <1>m, <2>1, <2>2 DEF TakerHandled
  <2>4. TakerDataInv'
    <3>1. TakerNeeds(from) \subseteq tSaved
      BY <2>3 DEF TakerDataInv, TakerHas
    <3>2. tSaved \cup E \subseteq {e \in TakerSwapEvent : TakerRemembers(e)'}
      BY <2>1, <2>3, TakerRowFacts
    <3>3. TakerHas(next, tSaved \cup E)
      BY <2>1, <3>1, TakerRowFacts DEF TakerHas, MakerPaymentTaken
    <3>4. TakerHas(tCmd', Known')
      BY <2>3, <3>2, <3>3, TakerHasMore
    <3>5. ASSUME NEW e \in E PROVE TakerHas(TakerGetCommand(e), tSaved \cup {first, e})
      <4>1. TakerNeeds(TakerGetCommand(e)) \subseteq tSaved \cup {first, e}
        BY <2>1, <3>1, TakerRowFacts
      <4>2. TakerGetCommand(e) = "ConfirmMakerPaymentSpend" => e \in MakerPaymentTaken
        BY <2>1, TakerRowFacts
      <4> QED
        BY <4>1, <4>2 DEF TakerHas
    <3>6. next = "SpendMakerPayment" => Listed(tQueue', "TakerPaymentSpent")
      BY <2>1, <2>3, TakerRowFacts
    <3> QED
      BY <2>3, <3>4, <3>5, <3>6 DEF TakerDataInv
  <2>5. TakerLastInv'
    <3>1. next = "None" => tQueue' = <<"Finished">>
      BY <2>1, <2>3, TakerRowFacts DEF TakerHandled
    <3> QED
      BY <2>1, <2>3, <3>1 DEF TakerLastInv, TakerHandled
  <2>6. TakerGateInv'
    <3>0. /\ "None" \notin TakerPre /\ "Finish" \notin TakerPre /\ "SendTakerPayment" \notin TakerPre
          /\ "Finished" \notin TakerPreEvents /\ gate \notin TakerFailures
          /\ "Finished" \notin TakerFailures /\ gate # "Finished"
      BY DEF TakerPre, TakerFailures, TakerPreEvents
    <3>1. ASSUME NEW f \in TakerFailures, f \in tSaved
          PROVE  from = "Finish" /\ E = {"Finished"} /\ next = "None"
      BY <2>1, <2>3, <3>1, TakerRowFacts DEF TakerGateInv
    <3>2. (\E f \in TakerFailures : TakerRemembers(f)') => tCmd' \in {"Finish", "None"}
      BY <2>1, <2>3, <3>1, TakerRowFacts
    <3>3. (\E f \in TakerFailures : f \in tSaved')
              => /\ tLast' \in TakerFailures \cup {"Finished"}
                 /\ \A e \in TakerSwapEvent :
                        Listed(tQueue', e) => e \in TakerFailures \cup {"Finished"}
      BY <2>3, <3>1 DEF TakerGateInv
    <3>4. ASSUME gate \in tSaved
          PROVE  from \notin TakerPre /\ \A f \in TakerFailures : f \notin tSaved
      BY <2>3, <3>4 DEF TakerGateInv
    <3>5. TakerRemembers(gate)'
              => tCmd' \notin TakerPre /\ \A f \in TakerFailures : ~TakerRemembers(f)'
      <4>1. CASE gate \in tSaved
        BY <2>1, <2>3, <3>4, <4>1, TakerRowFacts
      <4>2. CASE gate \in E
        <5>1. from \in TakerPre /\ next = "SendTakerPayment" /\ E = {gate}
          BY <2>1, <4>2, TakerRowFacts
        <5>2. \A f \in TakerFailures : f \notin tSaved
          BY <2>1, <3>0, <3>1, <5>1
        <5> QED
          BY <2>3, <3>0, <5>1, <5>2
      <4> QED
        BY <2>3, <4>1, <4>2
    <3>6. gate \in tSaved'
              => tLast' \notin TakerPreEvents /\ \A e \in TakerPreEvents : ~Listed(tQueue', e)
      BY <2>1, <2>3, <3>4, TakerRowFacts DEF TakerGateInv
    <3>7. ASSUME NEW e \in TakerFailures \cup {gate}, e \in E PROVE tQueue' = <<e>>
      <4>1. E = {e}
        BY <2>1, <3>7, TakerRowFacts
      <4> QED
        BY <2>1, <2>3, <4>1 DEF TakerHandled
    <3> QED
      BY <2>3, <3>2, <3>3, <3>5, <3>6, <3>7 DEF TakerGateInv
  <2> QED
    BY <2>4, <2>5, <2>6
<1> QED
  BY <1>1, <1>2, <1>3, <1>4, <1>5, <1>6, TakerSteps

\* An untouched log stays in order.
LEMMA TakerLogStays ==
    ASSUME UNCHANGED takerVars, TakerLogInv
    PROVE  TakerLogInv'
BY DEF takerVars, TakerLogInv, TakerDataInv, TakerLastInv, TakerGateInv, TakerRemembers, Listed

\* The log is in order at the start and after every step of the swap.
LEMMA TakerLogAlways == Spec => []TakerLogInv
<1>1. Init => TakerLogInv
  <2> SUFFICES ASSUME Init PROVE TakerLogInv
    OBVIOUS
  <2>1. tUp /\ tCmd = "Start" /\ tQueue = <<>> /\ tSaved = {} /\ tLast = "None"
    BY DEF Init, TakerInit
  <2>2. \A e : ~Listed(tQueue, e) /\ ~TakerRemembers(e)
    BY <2>1 DEF Listed, TakerRemembers
  <2> QED
    BY <2>1, <2>2 DEF TakerLogInv, TakerDataInv, TakerLastInv, TakerGateInv, TakerHas, TakerNeeds,
                      Searched
<1>2. TypeOK /\ TakerLogInv /\ [Next]_vars => TakerLogInv'
  <2> SUFFICES ASSUME TypeOK, TakerLogInv, [Next]_vars PROVE TakerLogInv'
    OBVIOUS
  <2>1. CASE TakerStep
    BY <2>1, TakerLogStep DEF TakerStep, TypeOK
  <2>2. CASE ~TakerStep
    <3>1. UNCHANGED takerVars
      BY <2>2 DEF Next, MakerStep, WatcherStep, MineStep, EvictStep, TickStep, Terminating, vars
    <3> QED
      BY <3>1, TakerLogStays
  <2> QED
    BY <2>1, <2>2
<1> QED
  BY <1>1, <1>2, TypeCorrect, PTL DEF Spec

\* Whenever a handler of taker_swap.rs runs, whether it follows the handler before it or
\* taker_restart.rs has chosen it, the events whose data it unwraps have been applied, and
\* the secret is there when the maker's payment is to be spent.
THEOREM TakerHasData == Spec => []TakerHasDataForCommand
<1>1. TakerLogInv => TakerHasDataForCommand
  <2> SUFFICES ASSUME TakerLogInv, tQueue = <<>>, tUp PROVE TakerHasDataForCommand
    BY DEF TakerHasDataForCommand
  <2>1. \A e : TakerRemembers(e) => e \in tSaved
    BY DEF TakerRemembers
  <2>2. ~Listed(tQueue, "TakerPaymentSpent")
    BY ListTypes
  <2>3. TakerHas(tCmd, tSaved)
    BY <2>1, TakerHasMore DEF TakerLogInv, TakerDataInv
  <2> QED
    BY <2>2, <2>3 DEF TakerHas, TakerNeeds, Searched, MakerPaymentTaken, TakerHasDataForCommand,
                      TakerLogInv, TakerDataInv
<1> QED
  BY <1>1, TakerLogAlways, PTL

=============================================================================
