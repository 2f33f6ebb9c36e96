---------------------------- MODULE MakerSwapV2 -----------------------------
(***************************************************************************)
(* The maker's state machine of a v2 swap: maker_swap_v2.rs, run by        *)
(* storable_state_machine.rs.  on_changed of a state acts and returns the  *)
(* next state; its event is applied (on_event) and stored before the next  *)
(* on_changed.  A node that dies resumes from the last stored event and    *)
(* repeats on_changed of that state.                                       *)
(***************************************************************************)
EXTENDS SwapV2Ledger

VARIABLES
    mUp,        \* the machine runs
    mEv,        \* the last stored event: the state that on_changed runs for
    mNext,      \* the state on_changed returned and that is not stored yet
    mPhase,     \* "recv": the second wait of on_changed
    mWaitFrom,  \* recv_swap_v2_msg's started
    mInbox,     \* SwapV2MsgStore
    mLocked,    \* the swap's entry in SwapsContext::locked_amounts
    mStartedAt,
    mDone,      \* is_finished of the stored swap
    mFaults

makerVars == <<mUp, mEv, mNext, mPhase, mWaitFrom, mInbox, mLocked, mStartedAt, mDone, mFaults>>

MakerLastStates == {"Aborted", "Completed", "MakerPaymentRefunded"}

MakerSwapEvents ==
    {"Initialized", "WaitingForTakerFunding", "TakerFundingReceived",
     "MakerPaymentSentFundingSpendGenerated", "TakerPaymentReceived",
     "TakerPaymentReceivedAndPreimageValidationSkipped", "TakerPaymentSpent",
     "MakerPaymentRefundRequired", "MakerPaymentRefundRequiredTakerSecret"} \cup MakerLastStates

MakerTypeOK ==
    /\ {mUp, mLocked, mDone} \subseteq BOOLEAN
    /\ mEv \in MakerSwapEvents \cup {"None"}
    /\ mNext \in MakerSwapEvents \cup {"None"}
    /\ mPhase \in {"begin", "recv"}
    /\ {mWaitFrom, mStartedAt} \subseteq 0..MaxTime
    /\ mInbox \subseteq ToMaker
    /\ mFaults \in 0..MaxMakerFaults

MakerInit ==
    /\ mUp = TRUE /\ mEv = "None" /\ mNext = "None" /\ mPhase = "begin" /\ mWaitFrom = 0
    /\ mInbox = {} /\ mLocked = FALSE /\ mStartedAt = 0 /\ mDone = FALSE /\ mFaults = 0

-----------------------------------------------------------------------------
(* The frame of every handler.                                             *)

MakerIn(state) == mUp /\ ~mDone /\ mNext = "None" /\ mEv = state

MakerGoes(state) ==
    /\ mNext' = state
    /\ UNCHANGED <<mUp, mEv, mPhase, mWaitFrom, mLocked, mStartedAt, mDone>>

MakerFaulty == mFaults < MaxMakerFaults /\ mFaults' = mFaults + 1
MakerFine   == UNCHANGED mFaults

\* A message is taken out of the store, or stays there.
MakerTakes(m) == m \in mInbox /\ mInbox' = mInbox \ {m}
MakerKeeps    == UNCHANGED mInbox

\* The state changes without any effect outside of the machine.
MakerJust(state) == MakerGoes(state) /\ MakerFine /\ MakerKeeps /\ UNCHANGED ledgerVars

\* A call of on_changed fails, and with it the state.
MakerFails(state) == MakerGoes(state) /\ MakerFaulty /\ MakerKeeps /\ UNCHANGED ledgerVars

\* What on_event leaves of the locked amount when the machine enters a state.
maker_on_event(state) ==
    mLocked' = CASE state = "Initialized" -> TRUE
                 [] state = "MakerPaymentSentFundingSpendGenerated" -> FALSE
                 [] OTHER -> mLocked

\* Slip: a restarted machine does not lock its amount again.
maker_kickstart_unlocked(state) == mLocked' = FALSE

maker_on_kickstart_event(state) ==
    mLocked' = (state \in {"Initialized", "WaitingForTakerFunding", "TakerFundingReceived"})

\* Slip: the wait begins at a UNIX time where the others are relative.
maker_wait_from_unix(state) ==
    IF state \in {"Initialized", "WaitingForTakerFunding"} THEN Epoch + now ELSE 0

\* on_changed begins with a wait for a message in these states only.
MakerWaitFrom(state) == IF state \in {"Initialized", "WaitingForTakerFunding"} THEN now ELSE 0

\* change_state: on_event, then store_event, then on_changed of the next state.
MakerStoreEvent ==
    /\ mUp /\ mNext # "None"
    /\ maker_on_event(mNext)
    /\ mEv' = mNext /\ mNext' = "None" /\ mPhase' = "begin" /\ mWaitFrom' = MakerWaitFrom(mNext)
    /\ UNCHANGED <<mUp, mInbox, mStartedAt, mDone, mFaults, ledgerVars>>

\* on_finished: mark_finished, then clean_up_context, unless mark_finished fails.
MakerOnFinished ==
    /\ mUp /\ ~mDone /\ mNext = "None" /\ mEv \in MakerLastStates
    /\ \/ /\ mDone' = TRUE /\ mInbox' = {} /\ mLocked' = FALSE
          /\ MakerFine /\ UNCHANGED mUp
       \/ /\ mUp' = FALSE /\ MakerFaulty /\ UNCHANGED <<mDone, mInbox, mLocked>>
    /\ UNCHANGED <<mEv, mNext, mPhase, mWaitFrom, mStartedAt, ledgerVars>>

\* store_event fails: the machine stops after on_event, and nothing is cleaned up.
MakerStoreFails ==
    /\ mUp /\ mNext # "None" /\ MakerFaulty
    /\ maker_on_event(mNext)
    /\ mUp' = FALSE /\ mNext' = "None"
    /\ UNCHANGED <<mEv, mPhase, mWaitFrom, mInbox, mStartedAt, mDone, ledgerVars>>

\* The node dies; the store and the locked amounts are in memory.
MakerDies ==
    /\ mUp /\ ~mDone /\ MakerFaulty
    /\ mUp' = FALSE /\ mNext' = "None" /\ mInbox' = {} /\ mLocked' = FALSE
    /\ UNCHANGED <<mEv, mPhase, mWaitFrom, mStartedAt, mDone, ledgerVars>>

\* recreate_machine refuses a swap without events and one in a last state.
MakerKickstart ==
    /\ ~mUp /\ mEv \notin MakerLastStates \cup {"None"}
    /\ mUp' = TRUE /\ mPhase' = "begin" /\ mWaitFrom' = MakerWaitFrom(mEv) /\ mInbox' = {}
    /\ maker_on_kickstart_event(mEv)
    /\ UNCHANGED <<mEv, mNext, mStartedAt, mDone, mFaults, ledgerVars>>

\* Slip: the payment is announced before it is stored that it was sent.
maker_announces_early ==
    CASE ~mUp                               -> {}
      [] "MakerPaymentSentFundingSpendGenerated" \in {mEv, mNext} -> {"MakerPaymentInfo"}
      [] mEv = "Initialized"                -> {"MakerNegotiation"}
      [] mEv = "WaitingForTakerFunding"     -> {"MakerNegotiated"}
      [] OTHER                              -> {}

\* broadcast_swap_v2_msg_every repeats a message while on_changed holds its handle; the message
\* may still be on its way while the next state is being stored.
MakerSends ==
    CASE ~mUp                               -> {}
      [] mEv = "Initialized"                -> {"MakerNegotiation"}
      [] mEv = "WaitingForTakerFunding"     -> {"MakerNegotiated"}
      [] mEv = "MakerPaymentSentFundingSpendGenerated" -> {"MakerPaymentInfo"}
      [] OTHER                              -> {}

\* process_swap_v2_msg puts a message that the other side broadcasts into the store of a
\* running swap; a message may get lost, or arrive when nobody runs.
MakerReceives(sends) ==
    /\ mUp /\ ~mDone
    /\ \E msg \in sends \ mInbox : mInbox' = mInbox \cup {msg}
    /\ UNCHANGED <<mUp, mEv, mNext, mPhase, mWaitFrom, mLocked, mStartedAt, mDone,
                   mFaults, ledgerVars>>

-----------------------------------------------------------------------------
(* The states, in the order of a swap.                                     *)

MakerInitialize ==
    /\ mUp /\ mNext = "None" /\ mEv = "None" /\ now <= MaxStart
    /\ mStartedAt' = now
    /\ \/ mNext' = "Initialized" /\ MakerFine
       \/ mNext' = "Aborted" /\ MakerFaulty
    /\ UNCHANGED <<mUp, mEv, mPhase, mWaitFrom, mInbox, mLocked, mDone, ledgerVars>>

MakerInitialized(takerStartedAt) ==
    /\ MakerIn("Initialized")
    /\ \/ /\ MakerTakes("TakerNegotiation")
          /\ MakerGoes(IF AbsDiff(mStartedAt, takerStartedAt) > MaxStartedAtDiff
                       THEN "Aborted" ELSE "WaitingForTakerFunding")
          /\ MakerFine /\ UNCHANGED ledgerVars
       \/ /\ "TakerNegotiation" \notin mInbox
          /\ recv_timed_out(mWaitFrom, NegotiationTimeout)
          /\ MakerJust("Aborted")

MakerWaitingForTakerFunding ==
    /\ MakerIn("WaitingForTakerFunding")
    /\ \/ /\ MakerTakes("TakerFundingInfo")
          /\ MakerGoes("TakerFundingReceived")
          /\ MakerFine /\ UNCHANGED ledgerVars
       \/ /\ "TakerFundingInfo" \notin mInbox
          /\ recv_timed_out(mWaitFrom, NegotiationTimeout)
          /\ MakerJust("Aborted")

\* Slip: an error of send_maker_payment_v2 is answered by another attempt.
MakerSendAgain ==
    /\ MakerIn("TakerFundingReceived")
    /\ Seen("TakerFunding") /\ SendPayment("MakerPayment")
    /\ MakerKeeps /\ MakerFine
    /\ \/ MakerGoes("MakerPaymentSentFundingSpendGenerated")
       \/ Seen("MakerPayment") = FALSE /\ UNCHANGED <<mUp, mEv, mNext, mPhase, mWaitFrom,
                                                       mLocked, mStartedAt, mDone>>
    /\ UNCHANGED <<now, skip, reliable>>

\* The taker's funding is validated and visible (no confirmation is required), then the
\* maker's payment is sent, once.  A call that fails aborts the swap, also when the
\* transaction got through.
MakerTakerFundingReceived ==
    /\ MakerIn("TakerFundingReceived")
    /\ \/ /\ Seen("TakerFunding") /\ SendPayment("MakerPayment")
          /\ \/ MakerGoes("MakerPaymentSentFundingSpendGenerated") /\ MakerFine
             \/ MakerGoes("Aborted") /\ MakerFaulty
          /\ MakerKeeps /\ UNCHANGED <<now, skip, reliable>>
       \/ MakerFails("Aborted")

\* Slip: any spend of the funding is taken for its refund.
MakerTakesSpendForRefund ==
    /\ MakerIn("MakerPaymentSentFundingSpendGenerated")
    /\ \/ /\ now > taker_payment_conf_timeout(mStartedAt)
          /\ MakerJust("MakerPaymentRefundRequired")
       \/ /\ now <= taker_payment_conf_timeout(mStartedAt)
          /\ Seen("TakerPayment") \/ Seen("FundingRefund")
          /\ MakerJust("MakerPaymentRefundRequiredTakerSecret")

\* Slip: a funding that is not spent in time ends the swap.
MakerGivesUp ==
    /\ MakerIn("MakerPaymentSentFundingSpendGenerated")
    /\ \/ /\ now > taker_payment_conf_timeout(mStartedAt)
          /\ MakerJust("Aborted")
       \/ /\ Seen("TakerPayment")
          /\ MakerJust(IF skip THEN "TakerPaymentReceivedAndPreimageValidationSkipped"
                       ELSE "TakerPaymentReceived")

\* The loop looks at the clock first, then at the spend of the funding.  An RPC error is
\* another round; an error in the spend that was found is not.
MakerPaymentSentFundingSpendGenerated ==
    /\ MakerIn("MakerPaymentSentFundingSpendGenerated")
    /\ \/ /\ now > taker_payment_conf_timeout(mStartedAt)
          /\ MakerJust("MakerPaymentRefundRequired")
       \/ /\ now <= taker_payment_conf_timeout(mStartedAt)
          /\ \/ /\ Seen("TakerPayment")
                /\ MakerJust(IF skip THEN "TakerPaymentReceivedAndPreimageValidationSkipped"
                             ELSE "TakerPaymentReceived")
             \/ /\ Seen("FundingRefund")
                /\ MakerJust("MakerPaymentRefundRequiredTakerSecret")
             \/ MakerFails("MakerPaymentRefundRequired")

\* sign_and_broadcast_taker_payment_spend: the maker's secret is public from here on.
MakerSpendsTakerPayment ==
    \/ /\ SpendOk("TakerPaymentSpend")
       /\ \/ MakerGoes("TakerPaymentSpent") /\ MakerFine
          \/ MakerGoes("MakerPaymentRefundRequired") /\ MakerFaulty
       /\ UNCHANGED <<now, skip, reliable>>
    \/ /\ SpendRefused("TakerPaymentSpend")
       /\ MakerGoes("MakerPaymentRefundRequired") /\ MakerFine
       /\ UNCHANGED <<now, skip, reliable>>
    \/ /\ MakerGoes("MakerPaymentRefundRequired") /\ MakerFaulty
       /\ UNCHANGED ledgerVars

\* The taker's payment confirms in time; then the wait for the taker's preimage is given the
\* deadline, a UNIX time, as a duration.  Nothing looks at the clock before the spend.
MakerTakerPaymentReceived ==
    /\ MakerIn("TakerPaymentReceived")
    /\ \/ /\ mPhase = "begin"
          /\ wait_for_confirmations("TakerPayment", taker_payment_conf_timeout(mStartedAt))
          /\ mPhase' = "recv" /\ mWaitFrom' = now
          /\ UNCHANGED <<mUp, mEv, mNext, mInbox, mLocked, mStartedAt, mDone, mFaults,
                         ledgerVars>>
       \/ /\ mPhase = "begin" /\ now > taker_payment_conf_timeout(mStartedAt)
          /\ MakerJust("MakerPaymentRefundRequired")
       \/ /\ mPhase = "begin" /\ MakerFails("MakerPaymentRefundRequired")
       \/ /\ mPhase = "recv" /\ MakerTakes("TakerPaymentSpendPreimage")
          /\ MakerSpendsTakerPayment
       \/ /\ mPhase = "recv" /\ "TakerPaymentSpendPreimage" \notin mInbox
          /\ recv_timed_out(mWaitFrom, Epoch + taker_payment_conf_timeout(mStartedAt))
          /\ MakerJust("MakerPaymentRefundRequired")

MakerTakerPaymentReceivedAndPreimageValidationSkipped ==
    /\ MakerIn("TakerPaymentReceivedAndPreimageValidationSkipped")
    /\ \/ /\ wait_for_confirmations("TakerPayment", taker_payment_conf_timeout(mStartedAt))
          /\ MakerKeeps /\ MakerSpendsTakerPayment
       \/ /\ now > taker_payment_conf_timeout(mStartedAt)
          /\ MakerJust("MakerPaymentRefundRequired")
       \/ MakerFails("MakerPaymentRefundRequired")

MakerTakerPaymentSpent ==
    /\ MakerIn("TakerPaymentSpent")
    /\ \/ /\ wait_for_confirmations("TakerPaymentSpend", maker_payment_locktime(mStartedAt))
          /\ MakerJust("Completed")
       \/ /\ now > maker_payment_locktime(mStartedAt)
          /\ MakerJust("MakerPaymentRefundRequired")
       \/ MakerFails("MakerPaymentRefundRequired")

\* A refund is sent once: a refused or failed one aborts the swap.
MakerRefunds(t) ==
    \/ /\ SpendOk(t)
       /\ \/ MakerGoes("MakerPaymentRefunded") /\ MakerFine
          \/ MakerGoes("Aborted") /\ MakerFaulty
       /\ MakerKeeps /\ UNCHANGED <<now, skip, reliable>>
    \/ /\ SpendRefused(t)
       /\ MakerGoes("Aborted") /\ MakerFine /\ MakerKeeps /\ UNCHANGED <<now, skip, reliable>>
    \/ MakerFails("Aborted")

\* Slip: the timelock is not waited for.
MakerRefundsAtOnce ==
    \/ MakerIn("MakerPaymentRefundRequiredTakerSecret") /\ MakerRefunds("MakerPaymentSecretRefund")
    \/ MakerIn("MakerPaymentRefundRequired") /\ MakerRefunds("MakerPaymentRefund")

MakerPaymentRefundRequired ==
    \/ MakerIn("MakerPaymentRefundRequiredTakerSecret") /\ MakerRefunds("MakerPaymentSecretRefund")
    \/ /\ MakerIn("MakerPaymentRefundRequired")
       /\ can_refund_htlc(maker_payment_locktime(mStartedAt))
       /\ MakerRefunds("MakerPaymentRefund")

MakerHandles(takerStartedAt) ==
    \/ MakerInitialize
    \/ MakerInitialized(takerStartedAt)
    \/ MakerWaitingForTakerFunding
    \/ MakerTakerFundingReceived
    \/ MakerPaymentSentFundingSpendGenerated
    \/ MakerTakerPaymentReceived
    \/ MakerTakerPaymentReceivedAndPreimageValidationSkipped
    \/ MakerTakerPaymentSpent
    \/ MakerPaymentRefundRequired
    \/ MakerStoreEvent
    \/ MakerOnFinished

\* A message is there to be taken, or its wait is over.
MakerHears(m) == m \in mInbox \/ recv_timed_out(mWaitFrom, NegotiationTimeout)

\* The machine has something to do now, be it to give up waiting: what NobodyLate waits for.
MakerHasWork ==
    \/ mUp /\ mNext # "None"
    \/ mUp /\ mEv = "None" /\ now <= MaxStart
    \/ MakerIn("Initialized") /\ MakerHears("TakerNegotiation")
    \/ MakerIn("WaitingForTakerFunding") /\ MakerHears("TakerFundingInfo")
    \/ MakerIn("TakerFundingReceived") /\ Seen("TakerFunding")
    \/ /\ MakerIn("MakerPaymentSentFundingSpendGenerated")
       /\ \/ Seen("TakerPayment") \/ Seen("FundingRefund")
          \/ now > taker_payment_conf_timeout(mStartedAt)
    \/ /\ MakerIn("TakerPaymentReceived") /\ mPhase = "begin"
       /\ Mined("TakerPayment") \/ now > taker_payment_conf_timeout(mStartedAt)
    \/ /\ MakerIn("TakerPaymentReceived") /\ mPhase = "recv"
       /\ \/ "TakerPaymentSpendPreimage" \in mInbox
          \/ recv_timed_out(mWaitFrom, Epoch + taker_payment_conf_timeout(mStartedAt))
    \/ /\ MakerIn("TakerPaymentReceivedAndPreimageValidationSkipped")
       /\ Mined("TakerPayment") \/ now > taker_payment_conf_timeout(mStartedAt)
    \/ /\ MakerIn("TakerPaymentSpent")
       /\ Mined("TakerPaymentSpend") \/ now > maker_payment_locktime(mStartedAt)
    \/ MakerIn("MakerPaymentRefundRequiredTakerSecret")
    \/ MakerIn("MakerPaymentRefundRequired") /\ now > maker_payment_locktime(mStartedAt)
    \/ \E state \in MakerLastStates : MakerIn(state)

\* A message is on its way to the machine.
MakerHasMail(sends) == mUp /\ ~mDone /\ sends \ mInbox # {}

=============================================================================
