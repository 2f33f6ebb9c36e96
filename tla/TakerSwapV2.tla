---------------------------- MODULE TakerSwapV2 -----------------------------
(***************************************************************************)
(* The taker's state machine of a v2 swap: taker_swap_v2.rs, with the      *)
(* policy the order matcher gives it: the maker's payment must confirm     *)
(* before the funding is spent.  See MakerSwapV2 for how a machine runs.   *)
(***************************************************************************)
EXTENDS SwapV2Ledger

VARIABLES tUp, tEv, tNext, tPhase, tWaitFrom, tInbox, tLocked, tStartedAt, tDone, tFaults

takerVars == <<tUp, tEv, tNext, tPhase, tWaitFrom, tInbox, tLocked, tStartedAt, tDone, tFaults>>

TakerLastStates == {"Aborted", "Completed", "TakerFundingRefunded", "TakerPaymentRefunded"}

TakerSwapEvents ==
    {"Initialized", "Negotiated", "TakerFundingSent", "TakerFundingRefundRequired",
     "MakerPaymentAndFundingSpendPreimgReceived", "MakerPaymentConfirmed", "TakerPaymentSent",
     "TakerPaymentSentAndPreimageSendingSkipped", "TakerPaymentRefundRequired",
     "TakerPaymentSpent", "MakerPaymentSpent"} \cup TakerLastStates

TakerTypeOK ==
    /\ {tUp, tLocked, tDone} \subseteq BOOLEAN
    /\ tEv \in TakerSwapEvents \cup {"None"}
    /\ tNext \in TakerSwapEvents \cup {"None"}
    /\ tPhase \in {"begin", "recv"}
    /\ {tWaitFrom, tStartedAt} \subseteq 0..MaxTime
    /\ tInbox \subseteq ToTaker
    /\ tFaults \in 0..MaxTakerFaults

TakerInit ==
    /\ tUp = TRUE /\ tEv = "None" /\ tNext = "None" /\ tPhase = "begin" /\ tWaitFrom = 0
    /\ tInbox = {} /\ tLocked = FALSE /\ tStartedAt = 0 /\ tDone = FALSE /\ tFaults = 0

-----------------------------------------------------------------------------
TakerIn(state) == tUp /\ ~tDone /\ tNext = "None" /\ tEv = state

TakerGoes(state) ==
    /\ tNext' = state
    /\ UNCHANGED <<tUp, tEv, tPhase, tWaitFrom, tLocked, tStartedAt, tDone>>

TakerFaulty == tFaults < MaxTakerFaults /\ tFaults' = tFaults + 1
TakerFine   == UNCHANGED tFaults

TakerTakes(m) == m \in tInbox /\ tInbox' = tInbox \ {m}
TakerKeeps    == UNCHANGED tInbox

TakerJust(state)  == TakerGoes(state) /\ TakerFine /\ TakerKeeps /\ UNCHANGED ledgerVars
TakerFails(state) == TakerGoes(state) /\ TakerFaulty /\ TakerKeeps /\ UNCHANGED ledgerVars

taker_on_event(state) ==
    tLocked' = CASE state = "Initialized"      -> TRUE
                 [] state = "TakerFundingSent" -> FALSE
                 [] OTHER -> tLocked

taker_on_kickstart_event(state) == tLocked' = (state \in {"Initialized", "Negotiated"})

\* on_changed begins with a wait for a message in these states only.
TakerWaitFrom(state) == IF state \in {"Initialized", "TakerFundingSent"} THEN now ELSE 0

TakerStoreEvent ==
    /\ tUp /\ tNext # "None"
    /\ taker_on_event(tNext)
    /\ tEv' = tNext /\ tNext' = "None" /\ tPhase' = "begin" /\ tWaitFrom' = TakerWaitFrom(tNext)
    /\ UNCHANGED <<tUp, tInbox, tStartedAt, tDone, tFaults, ledgerVars>>

\* on_finished: mark_finished, then clean_up_context, unless mark_finished fails.
TakerOnFinished ==
    /\ tUp /\ ~tDone /\ tNext = "None" /\ tEv \in TakerLastStates
    /\ \/ /\ tDone' = TRUE /\ tInbox' = {} /\ tLocked' = FALSE
          /\ TakerFine /\ UNCHANGED tUp
       \/ /\ tUp' = FALSE /\ TakerFaulty /\ UNCHANGED <<tDone, tInbox, tLocked>>
    /\ UNCHANGED <<tEv, tNext, tPhase, tWaitFrom, tStartedAt, ledgerVars>>

TakerStoreFails ==
    /\ tUp /\ tNext # "None" /\ TakerFaulty
    /\ taker_on_event(tNext)
    /\ tUp' = FALSE /\ tNext' = "None"
    /\ UNCHANGED <<tEv, tPhase, tWaitFrom, tInbox, tStartedAt, tDone, ledgerVars>>

TakerDies ==
    /\ tUp /\ ~tDone /\ TakerFaulty
    /\ tUp' = FALSE /\ tNext' = "None" /\ tInbox' = {} /\ tLocked' = FALSE
    /\ UNCHANGED <<tEv, tPhase, tWaitFrom, tStartedAt, tDone, ledgerVars>>

TakerKickstart ==
    /\ ~tUp /\ tEv \notin TakerLastStates \cup {"None"}
    /\ tUp' = TRUE /\ tPhase' = "begin" /\ tWaitFrom' = TakerWaitFrom(tEv) /\ tInbox' = {}
    /\ taker_on_kickstart_event(tEv)
    /\ UNCHANGED <<tEv, tNext, tStartedAt, tDone, tFaults, ledgerVars>>

\* A message may still be on its way while the next state is being stored.
TakerSends ==
    CASE ~tUp                                    -> {}
      [] tEv = "Initialized" /\ tPhase = "recv"  -> {"TakerNegotiation"}
      [] tEv = "TakerFundingSent"                -> {"TakerFundingInfo"}
      [] tEv = "TakerPaymentSent"                -> {"TakerPaymentSpendPreimage"}
      [] OTHER                                   -> {}

\* process_swap_v2_msg puts a message that the other side broadcasts into the store of a
\* running swap; a message may get lost, or arrive when nobody runs.
TakerReceives(sends) ==
    /\ tUp /\ ~tDone
    /\ \E msg \in sends \ tInbox : tInbox' = tInbox \cup {msg}
    /\ UNCHANGED <<tUp, tEv, tNext, tPhase, tWaitFrom, tLocked, tStartedAt, tDone,
                   tFaults, ledgerVars>>

-----------------------------------------------------------------------------
TakerInitialize ==
    /\ tUp /\ tNext = "None" /\ tEv = "None" /\ now <= MaxStart
    /\ tStartedAt' = now
    /\ \/ tNext' = "Initialized" /\ TakerFine
       \/ tNext' = "Aborted" /\ TakerFaulty
    /\ UNCHANGED <<tUp, tEv, tPhase, tWaitFrom, tInbox, tLocked, tDone, ledgerVars>>

\* The maker's offer is checked, answered, and the answer acknowledged.
TakerInitialized(makerStartedAt) ==
    /\ TakerIn("Initialized")
    /\ \/ /\ tPhase = "begin" /\ TakerTakes("MakerNegotiation")
          /\ AbsDiff(tStartedAt, makerStartedAt) <= MaxStartedAtDiff
          /\ tPhase' = "recv" /\ tWaitFrom' = now
          /\ UNCHANGED <<tUp, tEv, tNext, tLocked, tStartedAt, tDone, tFaults, ledgerVars>>
       \/ /\ tPhase = "begin" /\ TakerTakes("MakerNegotiation")
          /\ AbsDiff(tStartedAt, makerStartedAt) > MaxStartedAtDiff
          /\ TakerGoes("Aborted") /\ TakerFine /\ UNCHANGED ledgerVars
       \/ /\ tPhase = "recv" /\ TakerTakes("MakerNegotiated")
          /\ TakerGoes("Negotiated") /\ TakerFine /\ UNCHANGED ledgerVars
       \/ /\ (IF tPhase = "begin" THEN "MakerNegotiation" ELSE "MakerNegotiated") \notin tInbox
          /\ recv_timed_out(tWaitFrom, NegotiationTimeout)
          /\ TakerJust("Aborted")

TakerNegotiated ==
    /\ TakerIn("Negotiated")
    /\ \/ /\ SendPayment("TakerFunding")
          /\ \/ TakerGoes("TakerFundingSent") /\ TakerFine
             \/ TakerGoes("Aborted") /\ TakerFaulty
          /\ TakerKeeps /\ UNCHANGED <<now, skip, reliable>>
       \/ TakerFails("Aborted")

\* Slip: a maker that does not answer ends the swap.
TakerGivesUp ==
    /\ TakerIn("TakerFundingSent")
    /\ \/ /\ TakerTakes("MakerPaymentInfo")
          /\ TakerGoes("MakerPaymentAndFundingSpendPreimgReceived")
          /\ TakerFine /\ UNCHANGED ledgerVars
       \/ /\ "MakerPaymentInfo" \notin tInbox
          /\ recv_timed_out(tWaitFrom, NegotiationTimeout)
          /\ TakerJust("Aborted")

TakerFundingSent ==
    /\ TakerIn("TakerFundingSent")
    /\ \/ /\ TakerTakes("MakerPaymentInfo")
          /\ TakerGoes("MakerPaymentAndFundingSpendPreimgReceived")
          /\ TakerFine /\ UNCHANGED ledgerVars
       \/ /\ "MakerPaymentInfo" \notin tInbox
          /\ recv_timed_out(tWaitFrom, NegotiationTimeout)
          /\ TakerJust("TakerFundingRefundRequired")

\* Validation and visibility, then confirmation; each failure leads to the refund.
TakerMakerPaymentAndFundingSpendPreimgReceived ==
    /\ TakerIn("MakerPaymentAndFundingSpendPreimgReceived")
    /\ \/ /\ wait_for_confirmations("MakerPayment", maker_payment_conf_timeout(tStartedAt))
          /\ TakerJust("MakerPaymentConfirmed")
       \/ /\ ~Seen("MakerPayment") \/ now > maker_payment_conf_timeout(tStartedAt)
          /\ TakerJust("TakerFundingRefundRequired")
       \/ TakerFails("TakerFundingRefundRequired")

\* sign_and_send_taker_funding_spend.  Any error is taken to mean that it was not sent.
TakerMakerPaymentConfirmed ==
    /\ TakerIn("MakerPaymentConfirmed")
    /\ \/ /\ SpendOk("TakerPayment")
          /\ \/ /\ TakerGoes(IF skip THEN "TakerPaymentSentAndPreimageSendingSkipped"
                             ELSE "TakerPaymentSent")
                /\ TakerFine
             \/ TakerGoes("TakerFundingRefundRequired") /\ TakerFaulty
          /\ TakerKeeps /\ UNCHANGED <<now, skip, reliable>>
       \/ /\ SpendRefused("TakerPayment")
          /\ TakerGoes("TakerFundingRefundRequired")
          /\ TakerFine /\ TakerKeeps /\ UNCHANGED <<now, skip, reliable>>
       \/ TakerFails("TakerFundingRefundRequired")

\* find_taker_payment_spend_tx looks at the chain before the clock.
FindTakerPaymentSpend ==
    \/ Seen("TakerPaymentSpend") /\ TakerJust("TakerPaymentSpent")
    \/ /\ ~Seen("TakerPaymentSpend") /\ now > taker_payment_locktime(tStartedAt)
       /\ TakerJust("TakerPaymentRefundRequired")

TakerPaymentSent ==
    /\ TakerIn("TakerPaymentSent")
    /\ \/ FindTakerPaymentSpend
       \/ TakerFails("TakerPaymentRefundRequired")

TakerPaymentSentAndPreimageSendingSkipped ==
    /\ TakerIn("TakerPaymentSentAndPreimageSendingSkipped")
    /\ \/ FindTakerPaymentSpend
       \/ TakerFails("TakerPaymentRefundRequired")

\* extract_secret_v2, then spend_maker_payment_v2, once.
TakerTakerPaymentSpent ==
    /\ TakerIn("TakerPaymentSpent")
    /\ \/ /\ SpendOk("MakerPaymentSpend")
          /\ \/ TakerGoes("MakerPaymentSpent") /\ TakerFine
             \/ TakerGoes("Aborted") /\ TakerFaulty
          /\ TakerKeeps /\ UNCHANGED <<now, skip, reliable>>
       \/ /\ SpendRefused("MakerPaymentSpend")
          /\ TakerGoes("Aborted") /\ TakerFine /\ TakerKeeps /\ UNCHANGED <<now, skip, reliable>>
       \/ TakerFails("Aborted")

TakerMakerPaymentSpent ==
    /\ TakerIn("MakerPaymentSpent")
    /\ \/ /\ wait_for_confirmations("MakerPaymentSpend", taker_payment_locktime(tStartedAt))
          /\ TakerJust("Completed")
       \/ /\ now > taker_payment_locktime(tStartedAt)
          /\ TakerJust("TakerPaymentRefundRequired")
       \/ TakerFails("TakerPaymentRefundRequired")

\* A refund is sent once: a refused or failed one aborts the swap.
TakerRefunds(t, refunded) ==
    \/ /\ SpendOk(t)
       /\ \/ TakerGoes(refunded) /\ TakerFine
          \/ TakerGoes("Aborted") /\ TakerFaulty
       /\ TakerKeeps /\ UNCHANGED <<now, skip, reliable>>
    \/ /\ SpendRefused(t)
       /\ TakerGoes("Aborted") /\ TakerFine /\ TakerKeeps /\ UNCHANGED <<now, skip, reliable>>
    \/ TakerFails("Aborted")

\* refund_taker_funding_secret shows the taker's secret.
TakerFundingRefundRequired ==
    /\ TakerIn("TakerFundingRefundRequired")
    /\ TakerRefunds("FundingRefund", "TakerFundingRefunded")

TakerPaymentRefundRequired ==
    /\ TakerIn("TakerPaymentRefundRequired")
    /\ can_refund_htlc(taker_payment_locktime(tStartedAt))
    /\ TakerRefunds("TakerPaymentRefund", "TakerPaymentRefunded")

TakerHandles(makerStartedAt) ==
    \/ TakerInitialize
    \/ TakerInitialized(makerStartedAt)
    \/ TakerNegotiated
    \/ TakerFundingSent
    \/ TakerMakerPaymentAndFundingSpendPreimgReceived
    \/ TakerMakerPaymentConfirmed
    \/ TakerPaymentSent
    \/ TakerPaymentSentAndPreimageSendingSkipped
    \/ TakerTakerPaymentSpent
    \/ TakerMakerPaymentSpent
    \/ TakerFundingRefundRequired
    \/ TakerPaymentRefundRequired
    \/ TakerStoreEvent
    \/ TakerOnFinished

TakerHears(m) == m \in tInbox \/ recv_timed_out(tWaitFrom, NegotiationTimeout)

\* The machine has something to do now, be it to give up waiting: what NobodyLate waits for.
TakerHasWork ==
    \/ tUp /\ tNext # "None"
    \/ tUp /\ tEv = "None" /\ now <= MaxStart
    \/ TakerIn("Initialized") /\ tPhase = "begin" /\ TakerHears("MakerNegotiation")
    \/ TakerIn("Initialized") /\ tPhase = "recv" /\ TakerHears("MakerNegotiated")
    \/ TakerIn("Negotiated")
    \/ TakerIn("TakerFundingSent") /\ TakerHears("MakerPaymentInfo")
    \/ /\ TakerIn("MakerPaymentAndFundingSpendPreimgReceived")
       /\ \/ Mined("MakerPayment") \/ ~Seen("MakerPayment")
          \/ now > maker_payment_conf_timeout(tStartedAt)
    \/ TakerIn("MakerPaymentConfirmed")
    \/ /\ TakerIn("TakerPaymentSent") \/ TakerIn("TakerPaymentSentAndPreimageSendingSkipped")
       /\ Seen("TakerPaymentSpend") \/ now > taker_payment_locktime(tStartedAt)
    \/ TakerIn("TakerPaymentSpent")
    \/ /\ TakerIn("MakerPaymentSpent")
       /\ Mined("MakerPaymentSpend") \/ now > taker_payment_locktime(tStartedAt)
    \/ TakerIn("TakerFundingRefundRequired")
    \/ TakerIn("TakerPaymentRefundRequired") /\ now > taker_payment_locktime(tStartedAt)
    \/ \E state \in TakerLastStates : TakerIn(state)

TakerHasMail(sends) == tUp /\ ~tDone /\ sends \ tInbox # {}

=============================================================================
