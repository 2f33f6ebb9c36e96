---------------------------- MODULE SwapV2Proofs ----------------------------
(***************************************************************************)
(* Proofs about SwapV2 for every value of its constants: any lock time,    *)
(* any timeouts, any number of deaths and failed calls, messages that get  *)
(* lost, and nodes that are down for as long as they like.                 *)
(***************************************************************************)
EXTENDS SwapV2, TLAPS

-----------------------------------------------------------------------------
(* Types.                                                                  *)

TxStates == {"none", "mempool", "mined"}

\* The transactions, and what each of them spends.
LEMMA TxFacts ==
    /\ Spends = {"TakerPayment", "FundingRefund", "TakerPaymentSpend", "TakerPaymentRefund",
                 "MakerPaymentSpend", "MakerPaymentRefund", "MakerPaymentSecretRefund"}
    /\ Txs = {"TakerFunding", "MakerPayment"} \cup Spends
    /\ Parent["TakerPayment"] = "TakerFunding" /\ Parent["FundingRefund"] = "TakerFunding"
    /\ Parent["TakerPaymentSpend"] = "TakerPayment"
    /\ Parent["TakerPaymentRefund"] = "TakerPayment"
    /\ Parent["MakerPaymentSpend"] = "MakerPayment"
    /\ Parent["MakerPaymentRefund"] = "MakerPayment"
    /\ Parent["MakerPaymentSecretRefund"] = "MakerPayment"
BY DEF Spends, Txs, Payments, Parent

\* What the calls of both parties do to the chains keeps them well typed.
LEMMA CallTypes ==
    ASSUME LedgerTypeOK
    PROVE  /\ \A p \in Payments : SendPayment(p) =>
                  /\ tx' \in [Txs -> TxStates] /\ forgotten' \in [Payments -> Nat]
                  /\ secrets' \subseteq {"maker", "taker"}
           /\ \A t \in Txs : SpendOk(t) \/ SpendRefused(t) =>
                  /\ tx' \in [Txs -> TxStates] /\ forgotten' \in [Payments -> Nat]
                  /\ secrets' \subseteq {"maker", "taker"}
BY DEF LedgerTypeOK, SendPayment, SpendOk, SpendRefused, Shows, TxStates, Txs

\* The chains stay well typed when the clock and what is fixed do not change.
LEMMA LedgerKeepsTypes ==
    ASSUME LedgerTypeOK, UNCHANGED <<now, skip, reliable>>,
           tx' \in [Txs -> TxStates], forgotten' \in [Payments -> Nat],
           secrets' \subseteq {"maker", "taker"}
    PROVE  LedgerTypeOK'
BY DEF LedgerTypeOK, TxStates

\* One handler of the maker, in the form the state machine gives it: the next state.
LEMMA MakerGoesTypes ==
    ASSUME MakerTypeOK, NEW s \in MakerSwapEvents, MakerGoes(s),
           mFaults' \in 0..MaxMakerFaults, mInbox' \subseteq mInbox
    PROVE  MakerTypeOK'
BY DEF MakerTypeOK, MakerGoes

\* The same for the taker.
LEMMA TakerGoesTypes ==
    ASSUME TakerTypeOK, NEW s \in TakerSwapEvents, TakerGoes(s),
           tFaults' \in 0..MaxTakerFaults, tInbox' \subseteq tInbox
    PROVE  TakerTypeOK'
BY DEF TakerTypeOK, TakerGoes

-----------------------------------------------------------------------------
(* What a step of one party may do: to the chains, and to what it knows.   *)

Broadcasts(t) == SpendOk(t)
Pays          == \E p \in Payments : tx' = [tx EXCEPT ![p] = "mempool"] /\ secrets' = secrets

MakerHasSecret == "MakerPaymentRefundRequiredTakerSecret" \in {mEv, mNext}
TakerHasSecret == "TakerPaymentSpent" \in {tEv, tNext}

MakerMove ==
    /\ LedgerTypeOK' /\ MakerTypeOK'
    /\ \/ UNCHANGED <<tx, secrets>> \/ Pays
       \/ Broadcasts("TakerPaymentSpend") \/ Broadcasts("MakerPaymentRefund")
       \/ MakerHasSecret /\ Broadcasts("MakerPaymentSecretRefund")
    /\ MakerHasSecret' => MakerHasSecret \/ Seen("FundingRefund")

TakerMove ==
    /\ LedgerTypeOK' /\ TakerTypeOK'
    /\ \/ UNCHANGED <<tx, secrets>> \/ Pays
       \/ Broadcasts("TakerPayment") \/ Broadcasts("FundingRefund")
       \/ Broadcasts("TakerPaymentRefund")
       \/ TakerHasSecret /\ Broadcasts("MakerPaymentSpend")
    /\ TakerHasSecret' => TakerHasSecret \/ Seen("TakerPaymentSpend")

\* A step of the maker that changes nothing on chain and goes to another state.
LEMMA MakerSilent ==
    ASSUME LedgerTypeOK, MakerTypeOK, UNCHANGED ledgerVars,
           NEW s \in MakerSwapEvents, MakerGoes(s),
           s = "MakerPaymentRefundRequiredTakerSecret" => Seen("FundingRefund"),
           mFaults' \in 0..MaxMakerFaults, mInbox' \subseteq mInbox
    PROVE  MakerMove
<1>1. LedgerTypeOK'
    BY DEF LedgerTypeOK, ledgerVars
<1>2. MakerTypeOK'
    BY MakerGoesTypes
<1>. QED
    BY <1>1, <1>2 DEF MakerMove, MakerHasSecret, MakerGoes, ledgerVars

\* MakerJust and MakerFails are such steps.
LEMMA MakerJustFails ==
    ASSUME LedgerTypeOK, MakerTypeOK, NEW s \in MakerSwapEvents,
           s = "MakerPaymentRefundRequiredTakerSecret" => Seen("FundingRefund"),
           MakerJust(s) \/ MakerFails(s)
    PROVE  MakerMove
<1>1. mFaults' \in 0..MaxMakerFaults /\ mInbox' \subseteq mInbox
    BY V2TimesAssumption DEF MakerTypeOK, MakerJust, MakerFails, MakerFine, MakerFaulty, MakerKeeps
<1>. QED
    BY <1>1, MakerSilent DEF MakerJust, MakerFails

\* A step of the maker that makes a call and goes to another state.
LEMMA MakerCall ==
    ASSUME LedgerTypeOK, MakerTypeOK, UNCHANGED <<now, skip, reliable>>,
           NEW s \in MakerSwapEvents \ {"MakerPaymentRefundRequiredTakerSecret"}, MakerGoes(s),
           mFaults' \in 0..MaxMakerFaults, mInbox' \subseteq mInbox,
           NEW t \in Txs,
           \/ SendPayment(t) /\ t \in Payments
           \/ SpendRefused(t)
           \/ SpendOk(t) /\ t \in {"TakerPaymentSpend", "MakerPaymentRefund"}
           \/ SpendOk(t) /\ MakerHasSecret /\ t = "MakerPaymentSecretRefund"
    PROVE  MakerMove
<1>1. LedgerTypeOK'
    BY CallTypes, LedgerKeepsTypes
<1>2. MakerTypeOK'
    BY MakerGoesTypes
<1>3. MakerHasSecret' => MakerHasSecret
    BY DEF MakerHasSecret, MakerGoes
<1>4. CASE SendPayment(t) /\ t \in Payments
    BY <1>1, <1>2, <1>3, <1>4 DEF MakerMove, Pays, SendPayment
<1>5. CASE SpendOk(t) /\ \/ t \in {"TakerPaymentSpend", "MakerPaymentRefund"}
                         \/ MakerHasSecret /\ t = "MakerPaymentSecretRefund"
    BY <1>1, <1>2, <1>3, <1>5 DEF MakerMove, Broadcasts, SpendOk
<1>6. CASE SpendRefused(t)
    BY <1>1, <1>2, <1>3, <1>6 DEF MakerMove, SpendRefused
<1>. QED
    BY <1>4, <1>5, <1>6

\* Every step of the maker's machine is a move of the maker.
LEMMA MakerMoves ==
    ASSUME LedgerTypeOK, MakerTypeOK, NEW u, MakerHandles(u)
    PROVE  MakerMove
<1>. USE V2TimesAssumption
<1>1. CASE MakerInitialize
    BY <1>1 DEF MakerInitialize, MakerFine, MakerFaulty, MakerMove, MakerHasSecret,
                MakerTypeOK, LedgerTypeOK, ledgerVars, MakerSwapEvents, MakerLastStates
<1>2. CASE MakerInitialized(u)
    BY <1>2, MakerSilent, MakerJustFails
       DEF MakerInitialized, MakerTakes, MakerFine, MakerTypeOK, MakerSwapEvents, MakerLastStates
<1>3. CASE MakerWaitingForTakerFunding
    BY <1>3, MakerSilent, MakerJustFails
       DEF MakerWaitingForTakerFunding, MakerTakes, MakerFine, MakerTypeOK, MakerSwapEvents,
           MakerLastStates
<1>4. CASE MakerTakerFundingReceived
    BY <1>4, MakerCall, MakerJustFails, TxFacts
       DEF MakerTakerFundingReceived, MakerFine, MakerFaulty, MakerKeeps, MakerTypeOK,
           MakerSwapEvents, MakerLastStates, Payments
<1>5. CASE MakerPaymentSentFundingSpendGenerated
    BY <1>5, MakerJustFails
       DEF MakerPaymentSentFundingSpendGenerated, MakerSwapEvents
<1>6. ASSUME MakerSpendsTakerPayment, mInbox' \subseteq mInbox
      PROVE  MakerMove
  <2>1. mFaults' \in 0..MaxMakerFaults
    BY <1>6 DEF MakerSpendsTakerPayment, MakerFine, MakerFaulty, MakerTypeOK
  <2>2. \/ UNCHANGED ledgerVars
        \/ UNCHANGED <<now, skip, reliable>>
              /\ (SpendOk("TakerPaymentSpend") \/ SpendRefused("TakerPaymentSpend"))
    BY <1>6 DEF MakerSpendsTakerPayment
  <2>3. PICK s \in {"TakerPaymentSpent", "MakerPaymentRefundRequired"} : MakerGoes(s)
    BY <1>6 DEF MakerSpendsTakerPayment
  <2>. QED
    BY <1>6, <2>1, <2>2, <2>3, MakerCall, MakerSilent, TxFacts
       DEF MakerSwapEvents, Payments
<1>7. CASE MakerTakerPaymentReceived
  <2>1. CASE /\ mPhase' = "recv" /\ mWaitFrom' = now
             /\ UNCHANGED <<mUp, mEv, mNext, mInbox, mLocked, mStartedAt, mDone, mFaults,
                            ledgerVars>>
    BY <2>1 DEF MakerMove, MakerHasSecret, MakerTypeOK, LedgerTypeOK, ledgerVars
  <2>. QED
    BY <1>6, <1>7, <2>1, MakerJustFails
       DEF MakerTakerPaymentReceived, MakerTakes, MakerSwapEvents
<1>8. CASE MakerTakerPaymentReceivedAndPreimageValidationSkipped
    BY <1>6, <1>8, MakerJustFails
       DEF MakerTakerPaymentReceivedAndPreimageValidationSkipped, MakerKeeps, MakerSwapEvents
<1>9. CASE MakerTakerPaymentSpent
    BY <1>9, MakerJustFails DEF MakerTakerPaymentSpent, MakerSwapEvents, MakerLastStates
<1>10. ASSUME NEW t \in {"MakerPaymentRefund", "MakerPaymentSecretRefund"}, MakerRefunds(t),
              t = "MakerPaymentSecretRefund" => MakerHasSecret
       PROVE  MakerMove
  <2>1. CASE MakerFails("Aborted")
    BY <2>1, MakerJustFails DEF MakerSwapEvents, MakerLastStates
  <2>2. CASE ~MakerFails("Aborted")
    <3>1. /\ UNCHANGED <<now, skip, reliable>> /\ mInbox' \subseteq mInbox
          /\ SpendOk(t) \/ SpendRefused(t)
      BY <1>10, <2>2 DEF MakerRefunds, MakerKeeps
    <3>2. mFaults' \in 0..MaxMakerFaults
      BY <1>10, <2>2 DEF MakerRefunds, MakerFine, MakerFaulty, MakerTypeOK
    <3>3. PICK s \in {"MakerPaymentRefunded", "Aborted"} : MakerGoes(s)
      BY <1>10, <2>2 DEF MakerRefunds
    <3>. QED
      BY <1>10, <3>1, <3>2, <3>3, MakerCall, TxFacts
         DEF MakerSwapEvents, MakerLastStates, Payments
  <2>. QED
    BY <2>1, <2>2
<1>11. CASE MakerPaymentRefundRequired
    BY <1>10, <1>11 DEF MakerPaymentRefundRequired, MakerIn, MakerHasSecret
<1>12. CASE MakerStoreEvent
  <2>1. mLocked' \in BOOLEAN
    BY <1>12 DEF MakerStoreEvent, maker_on_event, MakerTypeOK
  <2>2. mWaitFrom' \in 0..MaxTime
    BY <1>12 DEF MakerStoreEvent, MakerWaitFrom, LedgerTypeOK
  <2>. QED
    BY <1>12, <2>1, <2>2 DEF MakerStoreEvent, MakerMove, MakerHasSecret, MakerTypeOK,
                             LedgerTypeOK, ledgerVars
<1>13. CASE MakerOnFinished
  <2>1. mFaults' \in 0..MaxMakerFaults
    <3>1. MakerFine \/ MakerFaulty
      BY <1>13 DEF MakerOnFinished
    <3>. QED
      BY <3>1 DEF MakerFine, MakerFaulty, MakerTypeOK
  <2>2. {mUp', mLocked', mDone'} \subseteq BOOLEAN /\ mInbox' \subseteq mInbox
    <3>1. CASE mDone' = TRUE /\ mInbox' = {} /\ mLocked' = FALSE /\ mUp' = mUp
      BY <3>1 DEF MakerTypeOK
    <3>2. CASE mUp' = FALSE /\ UNCHANGED <<mDone, mInbox, mLocked>>
      BY <3>2 DEF MakerTypeOK
    <3>. QED
      BY <1>13, <3>1, <3>2 DEF MakerOnFinished
  <2>. QED
    BY <1>13, <2>1, <2>2 DEF MakerOnFinished, MakerMove, MakerHasSecret, MakerTypeOK, LedgerTypeOK,
                           ledgerVars
<1>. QED
    BY <1>1, <1>2, <1>3, <1>4, <1>5, <1>7, <1>8, <1>9, <1>11, <1>12, <1>13 DEF MakerHandles

\* A failed store, a death, a restart and a message change nothing on chain, and teach the
\* maker nothing about the taker's secret.
LEMMA MakerStepMoves ==
    ASSUME LedgerTypeOK, MakerTypeOK, NEW sends \in SUBSET ToMaker,
           MakerStoreFails \/ MakerDies \/ MakerKickstart \/ MakerReceives(sends)
    PROVE  MakerMove
<1>. USE V2TimesAssumption
<1>1. LedgerTypeOK' /\ UNCHANGED <<tx, secrets>>
    BY DEF MakerStoreFails, MakerDies, MakerKickstart, MakerReceives, LedgerTypeOK, ledgerVars
<1>2. MakerHasSecret' => MakerHasSecret
    BY DEF MakerStoreFails, MakerDies, MakerKickstart, MakerReceives, MakerHasSecret
<1>3. CASE MakerStoreFails
  <2>1. mLocked' \in BOOLEAN
    BY <1>3 DEF MakerStoreFails, maker_on_event, MakerTypeOK
  <2>2. mFaults' \in 0..MaxMakerFaults
    BY <1>3 DEF MakerStoreFails, MakerFaulty, MakerTypeOK
  <2>. QED
    BY <1>1, <1>2, <1>3, <2>1, <2>2 DEF MakerStoreFails, MakerMove, MakerTypeOK
<1>4. CASE MakerDies
  <2>1. mFaults' \in 0..MaxMakerFaults
    BY <1>4 DEF MakerDies, MakerFaulty, MakerTypeOK
  <2>. QED
    BY <1>1, <1>2, <1>4, <2>1 DEF MakerDies, MakerMove, MakerTypeOK
<1>5. CASE MakerKickstart
  <2>1. mLocked' \in BOOLEAN
    BY <1>5 DEF MakerKickstart, maker_on_kickstart_event
  <2>2. mWaitFrom' \in 0..MaxTime
    BY <1>5 DEF MakerKickstart, MakerWaitFrom, LedgerTypeOK
  <2>. QED
    BY <1>1, <1>2, <1>5, <2>1, <2>2 DEF MakerKickstart, MakerMove, MakerTypeOK
<1>6. CASE MakerReceives(sends)
    BY <1>1, <1>2, <1>6 DEF MakerReceives, MakerMove, MakerTypeOK
<1>. QED
    BY <1>3, <1>4, <1>5, <1>6

-----------------------------------------------------------------------------
(* The same for the taker.                                                 *)

\* A step of the taker that changes nothing on chain and goes to another state.
LEMMA TakerSilent ==
    ASSUME LedgerTypeOK, TakerTypeOK, UNCHANGED ledgerVars,
           NEW s \in TakerSwapEvents, TakerGoes(s),
           s = "TakerPaymentSpent" => Seen("TakerPaymentSpend"),
           tFaults' \in 0..MaxTakerFaults, tInbox' \subseteq tInbox
    PROVE  TakerMove
<1>1. LedgerTypeOK'
    BY DEF LedgerTypeOK, ledgerVars
<1>2. TakerTypeOK'
    BY TakerGoesTypes
<1>. QED
    BY <1>1, <1>2 DEF TakerMove, TakerHasSecret, TakerGoes, ledgerVars

\* TakerJust and TakerFails are such steps.
LEMMA TakerJustFails ==
    ASSUME LedgerTypeOK, TakerTypeOK, NEW s \in TakerSwapEvents,
           s = "TakerPaymentSpent" => Seen("TakerPaymentSpend"),
           TakerJust(s) \/ TakerFails(s)
    PROVE  TakerMove
<1>1. tFaults' \in 0..MaxTakerFaults /\ tInbox' \subseteq tInbox
    BY V2TimesAssumption DEF TakerTypeOK, TakerJust, TakerFails, TakerFine, TakerFaulty, TakerKeeps
<1>. QED
    BY <1>1, TakerSilent DEF TakerJust, TakerFails

\* A step of the taker that makes a call and goes to another state.
LEMMA TakerCall ==
    ASSUME LedgerTypeOK, TakerTypeOK, UNCHANGED <<now, skip, reliable>>,
           NEW s \in TakerSwapEvents \ {"TakerPaymentSpent"}, TakerGoes(s),
           tFaults' \in 0..MaxTakerFaults, tInbox' \subseteq tInbox,
           NEW t \in Txs,
           \/ SendPayment(t) /\ t \in Payments
           \/ SpendRefused(t)
           \/ SpendOk(t) /\ t \in {"TakerPayment", "FundingRefund", "TakerPaymentRefund"}
           \/ SpendOk(t) /\ TakerHasSecret /\ t = "MakerPaymentSpend"
    PROVE  TakerMove
<1>1. LedgerTypeOK'
    BY CallTypes, LedgerKeepsTypes
<1>2. TakerTypeOK'
    BY TakerGoesTypes
<1>3. TakerHasSecret' => TakerHasSecret
    BY DEF TakerHasSecret, TakerGoes
<1>4. CASE SendPayment(t) /\ t \in Payments
    BY <1>1, <1>2, <1>3, <1>4 DEF TakerMove, Pays, SendPayment
<1>5. CASE SpendOk(t) /\ \/ t \in {"TakerPayment", "FundingRefund", "TakerPaymentRefund"}
                         \/ TakerHasSecret /\ t = "MakerPaymentSpend"
    BY <1>1, <1>2, <1>3, <1>5 DEF TakerMove, Broadcasts, SpendOk
<1>6. CASE SpendRefused(t)
    BY <1>1, <1>2, <1>3, <1>6 DEF TakerMove, SpendRefused
<1>. QED
    BY <1>4, <1>5, <1>6

\* Every step of the taker's machine is a move of the taker.
LEMMA TakerMoves ==
    ASSUME LedgerTypeOK, TakerTypeOK, NEW u, TakerHandles(u)
    PROVE  TakerMove
<1>. USE V2TimesAssumption
<1>1. CASE TakerInitialize
    BY <1>1 DEF TakerInitialize, TakerFine, TakerFaulty, TakerMove, TakerHasSecret,
                TakerTypeOK, LedgerTypeOK, ledgerVars, TakerSwapEvents, TakerLastStates
<1>2. CASE TakerInitialized(u)
  <2>1. CASE /\ tPhase' = "recv" /\ tWaitFrom' = now /\ tInbox' \subseteq tInbox
             /\ UNCHANGED <<tUp, tEv, tNext, tLocked, tStartedAt, tDone, tFaults, ledgerVars>>
    BY <2>1 DEF TakerMove, TakerHasSecret, TakerTypeOK, LedgerTypeOK, ledgerVars
  <2>. QED
    BY <1>2, <2>1, TakerSilent, TakerJustFails
       DEF TakerInitialized, TakerTakes, TakerFine, TakerTypeOK, TakerSwapEvents, TakerLastStates
<1>3. CASE TakerNegotiated
    BY <1>3, TakerCall, TakerJustFails, TxFacts
       DEF TakerNegotiated, TakerFine, TakerFaulty, TakerKeeps, TakerTypeOK,
           TakerSwapEvents, TakerLastStates, Payments
<1>4. CASE TakerFundingSent
    BY <1>4, TakerSilent, TakerJustFails
       DEF TakerFundingSent, TakerTakes, TakerFine, TakerTypeOK, TakerSwapEvents
<1>5. CASE TakerMakerPaymentAndFundingSpendPreimgReceived
    BY <1>5, TakerJustFails
       DEF TakerMakerPaymentAndFundingSpendPreimgReceived, TakerSwapEvents
<1>6. CASE TakerMakerPaymentConfirmed
  <2>1. CASE TakerFails("TakerFundingRefundRequired")
    BY <2>1, TakerJustFails DEF TakerSwapEvents
  <2>2. CASE ~TakerFails("TakerFundingRefundRequired")
    <3>1. /\ UNCHANGED <<now, skip, reliable>> /\ tInbox' \subseteq tInbox
          /\ SpendOk("TakerPayment") \/ SpendRefused("TakerPayment")
      BY <1>6, <2>2 DEF TakerMakerPaymentConfirmed, TakerKeeps
    <3>2. tFaults' \in 0..MaxTakerFaults
      BY <1>6, <2>2 DEF TakerMakerPaymentConfirmed, TakerFine, TakerFaulty, TakerTypeOK
    <3>3. PICK s \in {"TakerPaymentSentAndPreimageSendingSkipped", "TakerPaymentSent",
                      "TakerFundingRefundRequired"} : TakerGoes(s)
      BY <1>6, <2>2 DEF TakerMakerPaymentConfirmed
    <3>. QED
      BY <3>1, <3>2, <3>3, TakerCall, TxFacts DEF TakerSwapEvents
  <2>. QED
    BY <2>1, <2>2
<1>7. CASE TakerPaymentSent \/ TakerPaymentSentAndPreimageSendingSkipped
    BY <1>7, TakerJustFails
       DEF TakerPaymentSent, TakerPaymentSentAndPreimageSendingSkipped, FindTakerPaymentSpend,
           TakerSwapEvents
<1>8. CASE TakerTakerPaymentSpent
  <2>1. CASE TakerFails("Aborted")
    BY <2>1, TakerJustFails DEF TakerSwapEvents, TakerLastStates
  <2>2. CASE ~TakerFails("Aborted")
    <3>1. /\ UNCHANGED <<now, skip, reliable>> /\ tInbox' \subseteq tInbox
          /\ SpendOk("MakerPaymentSpend") \/ SpendRefused("MakerPaymentSpend")
          /\ TakerHasSecret
      BY <1>8, <2>2 DEF TakerTakerPaymentSpent, TakerKeeps, TakerIn, TakerHasSecret
    <3>2. tFaults' \in 0..MaxTakerFaults
      BY <1>8, <2>2 DEF TakerTakerPaymentSpent, TakerFine, TakerFaulty, TakerTypeOK
    <3>3. PICK s \in {"MakerPaymentSpent", "Aborted"} : TakerGoes(s)
      BY <1>8, <2>2 DEF TakerTakerPaymentSpent
    <3>. QED
      BY <3>1, <3>2, <3>3, TakerCall, TxFacts DEF TakerSwapEvents, TakerLastStates
  <2>. QED
    BY <2>1, <2>2
<1>9. CASE TakerMakerPaymentSpent
    BY <1>9, TakerJustFails DEF TakerMakerPaymentSpent, TakerSwapEvents, TakerLastStates
<1>10. ASSUME NEW t \in {"FundingRefund", "TakerPaymentRefund"}, NEW r \in TakerLastStates,
              TakerRefunds(t, r)
       PROVE  TakerMove
  <2>1. CASE TakerFails("Aborted")
    BY <2>1, TakerJustFails DEF TakerSwapEvents, TakerLastStates
  <2>2. CASE ~TakerFails("Aborted")
    <3>1. /\ UNCHANGED <<now, skip, reliable>> /\ tInbox' \subseteq tInbox
          /\ SpendOk(t) \/ SpendRefused(t)
      BY <1>10, <2>2 DEF TakerRefunds, TakerKeeps
    <3>2. tFaults' \in 0..MaxTakerFaults
      BY <1>10, <2>2 DEF TakerRefunds, TakerFine, TakerFaulty, TakerTypeOK
    <3>3. PICK s \in TakerLastStates : TakerGoes(s)
      BY <1>10, <2>2 DEF TakerRefunds, TakerLastStates
    <3>. QED
      BY <1>10, <3>1, <3>2, <3>3, TakerCall, TxFacts DEF TakerSwapEvents, TakerLastStates
  <2>. QED
    BY <2>1, <2>2
<1>11. CASE TakerFundingRefundRequired \/ TakerPaymentRefundRequired
    BY <1>10, <1>11
       DEF TakerFundingRefundRequired, TakerPaymentRefundRequired, TakerLastStates
<1>12. CASE TakerStoreEvent
  <2>1. tLocked' \in BOOLEAN
    BY <1>12 DEF TakerStoreEvent, taker_on_event, TakerTypeOK
  <2>2. tWaitFrom' \in 0..MaxTime
    BY <1>12 DEF TakerStoreEvent, TakerWaitFrom, LedgerTypeOK
  <2>. QED
    BY <1>12, <2>1, <2>2 DEF TakerStoreEvent, TakerMove, TakerHasSecret, TakerTypeOK,
                             LedgerTypeOK, ledgerVars
<1>13. CASE TakerOnFinished
  <2>1. tFaults' \in 0..MaxTakerFaults
    <3>1. TakerFine \/ TakerFaulty
      BY <1>13 DEF TakerOnFinished
    <3>. QED
      BY <3>1 DEF TakerFine, TakerFaulty, TakerTypeOK
  <2>2. {tUp', tLocked', tDone'} \subseteq BOOLEAN /\ tInbox' \subseteq tInbox
    <3>1. CASE tDone' = TRUE /\ tInbox' = {} /\ tLocked' = FALSE /\ tUp' = tUp
      BY <3>1 DEF TakerTypeOK
    <3>2. CASE tUp' = FALSE /\ UNCHANGED <<tDone, tInbox, tLocked>>
      BY <3>2 DEF TakerTypeOK
    <3>. QED
      BY <1>13, <3>1, <3>2 DEF TakerOnFinished
  <2>. QED
    BY <1>13, <2>1, <2>2 DEF TakerOnFinished, TakerMove, TakerHasSecret, TakerTypeOK, LedgerTypeOK,
                           ledgerVars
<1>. QED
    BY <1>1, <1>2, <1>3, <1>4, <1>5, <1>6, <1>7, <1>8, <1>9, <1>11, <1>12, <1>13
       DEF TakerHandles

\* A failed store, a death, a restart and a message change nothing on chain, and teach the
\* taker nothing about the maker's secret.
LEMMA TakerStepMoves ==
    ASSUME LedgerTypeOK, TakerTypeOK, NEW sends \in SUBSET ToTaker,
           TakerStoreFails \/ TakerDies \/ TakerKickstart \/ TakerReceives(sends)
    PROVE  TakerMove
<1>. USE V2TimesAssumption
<1>1. LedgerTypeOK' /\ UNCHANGED <<tx, secrets>>
    BY DEF TakerStoreFails, TakerDies, TakerKickstart, TakerReceives, LedgerTypeOK, ledgerVars
<1>2. TakerHasSecret' => TakerHasSecret
    BY DEF TakerStoreFails, TakerDies, TakerKickstart, TakerReceives, TakerHasSecret
<1>3. CASE TakerStoreFails
  <2>1. tLocked' \in BOOLEAN
    BY <1>3 DEF TakerStoreFails, taker_on_event, TakerTypeOK
  <2>2. tFaults' \in 0..MaxTakerFaults
    BY <1>3 DEF TakerStoreFails, TakerFaulty, TakerTypeOK
  <2>. QED
    BY <1>1, <1>2, <1>3, <2>1, <2>2 DEF TakerStoreFails, TakerMove, TakerTypeOK
<1>4. CASE TakerDies
  <2>1. tFaults' \in 0..MaxTakerFaults
    BY <1>4 DEF TakerDies, TakerFaulty, TakerTypeOK
  <2>. QED
    BY <1>1, <1>2, <1>4, <2>1 DEF TakerDies, TakerMove, TakerTypeOK
<1>5. CASE TakerKickstart
  <2>1. tLocked' \in BOOLEAN
    BY <1>5 DEF TakerKickstart, taker_on_kickstart_event
  <2>2. tWaitFrom' \in 0..MaxTime
    BY <1>5 DEF TakerKickstart, TakerWaitFrom, LedgerTypeOK
  <2>. QED
    BY <1>1, <1>2, <1>5, <2>1, <2>2 DEF TakerKickstart, TakerMove, TakerTypeOK
<1>6. CASE TakerReceives(sends)
    BY <1>1, <1>2, <1>6 DEF TakerReceives, TakerMove, TakerTypeOK
<1>. QED
    BY <1>3, <1>4, <1>5, <1>6

-----------------------------------------------------------------------------
(* The inductive invariant.                                                *)

\* What competes with a mined transaction is void, and nothing spends what is not there.
OneMined  == \A t, u \in Spends : Parent[t] = Parent[u] /\ t # u /\ Mined(t) => ~Seen(u)
HasParent == \A t \in Spends :
    Seen(t) => Seen(Parent[t]) /\ (Mined(t) /\ Parent[t] \in Spends => Mined(Parent[t]))

\* A machine knows, and uses, a secret of the other side only after a transaction showed it.
SecretsShown ==
    /\ TakerHasSecret \/ Seen("MakerPaymentSpend") \/ Seen("TakerPaymentSpend")
           => "maker" \in secrets
    /\ MakerHasSecret \/ Seen("MakerPaymentSecretRefund") \/ Seen("FundingRefund")
           => "taker" \in secrets

V2Inv == TypeOK /\ OneMined /\ HasParent /\ SecretsShown

\* The initial states have the invariant.
LEMMA V2InvInit == Init => V2Inv
<1>. SUFFICES ASSUME Init PROVE V2Inv
    OBVIOUS
<1>. USE V2TimesAssumption DEF Init
<1>1. LedgerTypeOK
    BY DEF LedgerInit, LedgerTypeOK
<1>2. 0 \in 0..MaxTime /\ 0 \in 0..MaxMakerFaults /\ 0 \in 0..MaxTakerFaults
    OBVIOUS
<1>3. MakerTypeOK
    BY <1>2 DEF MakerInit, MakerTypeOK
<1>4. TakerTypeOK
    BY <1>2 DEF TakerInit, TakerTypeOK
<1>5. \A t \in Txs : ~Seen(t) /\ ~Mined(t)
    BY DEF LedgerInit, Seen, Mined
<1>6. ~MakerHasSecret /\ ~TakerHasSecret
    BY DEF MakerInit, TakerInit, MakerHasSecret, TakerHasSecret
<1>. QED
    BY <1>1, <1>3, <1>4, <1>5, <1>6, TxFacts
       DEF V2Inv, TypeOK, OneMined, HasParent, SecretsShown

\* A broadcast adds one transaction to those that are seen, and mines none; so does a payment,
\* and what it pays anew is not mined any more.
LEMMA SeenAfter ==
    ASSUME LedgerTypeOK, NEW t \in Txs, tx' = [tx EXCEPT ![t] = "mempool"]
    PROVE  \A u \in Txs : /\ Seen(u)' <=> Seen(u) \/ u = t
                          /\ Mined(u)' <=> Mined(u) /\ u # t
BY DEF LedgerTypeOK, Seen, Mined

\* A block mines one transaction, shows none, and leaves what is mined.
LEMMA BlockFacts ==
    ASSUME LedgerTypeOK, OneMined, HasParent, NEW t \in Txs, Mine(t)
    PROVE  /\ LedgerTypeOK' /\ UNCHANGED <<now, forgotten, secrets, skip, reliable>>
           /\ \A u \in Txs : Seen(u)' => Seen(u)
           /\ \A u \in Txs : Mined(u)' <=> Mined(u) \/ u = t
           /\ Seen(t) /\ ~Mined(t) /\ \A u \in Competitors(t) : ~Mined(u) /\ ~Seen(u)'
           /\ \A u \in Spends : Parent[u] \in Competitors(t) => ~Seen(u)'
           /\ \A u \in Txs : \/ Seen(u)' <=> Seen(u)
                             \/ u \in Competitors(t)
                             \/ u \in Spends /\ Parent[u] \in Competitors(t)
           /\ t \in Spends => Mined(Parent[t])
<1>1. Seen(t) /\ ~Mined(t) /\ (t \in Spends => Mined(Parent[t]))
    BY DEF Mine, Seen, Mined
<1>2. \A u \in Competitors(t) : ~Mined(u)
    BY <1>1 DEF Competitors, OneMined
<1>3. \A u \in Spends : Parent[u] \in Competitors(t) => ~Mined(u)
  <2>1. SUFFICES ASSUME NEW u \in Spends, Parent[u] \in Competitors(t), Mined(u) PROVE FALSE
    OBVIOUS
  <2>2. u \in {"TakerPaymentSpend", "TakerPaymentRefund"} /\ t = "FundingRefund"
    BY <2>1, TxFacts DEF Competitors
  <2>. QED
    BY <1>1, <2>1, <2>2, TxFacts DEF OneMined, HasParent, Seen, Mined
<1>4. tx' \in [Txs -> TxStates]
    BY DEF Mine, LedgerTypeOK, TxStates
<1>5. LedgerTypeOK'
    BY <1>4, LedgerKeepsTypes DEF Mine, LedgerTypeOK
<1>6. ASSUME NEW u \in Txs
      PROVE  /\ Seen(u)' => Seen(u)
             /\ Mined(u)' <=> Mined(u) \/ u = t
             /\ u \in Competitors(t) => ~Seen(u)'
             /\ u \in Spends /\ Parent[u] \in Competitors(t) => ~Seen(u)'
             /\ \/ Seen(u)' <=> Seen(u)
                \/ u \in Competitors(t)
                \/ u \in Spends /\ Parent[u] \in Competitors(t)
  <2>1. CASE u = t
    <3>1. t \notin Competitors(t) /\ (t \in Spends => Parent[t] \notin Competitors(t))
      BY TxFacts DEF Competitors
    <3>2. tx'[t] = "mined"
      BY <3>1 DEF Mine
    <3>. QED
      BY <1>1, <2>1, <3>1, <3>2 DEF Seen, Mined
  <2>2. CASE u # t /\ u \in Competitors(t)
    BY <1>2, <2>2 DEF Mine, Seen, Mined
  <2>3. CASE u # t /\ u \notin Competitors(t) /\ u \in Spends /\ Parent[u] \in Competitors(t)
    BY <1>3, <2>3 DEF Mine, Seen, Mined
  <2>4. CASE u # t /\ u \notin Competitors(t) /\ ~(u \in Spends /\ Parent[u] \in Competitors(t))
    BY <2>4 DEF Mine, Seen, Mined
  <2>. QED
    BY <2>1, <2>2, <2>3, <2>4
<1>7. Competitors(t) \subseteq Txs /\ Spends \subseteq Txs
    BY TxFacts DEF Competitors
<1>. QED
    BY <1>1, <1>2, <1>5, <1>6, <1>7 DEF Mine

\* The invariants of the chain survive a block.
LEMMA BlockKeepsChain ==
    ASSUME LedgerTypeOK, OneMined, HasParent, NEW t \in Txs, Mine(t)
    PROVE  OneMined' /\ HasParent'
<1>1. /\ \A u \in Txs : Seen(u)' => Seen(u)
      /\ \A u \in Txs : Mined(u)' <=> Mined(u) \/ u = t
      /\ Seen(t) /\ ~Mined(t) /\ \A u \in Competitors(t) : ~Mined(u) /\ ~Seen(u)'
      /\ t \in Spends => Mined(Parent[t])
    BY BlockFacts
<1>2. OneMined'
  <2>. SUFFICES ASSUME NEW v \in Spends, NEW u \in Spends, Parent[v] = Parent[u], v # u, Mined(v)'
                PROVE  ~Seen(u)'
    BY DEF OneMined
  <2>1. v \in Txs /\ u \in Txs
    BY TxFacts
  <2>2. CASE Mined(v)
    BY <1>1, <2>1, <2>2 DEF OneMined
  <2>3. CASE v = t
    BY <1>1, <2>1, <2>3 DEF Competitors
  <2>. QED
    BY <1>1, <2>1, <2>2, <2>3
<1>3. HasParent'
  <2>. SUFFICES ASSUME NEW u \in Spends, Seen(u)'
                PROVE  Seen(Parent[u])' /\ (Mined(u)' /\ Parent[u] \in Spends => Mined(Parent[u])')
    BY DEF HasParent
  <2>1. /\ \A w \in Spends : Parent[w] \in Competitors(t) => ~Seen(w)'
        /\ \A w \in Txs : \/ Seen(w)' <=> Seen(w)
                          \/ w \in Competitors(t)
                          \/ w \in Spends /\ Parent[w] \in Competitors(t)
    BY BlockFacts
  <2>2. /\ u \in Txs /\ Parent[u] \in Txs
        /\ Parent[u] \in Spends => Parent[Parent[u]] \notin Competitors(t)
    BY TxFacts DEF Competitors
  <2>3. Seen(u) /\ Seen(Parent[u]) /\ (Mined(u) /\ Parent[u] \in Spends => Mined(Parent[u]))
    BY <1>1, <2>2 DEF HasParent
  <2>. QED
    BY <1>1, <2>1, <2>2, <2>3
<1>. QED
    BY <1>2, <1>3

\* So they do a call of either side, which forgets no secret.
LEMMA ChainKept ==
    ASSUME LedgerTypeOK, OneMined, HasParent,
           UNCHANGED <<tx, secrets>> \/ Pays \/ \E t \in Spends : Broadcasts(t)
    PROVE  /\ OneMined' /\ HasParent' /\ secrets \subseteq secrets'
           /\ \A u \in Txs : Seen(u) => Seen(u)'
<1>1. CASE UNCHANGED <<tx, secrets>>
    BY <1>1 DEF OneMined, HasParent, Seen, Mined
<1>2. CASE Pays
  <2>1. PICK p \in Payments : tx' = [tx EXCEPT ![p] = "mempool"] /\ secrets' = secrets
    BY <1>2 DEF Pays
  <2>2. p \in Txs /\ p \notin Spends /\ Spends \subseteq Txs
    BY TxFacts DEF Payments
  <2>3. \A u \in Txs : (Seen(u)' <=> Seen(u) \/ u = p) /\ (Mined(u)' <=> Mined(u) /\ u # p)
    BY <2>1, <2>2, SeenAfter
  <2>4. OneMined'
    BY <2>2, <2>3 DEF OneMined
  <2>5. HasParent'
    BY <2>2, <2>3, TxFacts DEF HasParent
  <2>. QED
    BY <2>1, <2>3, <2>4, <2>5
<1>3. ASSUME NEW t \in Spends, Broadcasts(t)
      PROVE  /\ OneMined' /\ HasParent' /\ secrets \subseteq secrets'
             /\ \A u \in Txs : Seen(u) => Seen(u)'
  <2>1. t \in Txs /\ Spends \subseteq Txs
    BY TxFacts
  <2>2. /\ Seen(Parent[t]) /\ ~Mined(t) /\ \A u \in Competitors(t) : ~Mined(u)
        /\ secrets \subseteq secrets'
    BY <1>3 DEF Broadcasts, SpendOk
  <2>3. \A u \in Txs : (Seen(u)' <=> Seen(u) \/ u = t) /\ (Mined(u)' <=> Mined(u))
    BY <1>3, <2>1, <2>2, SeenAfter DEF Broadcasts, SpendOk
  <2>4. OneMined'
    BY <2>1, <2>2, <2>3 DEF OneMined, Competitors
  <2>5. HasParent'
    BY <2>2, <2>3, TxFacts DEF HasParent
  <2>. QED
    BY <2>2, <2>3, <2>4, <2>5
<1>. QED
    BY <1>1, <1>2, <1>3

\* Which transactions a call makes appear: the one it sends.
LEMMA CallShows ==
    ASSUME LedgerTypeOK, NEW u \in Spends, Seen(u)', ~Seen(u),
           UNCHANGED <<tx, secrets>> \/ Pays \/ \E t \in Spends : Broadcasts(t)
    PROVE  Broadcasts(u) /\ secrets' = secrets \cup Shows(u)
<1>1. u \in Txs /\ u \notin Payments /\ Spends \subseteq Txs /\ Payments \subseteq Txs
    BY TxFacts DEF Payments
<1>2. ~(UNCHANGED <<tx, secrets>>)
    BY DEF Seen
<1>3. ~Pays
    BY <1>1, SeenAfter DEF Pays
<1>4. PICK t \in Spends : Broadcasts(t)
    BY <1>2, <1>3
<1>5. t = u
    BY <1>1, <1>4, SeenAfter DEF Broadcasts, SpendOk
<1>. QED
    BY <1>4, <1>5 DEF Broadcasts, SpendOk

\* A move of the maker keeps the invariant.
LEMMA MakerMoveKeeps ==
    ASSUME V2Inv, MakerMove, UNCHANGED takerVars
    PROVE  V2Inv'
<1>0. LedgerTypeOK /\ OneMined /\ HasParent /\ SecretsShown
    BY DEF V2Inv, TypeOK
<1>1. UNCHANGED <<tx, secrets>> \/ Pays \/ \E t \in Spends : Broadcasts(t)
    BY TxFacts DEF MakerMove
<1>2. OneMined' /\ HasParent' /\ secrets \subseteq secrets' /\ \A u \in Txs : Seen(u) => Seen(u)'
    BY <1>0, <1>1, ChainKept
<1>3. TypeOK'
    BY DEF MakerMove, V2Inv, TypeOK, TakerTypeOK, takerVars
<1>4. TakerHasSecret' <=> TakerHasSecret
    BY DEF TakerHasSecret, takerVars
<1>5. ASSUME NEW u \in Spends, Seen(u)', ~Seen(u)
      PROVE  /\ \/ u \in {"TakerPaymentSpend", "MakerPaymentRefund"}
                \/ MakerHasSecret /\ u = "MakerPaymentSecretRefund"
             /\ secrets' = secrets \cup Shows(u)
  <2>1. Broadcasts(u) /\ secrets' = secrets \cup Shows(u)
    BY <1>0, <1>1, <1>5, CallShows
  <2>2. ~(UNCHANGED <<tx, secrets>>) /\ ~Pays
    BY <1>0, <1>5, SeenAfter, TxFacts DEF Pays, Payments, Seen
  <2>3. \A t \in Spends : Broadcasts(t) => t = u
    BY <1>0, <1>5, SeenAfter, TxFacts DEF Broadcasts, SpendOk
  <2>4. \/ Broadcasts("TakerPaymentSpend") \/ Broadcasts("MakerPaymentRefund")
        \/ MakerHasSecret /\ Broadcasts("MakerPaymentSecretRefund")
    BY <2>2 DEF MakerMove
  <2>5. /\ Broadcasts("TakerPaymentSpend") => u = "TakerPaymentSpend"
        /\ Broadcasts("MakerPaymentRefund") => u = "MakerPaymentRefund"
        /\ Broadcasts("MakerPaymentSecretRefund") => u = "MakerPaymentSecretRefund"
    BY <2>3, TxFacts
  <2>. QED
    BY <2>1, <2>4, <2>5
<1>6. SecretsShown'
  <2>1. Seen("TakerPaymentSpend")' => "maker" \in secrets'
    BY <1>0, <1>2, <1>5, TxFacts DEF Shows, SecretsShown
  <2>2. Seen("MakerPaymentSpend")' => "maker" \in secrets'
    BY <1>0, <1>2, <1>5, TxFacts DEF SecretsShown
  <2>3. Seen("MakerPaymentSecretRefund")' \/ Seen("FundingRefund")' => "taker" \in secrets'
    BY <1>0, <1>2, <1>5, TxFacts DEF SecretsShown
  <2>4. MakerHasSecret' => "taker" \in secrets'
    BY <1>0, <1>2 DEF SecretsShown, MakerMove
  <2>. QED
    BY <1>0, <1>2, <1>4, <2>1, <2>2, <2>3, <2>4 DEF SecretsShown
<1>. QED
    BY <1>2, <1>3, <1>6 DEF V2Inv

\* A move of the taker keeps the invariant.
LEMMA TakerMoveKeeps ==
    ASSUME V2Inv, TakerMove, UNCHANGED makerVars
    PROVE  V2Inv'
<1>0. LedgerTypeOK /\ OneMined /\ HasParent /\ SecretsShown
    BY DEF V2Inv, TypeOK
<1>1. UNCHANGED <<tx, secrets>> \/ Pays \/ \E t \in Spends : Broadcasts(t)
    BY TxFacts DEF TakerMove
<1>2. OneMined' /\ HasParent' /\ secrets \subseteq secrets' /\ \A u \in Txs : Seen(u) => Seen(u)'
    BY <1>0, <1>1, ChainKept
<1>3. TypeOK'
    BY DEF TakerMove, V2Inv, TypeOK, MakerTypeOK, makerVars
<1>4. MakerHasSecret' <=> MakerHasSecret
    BY DEF MakerHasSecret, makerVars
<1>5. ASSUME NEW u \in Spends, Seen(u)', ~Seen(u)
      PROVE  /\ \/ u \in {"TakerPayment", "FundingRefund", "TakerPaymentRefund"}
                \/ TakerHasSecret /\ u = "MakerPaymentSpend"
             /\ secrets' = secrets \cup Shows(u)
  <2>1. Broadcasts(u) /\ secrets' = secrets \cup Shows(u)
    BY <1>0, <1>1, <1>5, CallShows
  <2>2. ~(UNCHANGED <<tx, secrets>>) /\ ~Pays
    BY <1>0, <1>5, SeenAfter, TxFacts DEF Pays, Payments, Seen
  <2>3. \A t \in Spends : Broadcasts(t) => t = u
    BY <1>0, <1>5, SeenAfter, TxFacts DEF Broadcasts, SpendOk
  <2>4. \/ Broadcasts("TakerPayment") \/ Broadcasts("FundingRefund")
        \/ Broadcasts("TakerPaymentRefund")
        \/ TakerHasSecret /\ Broadcasts("MakerPaymentSpend")
    BY <2>2 DEF TakerMove
  <2>5. /\ Broadcasts("TakerPayment") => u = "TakerPayment"
        /\ Broadcasts("FundingRefund") => u = "FundingRefund"
        /\ Broadcasts("TakerPaymentRefund") => u = "TakerPaymentRefund"
        /\ Broadcasts("MakerPaymentSpend") => u = "MakerPaymentSpend"
    BY <2>3, TxFacts
  <2>. QED
    BY <2>1, <2>4, <2>5
<1>6. SecretsShown'
  <2>1. Seen("FundingRefund")' => "taker" \in secrets'
    BY <1>0, <1>2, <1>5, TxFacts DEF Shows, SecretsShown
  <2>2. Seen("MakerPaymentSecretRefund")' => "taker" \in secrets'
    BY <1>0, <1>2, <1>5, TxFacts DEF SecretsShown
  <2>3. Seen("MakerPaymentSpend")' \/ Seen("TakerPaymentSpend")' => "maker" \in secrets'
    BY <1>0, <1>2, <1>5, TxFacts DEF SecretsShown
  <2>4. TakerHasSecret' => "maker" \in secrets'
    BY <1>0, <1>2 DEF SecretsShown, TakerMove
  <2>. QED
    BY <1>0, <1>2, <1>4, <2>1, <2>2, <2>3, <2>4 DEF SecretsShown
<1>. QED
    BY <1>2, <1>3, <1>6 DEF V2Inv

\* Every step keeps the invariant.
LEMMA V2InvNext == V2Inv /\ [Next]_vars => V2Inv'
<1>. SUFFICES ASSUME V2Inv, [Next]_vars PROVE V2Inv'
    OBVIOUS
<1>0. LedgerTypeOK /\ MakerTypeOK /\ TakerTypeOK /\ OneMined /\ HasParent /\ SecretsShown
    BY DEF V2Inv, TypeOK
<1>1. CASE MakerWorks
    BY <1>0, <1>1, MakerMoves, MakerMoveKeeps DEF MakerWorks
<1>2. CASE TakerWorks
    BY <1>0, <1>2, TakerMoves, TakerMoveKeeps DEF TakerWorks
<1>3. CASE MakerStep
  <2>1. TakerSends \in SUBSET ToMaker
    BY DEF TakerSends, ToMaker
  <2>. QED
    BY <1>0, <1>3, <2>1, MakerStepMoves, MakerMoveKeeps DEF MakerStep
<1>4. CASE TakerStep
  <2>1. MakerSends \in SUBSET ToTaker
    BY DEF MakerSends, ToTaker
  <2>. QED
    BY <1>0, <1>4, <2>1, TakerStepMoves, TakerMoveKeeps DEF TakerStep
<1>5. ASSUME LedgerTypeOK', OneMined', HasParent', \A u \in Txs : Seen(u)' => Seen(u),
             secrets' = secrets, UNCHANGED <<makerVars, takerVars>>
      PROVE  V2Inv'
  <2>1. MakerTypeOK' /\ TakerTypeOK'
    BY <1>0, <1>5 DEF MakerTypeOK, TakerTypeOK, makerVars, takerVars
  <2>2. (MakerHasSecret' <=> MakerHasSecret) /\ (TakerHasSecret' <=> TakerHasSecret)
    BY <1>5 DEF MakerHasSecret, TakerHasSecret, makerVars, takerVars
  <2>3. SecretsShown'
    BY <1>0, <1>5, <2>2, TxFacts DEF SecretsShown
  <2>. QED
    BY <1>5, <2>1, <2>3 DEF V2Inv, TypeOK
<1>6. CASE MineStep
    BY <1>0, <1>5, <1>6, BlockFacts, BlockKeepsChain DEF MineStep
<1>7. CASE Tick \/ UNCHANGED vars
  <2>1. LedgerTypeOK'
    <3>1. CASE Tick
      BY <1>0, <3>1, V2TimesAssumption DEF Tick, LedgerTypeOK
    <3>2. CASE UNCHANGED vars
      BY <1>0, <3>2 DEF LedgerTypeOK, vars, ledgerVars
    <3>. QED
      BY <1>7, <3>1, <3>2
  <2>2. \A u \in Txs : Seen(u)' => Seen(u)
    BY <1>7 DEF Tick, vars, ledgerVars, Seen
  <2>3. OneMined' /\ HasParent'
    BY <1>0, <1>7 DEF Tick, vars, ledgerVars, OneMined, HasParent, Seen, Mined
  <2>. QED
    BY <1>5, <1>7, <2>1, <2>2, <2>3 DEF Tick, vars, ledgerVars
<1>. QED
    BY <1>1, <1>2, <1>3, <1>4, <1>6, <1>7 DEF Next

\* The invariant holds in every behaviour.
LEMMA V2Invariant == Spec => []V2Inv
BY V2InvInit, V2InvNext, PTL DEF Spec

-----------------------------------------------------------------------------
(* The theorems.                                                           *)

\* Both machines, the chains and the clock keep their types.
THEOREM V2TypeCorrect == Spec => []TypeOK
<1>1. V2Inv => TypeOK
    BY DEF V2Inv
<1>. QED
    BY <1>1, V2Invariant, PTL

-----------------------------------------------------------------------------
(* What follows needs more than the chains: what a machine has stored,     *)
(* what it is about to store, and what that says of its payment, of the    *)
(* amount it holds locked and of the other machine.                        *)

-----------------------------------------------------------------------------
(* The states of a machine up to its payment, in their order, and the rest *)
(* of them: no state is left backwards.                                    *)

MakerBefore == {"None", "Initialized", "WaitingForTakerFunding", "TakerFundingReceived"}
TakerBefore == {"None", "Initialized", "Negotiated"}

MakerFollows(s, t) ==
    \/ s = "None" /\ t \in {"Initialized", "Aborted"}
    \/ s = "Initialized" /\ t \in {"WaitingForTakerFunding", "Aborted"}
    \/ s = "WaitingForTakerFunding" /\ t \in {"TakerFundingReceived", "Aborted"}
    \/ s = "TakerFundingReceived" /\ t \in {"MakerPaymentSentFundingSpendGenerated", "Aborted"}
    \/ s \notin MakerBefore \cup MakerLastStates /\ t \notin MakerBefore

TakerFollows(s, t) ==
    \/ s = "None" /\ t \in {"Initialized", "Aborted"}
    \/ s = "Initialized" /\ t \in {"Negotiated", "Aborted"}
    \/ s = "Negotiated" /\ t \in {"TakerFundingSent", "Aborted"}
    \/ s \notin TakerBefore \cup TakerLastStates /\ t \notin TakerBefore

\* What is on its way to being stored follows what is stored.
PathInv ==
    /\ mNext # "None" => MakerFollows(mEv, mNext)
    /\ tNext # "None" => TakerFollows(tEv, tNext)

\* A machine that runs holds its amount locked until it has stored that the payment is sent,
\* also while its next state is being stored.
LockInv ==
    /\ mUp /\ ~mDone /\ mEv \notin MakerLastStates => (mLocked <=> mEv \in MakerBefore \ {"None"})
    /\ tUp /\ ~tDone /\ tEv \notin TakerLastStates => (tLocked <=> tEv \in TakerBefore \ {"None"})

\* A payment is out before its machine has stored so only while that is being stored, or
\* because a fault took the machine back; every fault does so once.
SentInv ==
    /\ Seen("MakerPayment") => mEv \notin {"None", "Initialized", "WaitingForTakerFunding"}
    /\ forgotten["MakerPayment"] <= mFaults
    /\ Seen("MakerPayment") /\ mEv = "TakerFundingReceived" /\ mNext = "None"
           => forgotten["MakerPayment"] < mFaults
    /\ Seen("TakerFunding") => tEv \notin {"None", "Initialized"}
    /\ forgotten["TakerFunding"] <= tFaults
    /\ Seen("TakerFunding") /\ tEv = "Negotiated" /\ tNext = "None"
           => forgotten["TakerFunding"] < tFaults

\* The taker hears of the maker's payment only after the maker has stored that it is sent, and
\* then the maker does not send another one; so what the taker saw confirmed stays confirmed.
TakerKnowsPayment ==
    \/ "MakerPaymentInfo" \in tInbox
    \/ {"MakerPaymentAndFundingSpendPreimgReceived", "MakerPaymentConfirmed"} \cap {tEv, tNext} # {}
    \/ Seen("TakerPayment")

ConfirmInv ==
    /\ TakerKnowsPayment => mEv \notin MakerBefore
    /\ "MakerPaymentConfirmed" \in {tEv, tNext} \/ Seen("TakerPayment") => Mined("MakerPayment")
    /\ mPhase = "recv" \/ Seen("TakerPaymentSpend") => Mined("TakerPayment")

RunInv == V2Inv /\ PathInv /\ LockInv /\ SentInv /\ ConfirmInv

-----------------------------------------------------------------------------
(* What one step of a machine does, as far as the invariant is concerned.  *)

\* on_changed of the maker returns: its payment is sent from one state only, and the spend of
\* the taker's payment only once that payment was found confirmed.
MakerTurn ==
    /\ mUp /\ mNext = "None" /\ mNext' # "None" /\ MakerFollows(mEv, mNext')
    /\ UNCHANGED <<mUp, mEv, mPhase, mLocked, mDone>> /\ mFaults' \in {mFaults, mFaults + 1}
    /\ \/ UNCHANGED <<tx, forgotten, secrets>>
       \/ mEv = "TakerFundingReceived" /\ SendPayment("MakerPayment")
       \/ \E t \in {"MakerPaymentRefund", "MakerPaymentSecretRefund"} : SpendOk(t)
       \/ SpendOk("TakerPaymentSpend") /\ (mPhase = "recv" \/ Mined("TakerPayment"))

\* It goes on to the second wait.
MakerSecondWait ==
    /\ mPhase' = "recv" /\ Mined("TakerPayment")
    /\ UNCHANGED <<mUp, mEv, mNext, mLocked, mDone, mFaults, ledgerVars>>

\* on_changed of the taker returns.
TakerTurn ==
    /\ tUp /\ tNext = "None" /\ tNext' # "None" /\ TakerFollows(tEv, tNext')
    /\ UNCHANGED <<tUp, tEv, tLocked, tDone>> /\ tFaults' \in {tFaults, tFaults + 1}
    /\ tInbox' \subseteq tInbox
    /\ tNext' = "MakerPaymentAndFundingSpendPreimgReceived" => "MakerPaymentInfo" \in tInbox
    /\ tNext' = "MakerPaymentConfirmed" =>
           tEv = "MakerPaymentAndFundingSpendPreimgReceived" /\ Mined("MakerPayment")
    /\ \/ UNCHANGED <<tx, forgotten, secrets>>
       \/ tEv = "Negotiated" /\ SendPayment("TakerFunding")
       \/ SpendOk("MakerPaymentSpend")
       \/ tEv = "TakerFundingRefundRequired" /\ SpendOk("FundingRefund")
       \/ /\ tEv = "TakerPaymentRefundRequired" /\ now > taker_payment_locktime(tStartedAt)
          /\ SpendOk("TakerPaymentRefund")
       \/ tEv = "MakerPaymentConfirmed" /\ SpendOk("TakerPayment")

TakerSecondWait ==
    /\ tInbox' \subseteq tInbox
    /\ UNCHANGED <<tUp, tEv, tNext, tLocked, tDone, tFaults, ledgerVars>>

\* Every handler of the maker is one of these.
LEMMA MakerTurns ==
    ASSUME MakerTypeOK, NEW u, MakerHandles(u)
    PROVE  MakerTurn \/ MakerSecondWait \/ MakerStoreEvent \/ MakerOnFinished
<1>. USE DEF MakerTurn, MakerFollows, MakerBefore, MakerLastStates, MakerGoes, MakerIn, ledgerVars
<1>1. CASE MakerInitialize
    BY <1>1 DEF MakerInitialize, MakerFine, MakerFaulty
<1>2. CASE MakerInitialized(u)
    BY <1>2 DEF MakerInitialized, MakerFine, MakerJust
<1>3. CASE MakerWaitingForTakerFunding
    BY <1>3 DEF MakerWaitingForTakerFunding, MakerFine, MakerJust
<1>4. CASE MakerTakerFundingReceived
    BY <1>4 DEF MakerTakerFundingReceived, MakerFine, MakerFaulty, MakerFails
<1>5. CASE MakerPaymentSentFundingSpendGenerated
    BY <1>5 DEF MakerPaymentSentFundingSpendGenerated, MakerFine, MakerFaulty, MakerJust, MakerFails
<1>6. CASE MakerTakerPaymentReceived
    BY <1>6 DEF MakerTakerPaymentReceived, MakerSpendsTakerPayment, SpendRefused, MakerFine,
                MakerFaulty, MakerJust, MakerFails, MakerSecondWait, wait_for_confirmations
<1>7. CASE MakerTakerPaymentReceivedAndPreimageValidationSkipped
    BY <1>7 DEF MakerTakerPaymentReceivedAndPreimageValidationSkipped, MakerSpendsTakerPayment,
                SpendRefused, MakerFine, MakerFaulty, MakerJust, MakerFails,
                wait_for_confirmations
<1>8. CASE MakerTakerPaymentSpent
    BY <1>8 DEF MakerTakerPaymentSpent, MakerFine, MakerFaulty, MakerJust, MakerFails
<1>9. CASE MakerPaymentRefundRequired
    BY <1>9 DEF MakerPaymentRefundRequired, MakerRefunds, SpendRefused, MakerFine, MakerFaulty,
                MakerFails
<1>. QED
    BY <1>1, <1>2, <1>3, <1>4, <1>5, <1>6, <1>7, <1>8, <1>9 DEF MakerHandles

\* Every handler of the taker is one of these.
LEMMA TakerTurns ==
    ASSUME TakerTypeOK, NEW u, TakerHandles(u)
    PROVE  TakerTurn \/ TakerSecondWait \/ TakerStoreEvent \/ TakerOnFinished
<1>. USE DEF TakerTurn, TakerFollows, TakerBefore, TakerLastStates, TakerGoes, TakerIn, ledgerVars
<1>1. CASE TakerInitialize
    BY <1>1 DEF TakerInitialize, TakerFine, TakerFaulty
<1>2. CASE TakerInitialized(u)
    BY <1>2 DEF TakerInitialized, TakerFine, TakerJust, TakerTakes, TakerKeeps, TakerSecondWait
<1>3. CASE TakerNegotiated
    BY <1>3 DEF TakerNegotiated, TakerFine, TakerFaulty, TakerFails, TakerKeeps
<1>4. CASE TakerFundingSent
    BY <1>4 DEF TakerFundingSent, TakerFine, TakerJust, TakerTakes, TakerKeeps
<1>5. CASE TakerMakerPaymentAndFundingSpendPreimgReceived
    BY <1>5 DEF TakerMakerPaymentAndFundingSpendPreimgReceived, TakerFine, TakerFaulty, TakerJust,
                TakerFails, TakerKeeps, wait_for_confirmations
<1>6. CASE TakerMakerPaymentConfirmed
    BY <1>6 DEF TakerMakerPaymentConfirmed, SpendRefused, TakerFine, TakerFaulty, TakerFails,
                TakerKeeps
<1>7. CASE TakerPaymentSent \/ TakerPaymentSentAndPreimageSendingSkipped
    BY <1>7 DEF TakerPaymentSent, TakerPaymentSentAndPreimageSendingSkipped,
                FindTakerPaymentSpend, TakerFine, TakerFaulty, TakerJust, TakerFails, TakerKeeps
<1>8. CASE TakerTakerPaymentSpent
    BY <1>8 DEF TakerTakerPaymentSpent, SpendRefused, TakerFine, TakerFaulty, TakerFails, TakerKeeps
<1>9. CASE TakerMakerPaymentSpent
    BY <1>9 DEF TakerMakerPaymentSpent, TakerFine, TakerFaulty, TakerJust, TakerFails, TakerKeeps
<1>10. CASE TakerFundingRefundRequired \/ TakerPaymentRefundRequired
    BY <1>10 DEF TakerFundingRefundRequired, TakerPaymentRefundRequired, TakerRefunds,
                 SpendRefused, TakerFine, TakerFaulty, TakerFails, TakerKeeps, can_refund_htlc
<1>. QED
    BY <1>1, <1>2, <1>3, <1>4, <1>5, <1>6, <1>7, <1>8, <1>9, <1>10 DEF TakerHandles

-----------------------------------------------------------------------------
(* What the calls and a block do to the chains.                            *)

\* A payment changes itself, and its own count.
LEMMA SendFacts ==
    ASSUME LedgerTypeOK, NEW p \in Payments, SendPayment(p)
    PROVE  /\ \A u \in Txs \ {p} : tx'[u] = tx[u]
           /\ tx'[p] = "mempool"
           /\ \A q \in Payments \ {p} : forgotten'[q] = forgotten[q]
           /\ forgotten'[p] = IF Seen(p) THEN forgotten[p] + 1 ELSE forgotten[p]
BY DEF SendPayment, LedgerTypeOK, Txs, Payments

\* A spend changes itself only, and nothing that is mined.
LEMMA SpendFacts ==
    ASSUME LedgerTypeOK, NEW t \in Spends, SpendOk(t)
    PROVE  /\ \A u \in Txs \ {t} : tx'[u] = tx[u]
           /\ tx'[t] = "mempool" /\ ~Mined(t) /\ forgotten' = forgotten
BY TxFacts DEF SpendOk, LedgerTypeOK

-----------------------------------------------------------------------------
(* The steps keep the invariant.                                           *)

RunKept == PathInv' /\ LockInv' /\ SentInv' /\ ConfirmInv'

\* A state of the maker is decided on, and its calls are made.
LEMMA MakerTurnKeeps ==
    ASSUME RunInv, MakerTurn, UNCHANGED takerVars
    PROVE  RunKept
<1>0. LedgerTypeOK /\ MakerTypeOK /\ TakerTypeOK
    BY DEF RunInv, V2Inv, TypeOK
<1>1. PathInv' /\ LockInv'
    BY DEF RunInv, PathInv, LockInv, MakerTurn, takerVars
<1>2. CASE UNCHANGED <<tx, forgotten>>
    BY <1>0, <1>1, <1>2
       DEF RunKept, RunInv, SentInv, ConfirmInv, TakerKnowsPayment, MakerTurn, takerVars, Seen, Mined, LedgerTypeOK,
           MakerTypeOK, Payments
<1>3. CASE mEv = "TakerFundingReceived" /\ SendPayment("MakerPayment")
  <2>1. /\ \A u \in Txs \ {"MakerPayment"} : tx'[u] = tx[u]
        /\ forgotten'["TakerFunding"] = forgotten["TakerFunding"]
        /\ forgotten'["MakerPayment"] = IF Seen("MakerPayment") THEN forgotten["MakerPayment"] + 1
                                        ELSE forgotten["MakerPayment"]
    BY <1>0, <1>3, SendFacts DEF Payments
  <2>2. SentInv'
    BY <1>0, <1>3, <2>1, TxFacts
       DEF RunInv, SentInv, MakerTurn, takerVars, Seen, LedgerTypeOK, MakerTypeOK, Payments
  <2>3. ConfirmInv'
    BY <1>3, <2>1, TxFacts
       DEF RunInv, ConfirmInv, TakerKnowsPayment, MakerTurn, MakerBefore, takerVars, Seen, Mined
  <2>. QED
    BY <1>1, <2>2, <2>3 DEF RunKept
<1>4. ASSUME NEW t \in Spends \ {"TakerPayment"}, SpendOk(t),
             t = "TakerPaymentSpend" => mPhase = "recv" \/ Mined("TakerPayment")
      PROVE  RunKept
  <2>1. (\A u \in Txs \ {t} : tx'[u] = tx[u]) /\ forgotten' = forgotten
    BY <1>0, <1>4, SpendFacts
  <2>2. SentInv'
    BY <1>0, <1>4, <2>1, TxFacts
       DEF RunInv, SentInv, MakerTurn, takerVars, Seen, LedgerTypeOK, MakerTypeOK, Payments
  <2>3. ConfirmInv'
    BY <1>4, <2>1, TxFacts DEF RunInv, ConfirmInv, TakerKnowsPayment, MakerTurn, takerVars, Seen, Mined
  <2>. QED
    BY <1>1, <2>2, <2>3 DEF RunKept
<1>. QED
    BY <1>2, <1>3, <1>4, TxFacts DEF MakerTurn

\* The other steps of the maker leave the chains alone.
LEMMA MakerRestKeeps ==
    ASSUME RunInv, UNCHANGED takerVars,
           \/ MakerSecondWait \/ MakerStoreEvent \/ MakerOnFinished \/ MakerStoreFails
           \/ MakerDies \/ MakerKickstart \/ MakerReceives(TakerSends)
    PROVE  RunKept
<1>0. LedgerTypeOK /\ MakerTypeOK /\ PathInv /\ LockInv /\ SentInv /\ ConfirmInv
    BY DEF RunInv, V2Inv, TypeOK
<1>1. UNCHANGED <<tx, forgotten>> /\ \A u : (Seen(u)' <=> Seen(u)) /\ (Mined(u)' <=> Mined(u))
    BY DEF MakerSecondWait, MakerStoreEvent, MakerOnFinished, MakerStoreFails, MakerDies,
           MakerKickstart, MakerReceives, ledgerVars, Seen, Mined
<1>2. PathInv'
    BY <1>0 DEF PathInv, takerVars, MakerSecondWait, MakerStoreEvent, MakerOnFinished,
                MakerStoreFails, MakerDies, MakerKickstart, MakerReceives
<1>3. LockInv'
  <2>1. CASE MakerStoreEvent
    BY <1>0, <2>1 DEF PathInv, LockInv, takerVars, MakerStoreEvent, maker_on_event, MakerFollows,
                      MakerBefore, MakerLastStates
  <2>2. CASE MakerKickstart
    BY <1>0, <2>2 DEF LockInv, takerVars, MakerKickstart, maker_on_kickstart_event, MakerBefore
  <2>. QED
    BY <1>0, <2>1, <2>2
       DEF LockInv, takerVars, MakerSecondWait, MakerOnFinished, MakerStoreFails, MakerDies,
           MakerReceives
<1>4. SentInv'
  <2>1. CASE MakerStoreEvent
    BY <1>0, <1>1, <2>1 DEF PathInv, SentInv, takerVars, MakerStoreEvent, MakerFollows, MakerBefore,
                            MakerLastStates
  <2>2. CASE MakerStoreFails \/ MakerDies
    BY <1>0, <1>1, <2>2 DEF SentInv, takerVars, MakerStoreFails, MakerDies, MakerFaulty,
                            LedgerTypeOK, MakerTypeOK, Payments
  <2>3. CASE MakerOnFinished
    <3>1. UNCHANGED <<mEv, mNext>> /\ mEv \in MakerLastStates
      BY <2>3 DEF MakerOnFinished
    <3>2. MakerFine \/ MakerFaulty
      BY <2>3 DEF MakerOnFinished
    <3>3. mFaults' \in {mFaults, mFaults + 1}
      BY <3>2 DEF MakerFine, MakerFaulty
    <3>4. /\ forgotten' = forgotten /\ mFaults \in Nat
          /\ forgotten["MakerPayment"] \in Nat /\ forgotten["TakerFunding"] \in Nat
      BY <1>0, <1>1 DEF LedgerTypeOK, MakerTypeOK, Payments
    <3>. QED
      BY <1>0, <1>1, <3>1, <3>3, <3>4 DEF SentInv, takerVars, MakerLastStates
  <2>. QED
    BY <1>0, <1>1, <2>1, <2>2, <2>3
       DEF SentInv, takerVars, MakerSecondWait, MakerKickstart, MakerReceives
<1>5. ConfirmInv'
  <2>1. CASE MakerStoreEvent
    BY <1>0, <1>1, <2>1 DEF PathInv, ConfirmInv, TakerKnowsPayment, takerVars, MakerStoreEvent, MakerFollows,
                            MakerBefore, MakerLastStates
  <2>. QED
    BY <1>0, <1>1, <2>1
       DEF ConfirmInv, TakerKnowsPayment, takerVars, MakerSecondWait, MakerOnFinished, MakerStoreFails, MakerDies,
           MakerKickstart, MakerReceives
<1>. QED
    BY <1>2, <1>3, <1>4, <1>5 DEF RunKept

\* A state of the taker is decided on, and its calls are made.
LEMMA TakerTurnKeeps ==
    ASSUME RunInv, TakerTurn, UNCHANGED makerVars
    PROVE  RunKept
<1>0. LedgerTypeOK /\ MakerTypeOK /\ TakerTypeOK
    BY DEF RunInv, V2Inv, TypeOK
<1>1. PathInv' /\ LockInv'
    BY DEF RunInv, PathInv, LockInv, TakerTurn, makerVars
<1>2. CASE UNCHANGED <<tx, forgotten>>
  <2>1. SentInv'
    BY <1>0, <1>2 DEF RunInv, SentInv, TakerTurn, makerVars, Seen, LedgerTypeOK, TakerTypeOK, Payments
  <2>2. ConfirmInv'
    BY <1>2 DEF RunInv, ConfirmInv, TakerKnowsPayment, TakerTurn, makerVars, Seen, Mined
  <2>. QED
    BY <1>1, <2>1, <2>2 DEF RunKept
<1>3. CASE tEv = "Negotiated" /\ SendPayment("TakerFunding")
  <2>1. /\ \A u \in Txs \ {"TakerFunding"} : tx'[u] = tx[u]
        /\ forgotten'["MakerPayment"] = forgotten["MakerPayment"]
        /\ forgotten'["TakerFunding"] = IF Seen("TakerFunding") THEN forgotten["TakerFunding"] + 1
                                        ELSE forgotten["TakerFunding"]
    BY <1>0, <1>3, SendFacts DEF Payments
  <2>2. SentInv'
    BY <1>0, <1>3, <2>1, TxFacts
       DEF RunInv, SentInv, TakerTurn, makerVars, Seen, LedgerTypeOK, TakerTypeOK, Payments
  <2>3. ConfirmInv'
    BY <1>3, <2>1, TxFacts DEF RunInv, ConfirmInv, TakerKnowsPayment, TakerTurn, makerVars, Seen, Mined
  <2>. QED
    BY <1>1, <2>2, <2>3 DEF RunKept
<1>4. ASSUME NEW t \in Spends \ {"TakerPaymentSpend"}, SpendOk(t),
             t = "TakerPayment" => tEv = "MakerPaymentConfirmed"
      PROVE  RunKept
  <2>1. /\ (\A u \in Txs \ {t} : tx'[u] = tx[u]) /\ forgotten' = forgotten
        /\ tx'[t] = "mempool" /\ ~Mined(t)
    BY <1>0, <1>4, SpendFacts
  <2>2. SentInv'
    BY <1>0, <1>4, <2>1, TxFacts
       DEF RunInv, SentInv, TakerTurn, makerVars, Seen, LedgerTypeOK, TakerTypeOK, Payments
  <2>3. ConfirmInv'
    BY <1>4, <2>1, TxFacts DEF RunInv, ConfirmInv, TakerKnowsPayment, TakerTurn, makerVars, Seen, Mined
  <2>. QED
    BY <1>1, <2>2, <2>3 DEF RunKept
<1>. QED
    BY <1>2, <1>3, <1>4, TxFacts DEF TakerTurn

\* The other steps of the taker leave the chains alone; "MakerPaymentInfo" comes from a maker
\* that has stored its payment.
LEMMA TakerRestKeeps ==
    ASSUME RunInv, UNCHANGED makerVars,
           \/ TakerSecondWait \/ TakerStoreEvent \/ TakerOnFinished \/ TakerStoreFails
           \/ TakerDies \/ TakerKickstart \/ TakerReceives(MakerSends)
    PROVE  RunKept
<1>0. LedgerTypeOK /\ TakerTypeOK /\ PathInv /\ LockInv /\ SentInv /\ ConfirmInv
    BY DEF RunInv, V2Inv, TypeOK
<1>1. UNCHANGED <<tx, forgotten>> /\ \A u : (Seen(u)' <=> Seen(u)) /\ (Mined(u)' <=> Mined(u))
    BY DEF TakerSecondWait, TakerStoreEvent, TakerOnFinished, TakerStoreFails, TakerDies,
           TakerKickstart, TakerReceives, ledgerVars, Seen, Mined
<1>2. PathInv'
    BY <1>0 DEF PathInv, makerVars, TakerSecondWait, TakerStoreEvent, TakerOnFinished,
                TakerStoreFails, TakerDies, TakerKickstart, TakerReceives
<1>3. LockInv'
  <2>1. CASE TakerStoreEvent
    BY <1>0, <2>1 DEF PathInv, LockInv, makerVars, TakerStoreEvent, taker_on_event, TakerFollows,
                      TakerBefore, TakerLastStates
  <2>2. CASE TakerKickstart
    BY <1>0, <2>2 DEF LockInv, makerVars, TakerKickstart, taker_on_kickstart_event, TakerBefore
  <2>. QED
    BY <1>0, <2>1, <2>2
       DEF LockInv, makerVars, TakerSecondWait, TakerOnFinished, TakerStoreFails, TakerDies,
           TakerReceives
<1>4. SentInv'
  <2>1. CASE TakerStoreEvent
    BY <1>0, <1>1, <2>1 DEF PathInv, SentInv, makerVars, TakerStoreEvent, TakerFollows, TakerBefore,
                            TakerLastStates
  <2>2. CASE TakerStoreFails \/ TakerDies
    BY <1>0, <1>1, <2>2 DEF SentInv, makerVars, TakerStoreFails, TakerDies, TakerFaulty,
                            LedgerTypeOK, TakerTypeOK, Payments
  <2>3. CASE TakerOnFinished
    <3>1. UNCHANGED <<tEv, tNext>> /\ tEv \in TakerLastStates
      BY <2>3 DEF TakerOnFinished
    <3>2. TakerFine \/ TakerFaulty
      BY <2>3 DEF TakerOnFinished
    <3>3. tFaults' \in {tFaults, tFaults + 1}
      BY <3>2 DEF TakerFine, TakerFaulty
    <3>4. /\ forgotten' = forgotten /\ tFaults \in Nat
          /\ forgotten["MakerPayment"] \in Nat /\ forgotten["TakerFunding"] \in Nat
      BY <1>0, <1>1 DEF LedgerTypeOK, TakerTypeOK, Payments
    <3>. QED
      BY <1>0, <1>1, <3>1, <3>3, <3>4 DEF SentInv, makerVars, TakerLastStates
  <2>. QED
    BY <1>0, <1>1, <2>1, <2>2, <2>3
       DEF SentInv, makerVars, TakerSecondWait, TakerKickstart, TakerReceives
<1>5. ConfirmInv'
  <2>1. CASE TakerReceives(MakerSends)
    <3>1. "MakerPaymentInfo" \in MakerSends => mEv \notin MakerBefore
      BY DEF MakerSends, MakerBefore
    <3>. QED
      BY <1>0, <1>1, <2>1, <3>1 DEF ConfirmInv, TakerKnowsPayment, makerVars, TakerReceives
  <2>2. CASE TakerStoreEvent \/ TakerSecondWait \/ TakerOnFinished
    BY <1>0, <1>1, <2>2 DEF ConfirmInv, TakerKnowsPayment, makerVars, TakerStoreEvent, TakerSecondWait, TakerOnFinished
  <2>. QED
    BY <1>0, <1>1, <2>1, <2>2
       DEF ConfirmInv, TakerKnowsPayment, makerVars, TakerStoreFails, TakerDies, TakerKickstart
<1>. QED
    BY <1>2, <1>3, <1>4, <1>5 DEF RunKept

\* The initial states have the invariant.
LEMMA RunInvInit == Init => RunInv
<1>. SUFFICES ASSUME Init PROVE RunInv
    OBVIOUS
<1>1. \A u \in Txs : ~Seen(u)
    BY DEF Init, LedgerInit, Seen
<1>2. PathInv /\ LockInv
    BY DEF Init, MakerInit, TakerInit, PathInv, LockInv, MakerBefore, TakerBefore
<1>3. SentInv
    BY <1>1, TxFacts DEF Init, LedgerInit, MakerInit, TakerInit, SentInv, Payments
<1>4. ConfirmInv
    BY <1>1, TxFacts DEF Init, MakerInit, TakerInit, ConfirmInv, TakerKnowsPayment
<1>. QED
    BY <1>2, <1>3, <1>4, V2InvInit DEF RunInv

\* Every step keeps it.
LEMMA RunInvNext == RunInv /\ [Next]_vars => RunInv'
<1>. SUFFICES ASSUME RunInv, [Next]_vars PROVE RunInv'
    OBVIOUS
<1>0. V2Inv /\ LedgerTypeOK /\ MakerTypeOK /\ TakerTypeOK /\ OneMined /\ HasParent
    BY DEF RunInv, V2Inv, TypeOK
<1>1. ASSUME MakerWorks PROVE RunKept
    BY <1>0, <1>1, MakerTurns, MakerTurnKeeps, MakerRestKeeps DEF MakerWorks
<1>2. ASSUME TakerWorks PROVE RunKept
    BY <1>0, <1>2, TakerTurns, TakerTurnKeeps, TakerRestKeeps DEF TakerWorks
<1>3. ASSUME MakerStep PROVE RunKept
    BY <1>3, MakerRestKeeps DEF MakerStep
<1>4. ASSUME TakerStep PROVE RunKept
    BY <1>4, TakerRestKeeps DEF TakerStep
<1>5. ASSUME UNCHANGED <<makerVars, takerVars>>, forgotten' = forgotten,
             \A u \in Txs : (Seen(u)' => Seen(u)) /\ (Mined(u) => Mined(u)')
      PROVE  RunKept
  <2>1. PathInv' /\ LockInv'
    BY <1>5 DEF RunInv, PathInv, LockInv, makerVars, takerVars
  <2>2. SentInv' /\ ConfirmInv'
    BY <1>5, TxFacts DEF RunInv, SentInv, ConfirmInv, TakerKnowsPayment, makerVars,
                        takerVars
  <2>. QED
    BY <2>1, <2>2 DEF RunKept
<1>6. ASSUME MineStep PROVE RunKept
    BY <1>0, <1>5, <1>6, BlockFacts DEF MineStep
<1>7. ASSUME Tick \/ UNCHANGED vars PROVE RunKept
    BY <1>5, <1>7 DEF Tick, vars, ledgerVars, Seen, Mined
<1>8. RunKept
    BY <1>1, <1>2, <1>3, <1>4, <1>6, <1>7 DEF Next
<1>. QED
    BY <1>0, <1>8, V2InvNext DEF RunInv, RunKept

\* The invariant holds in every behaviour.
LEMMA RunInvariant == Spec => []RunInv
BY RunInvInit, RunInvNext, PTL DEF Spec

-----------------------------------------------------------------------------
(* The theorems.                                                           *)

\* The taker spends its funding only against a payment of the maker that is confirmed and
\* stays so, and the maker's secret becomes public only when the taker's payment is
\* confirmed: also when the maker's node dies before it has stored its payment and sends
\* another one.
THEOREM PaidAgainstConfirmedV2 == Spec => []PaidAgainstConfirmed
<1>1. RunInv => PaidAgainstConfirmed
    BY DEF RunInv, ConfirmInv, TakerKnowsPayment, PaidAgainstConfirmed
<1>. QED
    BY <1>1, RunInvariant, PTL

\* Whatever fails and however often a machine is restarted, on_event and on_kickstart_event
\* agree on when the amount is locked.
THEOREM LockedUntilSentV2 == Spec => []LockedUntilSent
<1>1. RunInv => LockedUntilSent
    BY DEF RunInv, LockInv, MakerBefore, TakerBefore, LockedUntilSent
<1>. QED
    BY <1>1, RunInvariant, PTL

\* A payment is sent again only after a fault, and each fault costs at most one copy.
THEOREM ForgottenOnlyAfterFaultV2 == Spec => []ForgottenOnlyAfterFault
<1>1. RunInv => ForgottenOnlyAfterFault
    BY DEF RunInv, SentInv, ForgottenOnlyAfterFault
<1>. QED
    BY <1>1, RunInvariant, PTL

-----------------------------------------------------------------------------
(* What follows needs the clock: nodes that run are never late (NobodyLate)*)
(* and the machines' deadlines are apart.                                  *)

\* Where a machine is that loses nothing it decided on.
TakerAt == IF tNext = "None" THEN tEv ELSE tNext
MakerAt == IF mNext = "None" THEN mEv ELSE mNext

\* The taker's states after its payment is sent, with and without the maker's answer.
TakerOnTrack == {"TakerPaymentSent", "TakerPaymentSentAndPreimageSendingSkipped",
                 "TakerPaymentSpent", "MakerPaymentSpent", "Completed"}
TakerGoesBack == {"TakerPaymentRefundRequired", "TakerPaymentRefunded"}

MakerPaid == {"MakerPaymentSentFundingSpendGenerated", "TakerPaymentReceived",
              "TakerPaymentReceivedAndPreimageValidationSkipped", "TakerPaymentSpent",
              "MakerPaymentRefundRequired", "MakerPaymentRefundRequiredTakerSecret",
              "Completed", "MakerPaymentRefunded"}

\* The maker waits for the taker's preimage.
MakerWaits == mUp /\ mEv = "TakerPaymentReceived" /\ mNext = "None" /\ mPhase = "recv"

\* A finished machine is in a last state.
DoneInv ==
    /\ mDone => mEv \in MakerLastStates /\ mNext = "None"
    /\ tDone => tEv \in TakerLastStates /\ tNext = "None"

\* A taker that has gone beyond the maker's offer knows when the maker started.
TakerKnowsStart ==
    \/ tPhase = "recv"
    \/ tEv \notin {"None", "Initialized", "Aborted"}
    \/ tNext \notin {"None", "Initialized", "Aborted"}

StartInv ==
    /\ tInbox # {} => mEv # "None"
    /\ TakerKnowsStart =>
           tEv # "None" /\ mEv # "None" /\ mStartedAt <= tStartedAt + MaxStartedAtDiff

\* The two ways to go on after the taker's payment belong to the two kinds of taker coins.
SkipInv ==
    /\ "TakerPaymentReceived" \in {mEv, mNext} => ~skip
    /\ "TakerPaymentReceivedAndPreimageValidationSkipped" \in {mEv, mNext} => skip
    /\ "TakerPaymentSent" \in {tEv, tNext} => ~skip
    /\ "TakerPaymentSentAndPreimageSendingSkipped" \in {tEv, tNext} => skip

\* A refund is not sent before its timelock, and the taker's timelock is after the last moment
\* at which the maker takes the taker's payment for confirmed.
RefundInv ==
    /\ Seen("MakerPaymentRefund") => now > maker_payment_locktime(mStartedAt)
    /\ Seen("TakerPaymentRefund") =>
           mEv # "None" /\ now > taker_payment_conf_timeout(mStartedAt)

\* The taker's states before its payment.
TakerEarly == {"None", "Initialized", "Negotiated", "TakerFundingSent",
               "TakerFundingRefundRequired", "MakerPaymentAndFundingSpendPreimgReceived"}

\* A taker without faults takes its funding back or pays, and never both.
FaultlessInv ==
    /\ tUp
    /\ Seen("TakerPayment") =>
           TakerAt \notin TakerEarly \cup {"MakerPaymentConfirmed", "TakerFundingRefunded"}
    /\ "taker" \in secrets => TakerAt = "TakerFundingRefunded"

\* When the preimage is not late the maker's secret comes out in time, and the transaction that
\* shows it prevails.
SpendLasts ==
    /\ "maker" \in secrets => Seen("TakerPaymentSpend")
    /\ Seen("TakerPaymentSpend") /\ ~Mined("TakerPaymentSpend") =>
           now <= taker_payment_conf_timeout(mStartedAt)

\* A taker without faults whose preimage is not late, or not needed.
Attended == tFaults = 0 /\ (skip \/ reliable)

\* Such a taker sees the spend of its payment, and answers it, while the maker could still be
\* waiting for the payment to confirm; it goes back only when the maker cannot spend any more.
TakerPlaced ==
    /\ Seen("TakerPayment") <=> TakerAt \in TakerOnTrack \cup TakerGoesBack
    /\ TakerAt \in TakerGoesBack =>
           now > taker_payment_locktime(tStartedAt) /\ ~Seen("TakerPaymentSpend")
    /\ Seen("TakerPaymentRefund") => TakerAt = "TakerPaymentRefunded"
    /\ Seen("MakerPaymentSpend") <=> TakerAt \in {"MakerPaymentSpent", "Completed"}
    /\ TakerAt = "MakerPaymentSpent" => now <= taker_payment_locktime(tStartedAt)

SpentInTime ==
    /\ Seen("TakerPaymentSpend") /\ ~Mined("MakerPaymentSpend") =>
           now <= taker_payment_conf_timeout(mStartedAt)
    /\ MakerWaits /\ ~Seen("TakerPaymentSpend") => now <= taker_payment_conf_timeout(mStartedAt)

TakerInTime == TakerPlaced /\ SpentInTime

\* A maker without faults, when the preimage is not late, or not needed.
MakerAttended == mFaults = 0 /\ PreimageInTime

\* Such a maker has what it sent in its states, and no refund of it is ever refused.
MakerInTime ==
    /\ mUp
    /\ Seen("MakerPayment") <=> MakerAt \in MakerPaid
    /\ Seen("TakerPaymentSpend") <=> MakerAt \in {"TakerPaymentSpent", "Completed"}
    /\ MakerAt = "TakerPaymentSpent" => now <= maker_payment_locktime(mStartedAt)
    /\ Seen("MakerPaymentRefund") \/ Seen("MakerPaymentSecretRefund") =>
           MakerAt = "MakerPaymentRefunded"

\* The parts that hold for everyone.
CourseInv == DoneInv /\ StartInv /\ SkipInv /\ RefundInv

TimeInv ==
    /\ RunInv /\ CourseInv
    /\ tFaults = 0 => FaultlessInv
    /\ PreimageInTime => SpendLasts
    /\ Attended => TakerInTime
    /\ MakerAttended => MakerInTime

\* A call that spends adds one transaction to those that are seen, and mines nothing.
LEMMA SpendSeen ==
    ASSUME LedgerTypeOK, NEW t \in Spends, SpendOk(t)
    PROVE  /\ \A u \in Txs : Seen(u)' <=> Seen(u) \/ u = t
           /\ \A u \in Txs : Mined(u)' <=> Mined(u)
           /\ secrets' = secrets \cup Shows(t)
<1>1. secrets' = secrets \cup Shows(t)
    BY DEF SpendOk
<1>. QED
    BY <1>1, SpendFacts, TxFacts DEF Seen, Mined

\* A payment is seen, and nothing else changes.
LEMMA SendSeen ==
    ASSUME LedgerTypeOK, NEW p \in Payments, SendPayment(p)
    PROVE  /\ \A u \in Txs : Seen(u)' <=> Seen(u) \/ u = p
           /\ \A u \in Txs \ {p} : Mined(u)' <=> Mined(u)
           /\ secrets' = secrets
<1>1. secrets' = secrets
    BY DEF SendPayment
<1>. QED
    BY <1>1, SendFacts, TxFacts DEF Seen, Mined, Payments

-----------------------------------------------------------------------------
(* The steps of the maker, as far as the clock matters.                    *)

MakerCourse ==
    /\ UNCHANGED <<now, skip, reliable>>
    /\ mEv # "None" => mEv' # "None" /\ mStartedAt' = mStartedAt
    /\ MakerWaits' => \/ MakerWaits
                      \/ mEv # "None" /\ now <= taker_payment_conf_timeout(mStartedAt)

MakerSkips ==
    /\ "TakerPaymentReceived" \in {mEv', mNext'} =>
           "TakerPaymentReceived" \in {mEv, mNext} \/ ~skip
    /\ "TakerPaymentReceivedAndPreimageValidationSkipped" \in {mEv', mNext'} =>
           "TakerPaymentReceivedAndPreimageValidationSkipped" \in {mEv, mNext} \/ skip

MakerCalls ==
    \/ UNCHANGED <<tx, secrets>>
    \/ SendPayment("MakerPayment")
    \/ /\ mEv # "None" /\ now > maker_payment_locktime(mStartedAt)
       /\ SpendOk("MakerPaymentRefund")
    \/ SpendOk("MakerPaymentSecretRefund")
    \/ /\ mEv # "None" /\ SpendOk("TakerPaymentSpend")
       /\ MakerWaits \/ now <= taker_payment_conf_timeout(mStartedAt)

\* A handler of the maker does not move the clock, starts once, and reaches the second wait in
\* time.
LEMMA MakerCourses ==
    ASSUME NEW u, MakerHandles(u)
    PROVE  MakerCourse
<1>. USE DEF MakerCourse, MakerGoes, MakerIn, ledgerVars, MakerWaits
<1>1. CASE MakerInitialize
    BY <1>1 DEF MakerInitialize
<1>2. CASE MakerInitialized(u)
    BY <1>2 DEF MakerInitialized, MakerJust
<1>3. CASE MakerWaitingForTakerFunding
    BY <1>3 DEF MakerWaitingForTakerFunding, MakerJust
<1>4. CASE MakerTakerFundingReceived
    BY <1>4 DEF MakerTakerFundingReceived, MakerFails
<1>5. CASE MakerPaymentSentFundingSpendGenerated
    BY <1>5 DEF MakerPaymentSentFundingSpendGenerated, MakerJust, MakerFails
<1>6. CASE MakerTakerPaymentReceived
    BY <1>6 DEF MakerTakerPaymentReceived, MakerSpendsTakerPayment, SpendRefused,
                MakerJust, MakerFails, wait_for_confirmations
<1>7. CASE MakerTakerPaymentReceivedAndPreimageValidationSkipped
    BY <1>7 DEF MakerTakerPaymentReceivedAndPreimageValidationSkipped, MakerJust, MakerFails,
                MakerSpendsTakerPayment, SpendRefused, wait_for_confirmations
<1>8. CASE MakerTakerPaymentSpent
    BY <1>8 DEF MakerTakerPaymentSpent, MakerJust, MakerFails
<1>9. CASE MakerPaymentRefundRequired
    BY <1>9 DEF MakerPaymentRefundRequired, MakerRefunds, SpendRefused, MakerFails,
                can_refund_htlc
<1>10. CASE MakerStoreEvent
    BY <1>10 DEF MakerStoreEvent
<1>11. CASE MakerOnFinished
    BY <1>11 DEF MakerOnFinished
<1>. QED
    BY <1>1, <1>2, <1>3, <1>4, <1>5, <1>6, <1>7, <1>8, <1>9, <1>10, <1>11 DEF MakerHandles

\* The maker expects a preimage of the coins that have one.
LEMMA MakerSkipsRight ==
    ASSUME NEW u, MakerHandles(u)
    PROVE  MakerSkips
<1>. USE DEF MakerSkips, MakerGoes, MakerIn, ledgerVars
<1>1. CASE MakerInitialize
    BY <1>1 DEF MakerInitialize
<1>2. CASE MakerInitialized(u)
    BY <1>2 DEF MakerInitialized, MakerJust
<1>3. CASE MakerWaitingForTakerFunding
    BY <1>3 DEF MakerWaitingForTakerFunding, MakerJust
<1>4. CASE MakerTakerFundingReceived
    BY <1>4 DEF MakerTakerFundingReceived, MakerFails
<1>5. CASE MakerPaymentSentFundingSpendGenerated
    BY <1>5 DEF MakerPaymentSentFundingSpendGenerated, MakerJust, MakerFails
<1>6. CASE MakerTakerPaymentReceived
    BY <1>6 DEF MakerTakerPaymentReceived, MakerSpendsTakerPayment, SpendRefused,
                MakerJust, MakerFails, wait_for_confirmations
<1>7. CASE MakerTakerPaymentReceivedAndPreimageValidationSkipped
    BY <1>7 DEF MakerTakerPaymentReceivedAndPreimageValidationSkipped, MakerJust, MakerFails,
                MakerSpendsTakerPayment, SpendRefused, wait_for_confirmations
<1>8. CASE MakerTakerPaymentSpent
    BY <1>8 DEF MakerTakerPaymentSpent, MakerJust, MakerFails
<1>9. CASE MakerPaymentRefundRequired
    BY <1>9 DEF MakerPaymentRefundRequired, MakerRefunds, SpendRefused, MakerFails,
                can_refund_htlc
<1>10. CASE MakerStoreEvent
    BY <1>10 DEF MakerStoreEvent
<1>11. CASE MakerOnFinished
    BY <1>11 DEF MakerOnFinished
<1>. QED
    BY <1>1, <1>2, <1>3, <1>4, <1>5, <1>6, <1>7, <1>8, <1>9, <1>10, <1>11 DEF MakerHandles

\* What a handler of the maker sends, and when.
LEMMA MakerCallsInTime ==
    ASSUME NEW u, MakerHandles(u)
    PROVE  MakerCalls
<1>. USE DEF MakerCalls, MakerGoes, MakerIn, ledgerVars, MakerWaits
<1>1. CASE MakerInitialize
    BY <1>1 DEF MakerInitialize
<1>2. CASE MakerInitialized(u)
    BY <1>2 DEF MakerInitialized, MakerJust
<1>3. CASE MakerWaitingForTakerFunding
    BY <1>3 DEF MakerWaitingForTakerFunding, MakerJust
<1>4. CASE MakerTakerFundingReceived
    BY <1>4 DEF MakerTakerFundingReceived, MakerFails
<1>5. CASE MakerPaymentSentFundingSpendGenerated
    BY <1>5 DEF MakerPaymentSentFundingSpendGenerated, MakerJust, MakerFails
<1>6. CASE MakerTakerPaymentReceived
    BY <1>6 DEF MakerTakerPaymentReceived, MakerSpendsTakerPayment, SpendRefused,
                MakerJust, MakerFails, wait_for_confirmations
<1>7. CASE MakerTakerPaymentReceivedAndPreimageValidationSkipped
    BY <1>7 DEF MakerTakerPaymentReceivedAndPreimageValidationSkipped, MakerJust, MakerFails,
                MakerSpendsTakerPayment, SpendRefused, wait_for_confirmations
<1>8. CASE MakerTakerPaymentSpent
    BY <1>8 DEF MakerTakerPaymentSpent, MakerJust, MakerFails
<1>9. CASE MakerPaymentRefundRequired
    BY <1>9 DEF MakerPaymentRefundRequired, MakerRefunds, SpendRefused, MakerFails,
                can_refund_htlc
<1>10. CASE MakerStoreEvent
    BY <1>10 DEF MakerStoreEvent
<1>11. CASE MakerOnFinished
    BY <1>11 DEF MakerOnFinished
<1>. QED
    BY <1>1, <1>2, <1>3, <1>4, <1>5, <1>6, <1>7, <1>8, <1>9, <1>10, <1>11 DEF MakerHandles

\* A failed store, a death, a restart and a message are harmless in all three respects.
LEMMA MakerStepCourses ==
    ASSUME NEW sends,
           MakerStoreFails \/ MakerDies \/ MakerKickstart \/ MakerReceives(sends)
    PROVE  MakerCourse /\ MakerSkips /\ MakerCalls
<1>. USE DEF MakerCourse, MakerSkips, MakerCalls, MakerWaits, ledgerVars
<1>1. CASE MakerStoreFails
    BY <1>1 DEF MakerStoreFails
<1>2. CASE MakerDies
    BY <1>2 DEF MakerDies
<1>3. CASE MakerKickstart
    BY <1>3 DEF MakerKickstart
<1>4. CASE MakerReceives(sends)
    BY <1>4 DEF MakerReceives
<1>. QED
    BY <1>1, <1>2, <1>3, <1>4

\* Times are numbers.
LEMMA TimeTypes ==
    ASSUME TypeOK
    PROVE  /\ now \in Nat /\ mStartedAt \in Nat /\ tStartedAt \in Nat
           /\ LockTime \in Nat /\ MaxStartedAtDiff \in Nat /\ (LockTime * 2) \div 3 \in Nat
           /\ (LockTime * 2) \div 3 < 2 * LockTime
           /\ tFaults \in Nat /\ mFaults \in Nat
<1>1. now \in Nat /\ mStartedAt \in Nat /\ tStartedAt \in Nat /\ tFaults \in Nat /\ mFaults \in Nat
    BY V2TimesAssumption DEF TypeOK, LedgerTypeOK, MakerTypeOK, TakerTypeOK
<1>2. LockTime \in Nat /\ LockTime > 0 /\ MaxStartedAtDiff \in Nat
    BY V2TimesAssumption
<1>3. (LockTime * 2) \div 3 \in Nat /\ (LockTime * 2) \div 3 < 2 * LockTime
    BY <1>2
<1>. QED
    BY <1>1, <1>2, <1>3

-----------------------------------------------------------------------------
(* The parts of the invariant that hold for everyone.                      *)

\* What the maker does keeps them.
LEMMA MakerKeepsCourse ==
    ASSUME TimeInv, UNCHANGED takerVars, MakerCourse, MakerSkips, MakerCalls,
           mDone' => mEv' \in MakerLastStates /\ mNext' = "None"
    PROVE  CourseInv'
<1>0. LedgerTypeOK /\ DoneInv /\ StartInv /\ SkipInv /\ RefundInv
    BY DEF TimeInv, RunInv, V2Inv, TypeOK, CourseInv
<1>1. DoneInv'
    BY <1>0 DEF DoneInv, takerVars
<1>2. StartInv'
    BY <1>0 DEF StartInv, TakerKnowsStart, MakerCourse, takerVars
<1>3. SkipInv'
    BY <1>0 DEF SkipInv, MakerSkips, MakerCourse, takerVars
<1>4. RefundInv'
  <2>1. Seen("MakerPaymentRefund") => mEv # "None"
    BY TxFacts DEF TimeInv, RunInv, V2Inv, HasParent, SentInv
  <2>2. Seen("MakerPaymentRefund")' =>
            mEv # "None" /\ now > maker_payment_locktime(mStartedAt)
    BY <1>0, <2>1, SpendSeen, SendSeen, TxFacts DEF MakerCalls, RefundInv, Seen, Payments
  <2>3. Seen("TakerPaymentRefund")' => Seen("TakerPaymentRefund")
    BY <1>0, SpendSeen, SendSeen, TxFacts DEF MakerCalls, Seen, Payments
  <2>. QED
    BY <1>0, <2>2, <2>3
       DEF RefundInv, MakerCourse, maker_payment_locktime, taker_payment_conf_timeout
<1>. QED
    BY <1>1, <1>2, <1>3, <1>4 DEF CourseInv

\* The taker starts once, and goes on with a maker whose start it has compared with its own.
LEMMA TakerStarts ==
    ASSUME TypeOK, PathInv, StartInv, UNCHANGED makerVars, TakerHandles(mStartedAt)
    PROVE  StartInv'
<1>. USE DEF StartInv, TakerKnowsStart, TakerGoes, TakerIn, makerVars
<1>1. CASE TakerInitialize
    BY <1>1 DEF TakerInitialize
<1>2. CASE TakerInitialized(mStartedAt)
  <2>1. CASE /\ tPhase = "begin" /\ TakerTakes("MakerNegotiation")
             /\ AbsDiff(tStartedAt, mStartedAt) <= MaxStartedAtDiff
             /\ tPhase' = "recv"
             /\ UNCHANGED <<tUp, tEv, tNext, tLocked, tStartedAt, tDone, tFaults, ledgerVars>>
    <3>1. mStartedAt <= tStartedAt + MaxStartedAtDiff
      BY <2>1, TimeTypes DEF AbsDiff
    <3>. QED
      BY <1>2, <2>1, <3>1 DEF TakerInitialized, TakerTakes
  <2>2. CASE ~(/\ tPhase = "begin" /\ TakerTakes("MakerNegotiation")
               /\ AbsDiff(tStartedAt, mStartedAt) <= MaxStartedAtDiff
               /\ tPhase' = "recv"
               /\ UNCHANGED <<tUp, tEv, tNext, tLocked, tStartedAt, tDone, tFaults, ledgerVars>>)
    <3>1. tInbox' # {} => tInbox # {}
      BY <1>2, <2>2 DEF TakerInitialized, TakerTakes, TakerJust, TakerKeeps
    <3>2. /\ UNCHANGED <<tEv, tPhase, tStartedAt>>
          /\ tNext' \in {"Aborted", "Negotiated"} /\ (tNext' = "Negotiated" => tPhase = "recv")
      BY <1>2, <2>2 DEF TakerInitialized, TakerJust
    <3>. QED
      BY <1>2, <3>1, <3>2 DEF TakerInitialized
  <2>. QED
    BY <2>1, <2>2
<1>3. CASE TakerNegotiated
    BY <1>3 DEF TakerNegotiated, TakerFails, TakerKeeps
<1>4. CASE TakerFundingSent
    BY <1>4 DEF TakerFundingSent, TakerJust, TakerTakes, TakerKeeps
<1>5. CASE TakerMakerPaymentAndFundingSpendPreimgReceived
    BY <1>5 DEF TakerMakerPaymentAndFundingSpendPreimgReceived, TakerJust, TakerFails, TakerKeeps
<1>6. CASE TakerMakerPaymentConfirmed
    BY <1>6 DEF TakerMakerPaymentConfirmed, TakerFails, TakerKeeps
<1>7. CASE TakerPaymentSent \/ TakerPaymentSentAndPreimageSendingSkipped
    BY <1>7 DEF TakerPaymentSent, TakerPaymentSentAndPreimageSendingSkipped,
                FindTakerPaymentSpend, TakerJust, TakerFails, TakerKeeps
<1>8. CASE TakerTakerPaymentSpent
    BY <1>8 DEF TakerTakerPaymentSpent, TakerFails, TakerKeeps
<1>9. CASE TakerMakerPaymentSpent
    BY <1>9 DEF TakerMakerPaymentSpent, TakerJust, TakerFails, TakerKeeps
<1>10. CASE TakerFundingRefundRequired \/ TakerPaymentRefundRequired
    BY <1>10 DEF TakerFundingRefundRequired, TakerPaymentRefundRequired, TakerRefunds,
                 TakerFails, TakerKeeps
<1>11. CASE TakerStoreEvent
    BY <1>11 DEF TakerStoreEvent, PathInv, TakerFollows
<1>12. CASE TakerOnFinished
    BY <1>12 DEF TakerOnFinished
<1>. QED
    BY <1>1, <1>2, <1>3, <1>4, <1>5, <1>6, <1>7, <1>8, <1>9, <1>10, <1>11, <1>12 DEF TakerHandles

\* The taker sends a preimage of the coins that have one, and does not move the clock.
TakerSkips ==
    /\ UNCHANGED <<now, skip, reliable>>
    /\ "TakerPaymentSent" \in {tEv', tNext'} => "TakerPaymentSent" \in {tEv, tNext} \/ ~skip
    /\ "TakerPaymentSentAndPreimageSendingSkipped" \in {tEv', tNext'} =>
           "TakerPaymentSentAndPreimageSendingSkipped" \in {tEv, tNext} \/ skip

\* Every handler of the taker does so.
LEMMA TakerSkipsRight ==
    ASSUME NEW u, TakerHandles(u)
    PROVE  TakerSkips
<1>. USE DEF TakerSkips, TakerGoes, TakerIn, ledgerVars
<1>1. CASE TakerInitialize
    BY <1>1 DEF TakerInitialize
<1>2. CASE TakerInitialized(u)
    BY <1>2 DEF TakerInitialized, TakerJust
<1>3. CASE TakerNegotiated
    BY <1>3 DEF TakerNegotiated, TakerFails
<1>4. CASE TakerFundingSent
    BY <1>4 DEF TakerFundingSent, TakerJust
<1>5. CASE TakerMakerPaymentAndFundingSpendPreimgReceived
    BY <1>5 DEF TakerMakerPaymentAndFundingSpendPreimgReceived, TakerJust, TakerFails
<1>6. CASE TakerMakerPaymentConfirmed
    BY <1>6 DEF TakerMakerPaymentConfirmed, TakerFails
<1>7. CASE TakerPaymentSent \/ TakerPaymentSentAndPreimageSendingSkipped
    BY <1>7 DEF TakerPaymentSent, TakerPaymentSentAndPreimageSendingSkipped,
                FindTakerPaymentSpend, TakerJust, TakerFails
<1>8. CASE TakerTakerPaymentSpent
    BY <1>8 DEF TakerTakerPaymentSpent, TakerFails
<1>9. CASE TakerMakerPaymentSpent
    BY <1>9 DEF TakerMakerPaymentSpent, TakerJust, TakerFails
<1>10. CASE TakerFundingRefundRequired \/ TakerPaymentRefundRequired
    BY <1>10 DEF TakerFundingRefundRequired, TakerPaymentRefundRequired, TakerRefunds, TakerFails
<1>11. CASE TakerStoreEvent \/ TakerOnFinished
    BY <1>11 DEF TakerStoreEvent, TakerOnFinished
<1>. QED
    BY <1>1, <1>2, <1>3, <1>4, <1>5, <1>6, <1>7, <1>8, <1>9, <1>10, <1>11 DEF TakerHandles

-----------------------------------------------------------------------------
(* A taker without faults.                                                 *)

\* The maker's deadline for the taker's payment is not after the taker's for its spend.
LEMMA InTimeMargin ==
    ASSUME TypeOK, StartInv, TakerKnowsStart, DeadlinesApart
    PROVE  /\ taker_payment_conf_timeout(mStartedAt) <= taker_payment_locktime(tStartedAt)
           /\ taker_payment_conf_timeout(mStartedAt) \in Nat
           /\ taker_payment_locktime(tStartedAt) \in Nat
BY TimeTypes DEF StartInv, DeadlinesApart, taker_payment_conf_timeout, taker_payment_locktime

\* What only the maker broadcasts.
MakerTxs == {"MakerPayment", "TakerPaymentSpend", "MakerPaymentRefund", "MakerPaymentSecretRefund"}

\* No handler of the taker touches that, undoes a block or takes back a fault; and its refund is
\* not early.
LEMMA TakerLeaves ==
    ASSUME TypeOK, NEW u, TakerHandles(u)
    PROVE  /\ \A t \in MakerTxs : Seen(t)' <=> Seen(t)
           /\ Mined("MakerPaymentSpend") => Mined("MakerPaymentSpend")'
           /\ Mined("TakerPaymentSpend") => Mined("TakerPaymentSpend")'
           /\ "maker" \in secrets' => "maker" \in secrets
           /\ Seen("TakerPaymentRefund")' =>
                  \/ Seen("TakerPaymentRefund")
                  \/ /\ tEv = "TakerPaymentRefundRequired"
                     /\ now > taker_payment_locktime(tStartedAt)
           /\ tFaults' \in {tFaults, tFaults + 1}
<1>1. LedgerTypeOK /\ TakerTypeOK
    BY DEF TypeOK
<1>2. TakerTurn \/ TakerSecondWait \/ TakerStoreEvent \/ TakerOnFinished
    BY <1>1, TakerTurns
<1>. DEFINE Late == /\ tEv = "TakerPaymentRefundRequired"
                    /\ now > taker_payment_locktime(tStartedAt)
            Left == /\ \A t \in MakerTxs : Seen(t)' <=> Seen(t)
                    /\ Mined("MakerPaymentSpend") => Mined("MakerPaymentSpend")'
                    /\ Mined("TakerPaymentSpend") => Mined("TakerPaymentSpend")'
                    /\ "maker" \in secrets' => "maker" \in secrets
                    /\ Seen("TakerPaymentRefund")' => Seen("TakerPaymentRefund") \/ Late
<1>3. ASSUME UNCHANGED <<tx, secrets>> PROVE Left
    BY <1>3 DEF Seen, Mined
<1>4. ASSUME NEW t \in Spends \ MakerTxs, SpendOk(t), t = "TakerPaymentRefund" => Late PROVE Left
    BY <1>1, <1>4, SpendSeen, TxFacts DEF MakerTxs, Shows
<1>5. ASSUME SendPayment("TakerFunding") PROVE Left
    BY <1>1, <1>5, SendSeen, TxFacts DEF Payments, MakerTxs
<1>6. \/ UNCHANGED <<tx, secrets>> \/ SendPayment("TakerFunding")
      \/ \E t \in {"FundingRefund", "MakerPaymentSpend", "TakerPayment"} : SpendOk(t)
      \/ SpendOk("TakerPaymentRefund") /\ Late
    BY <1>2 DEF TakerTurn, TakerSecondWait, TakerStoreEvent, TakerOnFinished, ledgerVars
<1>7. Left
  <2>1. ASSUME SpendOk("TakerPaymentRefund"), Late PROVE Left
    BY <1>4, <2>1, TxFacts DEF MakerTxs
  <2>2. ASSUME NEW t \in {"FundingRefund", "MakerPaymentSpend", "TakerPayment"}, SpendOk(t)
        PROVE  Left
    BY <1>4, <2>2, TxFacts DEF MakerTxs
  <2>. HIDE DEF Left, Late
  <2>. QED
    BY <1>3, <1>5, <1>6, <2>1, <2>2
<1>8. tFaults' \in {tFaults, tFaults + 1}
  <2>1. TakerOnFinished => TakerFine \/ TakerFaulty
    BY DEF TakerOnFinished
  <2>. QED
    BY <1>2, <2>1 DEF TakerTurn, TakerSecondWait, TakerStoreEvent, TakerFine, TakerFaulty
<1>. QED
    BY <1>7, <1>8

\* A handler of the taker, none of its calls having failed, shows the taker's secret or sends its
\* payment, not both.
LEMMA FaultlessKept ==
    ASSUME TypeOK, FaultlessInv, tFaults' = tFaults, NEW u, TakerHandles(u)
    PROVE  FaultlessInv'
<1>0. LedgerTypeOK /\ tUp
    BY DEF TypeOK, FaultlessInv
<1>1. ~TakerFaulty
    BY TimeTypes DEF TakerFaulty
<1>2. ASSUME UNCHANGED <<tx, secrets>>
                 \/ SendPayment("TakerFunding") \/ SpendOk("MakerPaymentSpend")
                 \/ SpendOk("TakerPaymentRefund")
      PROVE  (Seen("TakerPayment")' <=> Seen("TakerPayment")) /\ secrets' = secrets
    BY <1>0, <1>2, SpendSeen, SendSeen, TxFacts DEF Seen, Payments, Shows
<1>. USE <1>1 DEF TakerGoes, TakerIn, TakerAt, ledgerVars
<1>3. CASE TakerInitialize \/ TakerInitialized(u) \/ TakerNegotiated \/ TakerFundingSent
               \/ TakerMakerPaymentAndFundingSpendPreimgReceived
  <2>1. /\ tNext = "None" /\ tEv \in TakerEarly /\ tUp' = tUp
        /\ UNCHANGED <<tx, secrets>> \/ SendPayment("TakerFunding")
    BY <1>3 DEF TakerInitialize, TakerInitialized, TakerNegotiated, TakerFundingSent, TakerJust,
                TakerMakerPaymentAndFundingSpendPreimgReceived, TakerFails, TakerEarly
  <2>2. ~Seen("TakerPayment") /\ "taker" \notin secrets
    BY <2>1 DEF FaultlessInv, TakerEarly
  <2>. QED
    BY <1>0, <1>2, <2>1, <2>2 DEF FaultlessInv
<1>4. CASE TakerMakerPaymentConfirmed
  <2>1. TakerAt = "MakerPaymentConfirmed" /\ tUp' = tUp
    BY <1>4 DEF TakerMakerPaymentConfirmed, TakerFails
  <2>2. ~Seen("TakerPayment") /\ "taker" \notin secrets
    BY <2>1 DEF FaultlessInv
  <2>3. CASE UNCHANGED <<tx, secrets>>
    BY <1>0, <2>1, <2>2, <2>3 DEF FaultlessInv, Seen
  <2>4. CASE SpendOk("TakerPayment") /\ TakerAt' \in {"TakerPaymentSentAndPreimageSendingSkipped",
                                                      "TakerPaymentSent"}
    <3>1. secrets' = secrets
      BY <2>4, TxFacts DEF SpendOk, Shows
    <3>. QED
      BY <1>0, <2>1, <2>2, <2>4, <3>1 DEF FaultlessInv, TakerEarly
  <2>. QED
    BY <1>4, <2>3, <2>4 DEF TakerMakerPaymentConfirmed, TakerFails, SpendRefused
<1>5. CASE TakerFundingRefundRequired
  <2>1. TakerAt = "TakerFundingRefundRequired" /\ tUp' = tUp
    BY <1>5 DEF TakerFundingRefundRequired, TakerRefunds, TakerFails
  <2>2. ~Seen("TakerPayment") /\ "taker" \notin secrets
    BY <2>1 DEF FaultlessInv, TakerEarly
  <2>3. CASE UNCHANGED <<tx, secrets>>
    BY <1>0, <2>1, <2>2, <2>3 DEF FaultlessInv, Seen
  <2>4. CASE SpendOk("FundingRefund") /\ TakerAt' = "TakerFundingRefunded"
    <3>1. ~Seen("TakerPayment")'
      BY <1>0, <2>2, <2>4, SpendSeen, TxFacts
    <3>. QED
      BY <1>0, <2>1, <2>4, <3>1 DEF FaultlessInv
  <2>. QED
    BY <1>5, <2>3, <2>4 DEF TakerFundingRefundRequired, TakerRefunds, TakerFails, SpendRefused
<1>6. CASE TakerPaymentSent \/ TakerPaymentSentAndPreimageSendingSkipped \/ TakerTakerPaymentSpent
               \/ TakerMakerPaymentSpent \/ TakerPaymentRefundRequired
  <2>1. /\ TakerAt \in {"TakerPaymentSent", "TakerPaymentSentAndPreimageSendingSkipped",
                        "TakerPaymentSpent", "MakerPaymentSpent", "TakerPaymentRefundRequired"}
        /\ TakerAt' \in {"TakerPaymentSpent", "MakerPaymentSpent", "TakerPaymentRefundRequired",
                         "TakerPaymentRefunded", "Completed", "Aborted"}
        /\ tUp' = tUp
        /\ UNCHANGED <<tx, secrets>> \/ SpendOk("MakerPaymentSpend")
              \/ SpendOk("TakerPaymentRefund")
    BY <1>6 DEF TakerPaymentSent, TakerPaymentSentAndPreimageSendingSkipped, FindTakerPaymentSpend,
                TakerTakerPaymentSpent, TakerMakerPaymentSpent, TakerPaymentRefundRequired,
                TakerRefunds, SpendRefused, TakerJust, TakerFails
  <2>. HIDE DEF TakerAt
  <2>2. "taker" \notin secrets /\ secrets' = secrets
    BY <1>2, <2>1 DEF FaultlessInv
  <2>. QED
    BY <1>0, <2>1, <2>2 DEF FaultlessInv, TakerEarly
<1>7. CASE TakerStoreEvent \/ TakerOnFinished
  <2>1. UNCHANGED <<tx, secrets>> /\ TakerAt' = TakerAt /\ tUp' = tUp
    BY <1>7 DEF TakerStoreEvent, TakerOnFinished
  <2>. QED
    BY <2>1 DEF FaultlessInv, Seen
<1>. QED
    BY <1>3, <1>4, <1>5, <1>6, <1>7 DEF TakerHandles

\* A handler that returns in one of the states before the payment.
LEMMA TakerEarlyKept ==
    ASSUME LedgerTypeOK, TakerPlaced, HasParent, SecretsShown, SpendLasts, UNCHANGED now,
           tNext = "None", tEv \in TakerEarly,
           TakerAt' \notin TakerOnTrack \cup TakerGoesBack,
           UNCHANGED tx \/ SendPayment("TakerFunding") \/ SpendOk("FundingRefund")
    PROVE  TakerPlaced'
<1>1. TakerAt = tEv
    BY DEF TakerAt
<1>2. ~Seen("TakerPayment")
    BY <1>1 DEF TakerPlaced, TakerOnTrack, TakerGoesBack, TakerEarly
<1>3. ~Seen("TakerPaymentRefund") /\ ~Seen("TakerPaymentSpend") /\ ~Seen("MakerPaymentSpend")
    BY <1>2, TxFacts DEF HasParent, SecretsShown, SpendLasts
<1>4. \A u \in {"TakerPayment", "TakerPaymentRefund", "TakerPaymentSpend", "MakerPaymentSpend"} :
          ~Seen(u)'
  <2>1. CASE UNCHANGED tx
    BY <1>2, <1>3, <2>1 DEF Seen
  <2>2. CASE SendPayment("TakerFunding")
    BY <1>2, <1>3, <2>2, SendSeen, TxFacts DEF Payments
  <2>3. CASE SpendOk("FundingRefund")
    BY <1>2, <1>3, <2>3, SpendSeen, TxFacts
  <2>. QED
    BY <2>1, <2>2, <2>3
<1>. QED
    BY <1>4 DEF TakerPlaced, TakerOnTrack, TakerGoesBack

\* A handler that makes no call.
LEMMA TakerQuietKept ==
    ASSUME TakerPlaced, UNCHANGED <<now, tx, tStartedAt>>, TakerAt' = TakerAt
    PROVE  TakerPlaced'
BY DEF TakerPlaced, Seen, taker_payment_locktime

\* A handler of the taker that returns, none of its calls having failed.
LEMMA TakerPlacedKept ==
    ASSUME TimeInv, Attended, TakerInTime, DeadlinesApart, tFaults' = tFaults,
           NEW u, TakerHandles(u)
    PROVE  TakerPlaced'
<1>0. /\ TypeOK /\ LedgerTypeOK /\ HasParent /\ SecretsShown /\ TakerPlaced
      /\ SpentInTime /\ StartInv /\ RefundInv /\ ConfirmInv /\ FaultlessInv /\ SpendLasts
    BY DEF TimeInv, RunInv, V2Inv, TypeOK, CourseInv, TakerInTime, Attended, PreimageInTime
<1>1. ~TakerFaulty
    BY <1>0, TimeTypes DEF TakerFaulty
<1>2. UNCHANGED <<now, skip, reliable>>
    BY TakerSkipsRight DEF TakerSkips
<1>. USE <1>0, <1>1, <1>2 DEF TakerGoes, TakerIn, TakerAt, ledgerVars
<1>3. CASE TakerInitialize \/ TakerInitialized(u)
  <2>1. /\ tNext = "None" /\ tEv \in TakerEarly /\ UNCHANGED tx
        /\ TakerAt' \notin TakerOnTrack \cup TakerGoesBack
    BY <1>3 DEF TakerInitialize, TakerInitialized, TakerJust, TakerEarly, TakerOnTrack,
                TakerGoesBack
  <2>. QED
    BY <2>1, TakerEarlyKept
<1>4. CASE TakerNegotiated \/ TakerFundingSent \/ TakerMakerPaymentAndFundingSpendPreimgReceived
  <2>1. /\ tNext = "None" /\ tEv \in TakerEarly /\ (UNCHANGED tx \/ SendPayment("TakerFunding"))
        /\ TakerAt' \notin TakerOnTrack \cup TakerGoesBack
    BY <1>4 DEF TakerNegotiated, TakerFundingSent, TakerMakerPaymentAndFundingSpendPreimgReceived,
                TakerJust, TakerFails, TakerEarly, TakerOnTrack, TakerGoesBack
  <2>. QED
    BY <2>1, TakerEarlyKept
<1>5. CASE TakerFundingRefundRequired
  <2>1. /\ tNext = "None" /\ tEv \in TakerEarly /\ (UNCHANGED tx \/ SpendOk("FundingRefund"))
        /\ TakerAt' \notin TakerOnTrack \cup TakerGoesBack
    BY <1>5 DEF TakerFundingRefundRequired, TakerRefunds, TakerFails, SpendRefused, TakerEarly,
                TakerOnTrack, TakerGoesBack
  <2>. QED
    BY <2>1, TakerEarlyKept
<1>6. CASE TakerMakerPaymentConfirmed
  <2>1. ~Seen("TakerPayment") /\ ~Seen("TakerPaymentRefund") /\ ~Seen("TakerPaymentSpend")
            /\ ~Seen("MakerPaymentSpend")
    BY <1>6, TxFacts DEF TakerMakerPaymentConfirmed, TakerPlaced, TakerOnTrack, TakerGoesBack,
                         HasParent, SecretsShown, SpendLasts
  <2>2. CASE SpendOk("TakerPayment")
    <3>1. TakerAt' \in {"TakerPaymentSent", "TakerPaymentSentAndPreimageSendingSkipped",
                        "TakerFundingRefundRequired"}
      BY <1>6, <2>2 DEF TakerMakerPaymentConfirmed, TakerFails
    <3>2. \A t \in Txs : Seen(t)' <=> Seen(t) \/ t = "TakerPayment"
      BY <2>2, SpendSeen, TxFacts
    <3>3. TakerAt' # "TakerFundingRefundRequired"
      <4>1. ~(UNCHANGED tx)
        BY <2>1, <3>2, TxFacts DEF Seen
      <4>. QED
        BY <1>6, <4>1 DEF TakerMakerPaymentConfirmed, TakerFails, SpendRefused
    <3>. QED
      BY <2>1, <3>1, <3>2, <3>3, TxFacts DEF TakerPlaced, TakerOnTrack, TakerGoesBack
  <2>3. CASE ~SpendOk("TakerPayment")
    <3>1. UNCHANGED tx /\ TakerAt' = "TakerFundingRefundRequired"
      BY <1>6, <2>3 DEF TakerMakerPaymentConfirmed, TakerFails, SpendRefused
    <3>. QED
      BY <2>1, <3>1 DEF TakerPlaced, TakerOnTrack, TakerGoesBack, Seen
  <2>. QED
    BY <2>2, <2>3
<1>7. CASE TakerPaymentSent \/ TakerPaymentSentAndPreimageSendingSkipped
  <2>1. /\ TakerAt \in {"TakerPaymentSent", "TakerPaymentSentAndPreimageSendingSkipped"}
        /\ UNCHANGED <<tx, tStartedAt>>
        /\ \/ Seen("TakerPaymentSpend") /\ TakerAt' = "TakerPaymentSpent"
           \/ /\ ~Seen("TakerPaymentSpend") /\ now > taker_payment_locktime(tStartedAt)
              /\ TakerAt' = "TakerPaymentRefundRequired"
    BY <1>7 DEF TakerPaymentSent, TakerPaymentSentAndPreimageSendingSkipped,
                FindTakerPaymentSpend, TakerJust, TakerFails
  <2>. QED
    BY <2>1 DEF TakerPlaced, TakerOnTrack, TakerGoesBack, Seen, taker_payment_locktime
<1>8. CASE TakerTakerPaymentSpent
  <2>1. TakerAt = "TakerPaymentSpent" /\ TakerKnowsStart /\ Seen("TakerPaymentSpend")
    BY <1>8 DEF TakerTakerPaymentSpent, TakerKnowsStart, SecretsShown, TakerHasSecret, SpendLasts
  <2>2. Seen("TakerPayment") /\ ~Seen("TakerPaymentRefund") /\ ~Seen("MakerPaymentSpend")
    BY <2>1, TxFacts DEF TakerPlaced, TakerOnTrack
  <2>3. now <= taker_payment_conf_timeout(mStartedAt)
    BY <2>1, <2>2 DEF SpentInTime, Seen, Mined
  <2>4. now <= taker_payment_locktime(tStartedAt)
    BY <2>1, <2>3, InTimeMargin, TimeTypes
  <2>5. ~Seen("MakerPaymentRefund")
    BY <2>3, TimeTypes DEF RefundInv, maker_payment_locktime, taker_payment_conf_timeout
  <2>6. ~Seen("MakerPaymentSecretRefund")
    BY <2>1 DEF SecretsShown, FaultlessInv
  <2>7. Seen("MakerPayment")
    BY <2>2 DEF ConfirmInv, Seen, Mined
  <2>8. ~SpendRefused("MakerPaymentSpend")
    BY <2>2, <2>5, <2>6, <2>7, TxFacts DEF SpendRefused, Competitors
  <2>9. SpendOk("MakerPaymentSpend") /\ TakerAt' = "MakerPaymentSpent" /\ UNCHANGED tStartedAt
    BY <1>8, <2>8 DEF TakerTakerPaymentSpent, TakerFails
  <2>10. \A t \in Txs : Seen(t)' <=> Seen(t) \/ t = "MakerPaymentSpend"
    BY <2>9, SpendSeen, TxFacts
  <2>. QED
    BY <2>1, <2>2, <2>4, <2>9, <2>10, TxFacts
       DEF TakerPlaced, TakerOnTrack, TakerGoesBack, taker_payment_locktime
<1>9. CASE TakerMakerPaymentSpent
  <2>1. /\ TakerAt = "MakerPaymentSpent" /\ UNCHANGED <<tx, tStartedAt>>
        /\ TakerAt' = "Completed" \/ now > taker_payment_locktime(tStartedAt)
    BY <1>9 DEF TakerMakerPaymentSpent, TakerJust, TakerFails
  <2>2. now <= taker_payment_locktime(tStartedAt)
    BY <2>1 DEF TakerPlaced
  <2>3. TakerAt' = "Completed"
    BY <2>1, <2>2, TimeTypes DEF taker_payment_locktime
  <2>. QED
    BY <2>1, <2>3 DEF TakerPlaced, TakerOnTrack, TakerGoesBack, Seen
<1>10. CASE TakerPaymentRefundRequired
  <2>1. /\ TakerAt = "TakerPaymentRefundRequired" /\ Seen("TakerPayment")
        /\ ~Seen("TakerPaymentSpend") /\ ~Seen("TakerPaymentRefund") /\ ~Seen("MakerPaymentSpend")
        /\ now > taker_payment_locktime(tStartedAt)
    BY <1>10, TxFacts DEF TakerPaymentRefundRequired, TakerPlaced, TakerGoesBack
  <2>2. ~SpendRefused("TakerPaymentRefund")
    BY <2>1, TxFacts DEF SpendRefused, Competitors
  <2>3. /\ SpendOk("TakerPaymentRefund") /\ TakerAt' = "TakerPaymentRefunded"
        /\ UNCHANGED tStartedAt
    BY <1>10, <2>2 DEF TakerPaymentRefundRequired, TakerRefunds, TakerFails
  <2>4. \A t \in Txs : Seen(t)' <=> Seen(t) \/ t = "TakerPaymentRefund"
    BY <2>3, SpendSeen, TxFacts
  <2>. QED
    BY <2>1, <2>3, <2>4, TxFacts
       DEF TakerPlaced, TakerOnTrack, TakerGoesBack, taker_payment_locktime
<1>11. CASE TakerStoreEvent \/ TakerOnFinished
  <2>1. UNCHANGED <<now, tx, tStartedAt>> /\ TakerAt' = TakerAt
    BY <1>11 DEF TakerStoreEvent, TakerOnFinished
  <2>. QED
    BY <2>1, TakerQuietKept
<1>. QED
    BY <1>3, <1>4, <1>5, <1>6, <1>7, <1>8, <1>9, <1>10, <1>11 DEF TakerHandles

-----------------------------------------------------------------------------
(* A maker without faults.                                                 *)

\* A handler of the maker that returns, none of its calls having failed.
LEMMA MakerPlacedKept ==
    ASSUME TimeInv, MakerAttended, MakerInTime, mFaults' = mFaults, NEW u, MakerHandles(u)
    PROVE  MakerInTime'
<1>0. /\ TypeOK /\ LedgerTypeOK /\ HasParent /\ SecretsShown /\ SpendLasts
      /\ SkipInv /\ (Attended => TakerInTime) /\ mUp
    BY DEF TimeInv, RunInv, V2Inv, TypeOK, CourseInv, MakerInTime, MakerAttended
<1>1. ~MakerFaulty
    BY <1>0, TimeTypes DEF MakerFaulty
<1>2. UNCHANGED <<now, skip, reliable>> /\ (mEv # "None" => mStartedAt' = mStartedAt)
    BY MakerCourses DEF MakerCourse
<1>3. Seen("MakerPaymentSpend") => Seen("TakerPaymentSpend")
    BY <1>0 DEF SecretsShown, SpendLasts
<1>. USE <1>0, <1>1, <1>2 DEF MakerGoes, MakerIn, MakerAt, ledgerVars
<1>4. CASE MakerInitialize \/ MakerInitialized(u) \/ MakerWaitingForTakerFunding
  <2>1. /\ mUp' /\ UNCHANGED tx
        /\ MakerAt \in {"None", "Initialized", "WaitingForTakerFunding"}
        /\ MakerAt' \in {"Initialized", "WaitingForTakerFunding", "TakerFundingReceived", "Aborted"}
    BY <1>4 DEF MakerInitialize, MakerInitialized, MakerWaitingForTakerFunding, MakerJust
  <2>. QED
    BY <2>1 DEF MakerInTime, MakerPaid, Seen
<1>5. CASE MakerTakerFundingReceived
  <2>1. /\ mUp' /\ MakerAt = "TakerFundingReceived"
        /\ SendPayment("MakerPayment") /\ MakerAt' = "MakerPaymentSentFundingSpendGenerated"
    BY <1>5 DEF MakerTakerFundingReceived, MakerFails
  <2>2. \A t \in Txs : Seen(t)' <=> Seen(t) \/ t = "MakerPayment"
    BY <2>1, SendSeen DEF Payments
  <2>. QED
    BY <2>1, <2>2, TxFacts DEF MakerInTime, MakerPaid
<1>6. CASE MakerPaymentSentFundingSpendGenerated
  <2>1. /\ mUp' /\ MakerAt = "MakerPaymentSentFundingSpendGenerated" /\ UNCHANGED tx
        /\ MakerAt' \in {"MakerPaymentRefundRequired", "MakerPaymentRefundRequiredTakerSecret",
                         "TakerPaymentReceived",
                         "TakerPaymentReceivedAndPreimageValidationSkipped"}
    BY <1>6 DEF MakerPaymentSentFundingSpendGenerated, MakerJust, MakerFails
  <2>. QED
    BY <2>1 DEF MakerInTime, MakerPaid, Seen
<1>7. ASSUME mEv \in {"TakerPaymentReceived", "TakerPaymentReceivedAndPreimageValidationSkipped"},
             mNext = "None", MakerSpendsTakerPayment,
             now <= taker_payment_conf_timeout(mStartedAt)
      PROVE  MakerInTime'
  <2>1. CASE SpendOk("TakerPaymentSpend") /\ MakerAt' = "TakerPaymentSpent" /\ mUp'
    <3>1. \A t \in Txs : Seen(t)' <=> Seen(t) \/ t = "TakerPaymentSpend"
      BY <2>1, SpendSeen, TxFacts
    <3>2. (now <= maker_payment_locktime(mStartedAt))'
      BY <1>7, TimeTypes DEF maker_payment_locktime, taker_payment_conf_timeout
    <3>. QED
      BY <1>7, <2>1, <3>1, <3>2, TxFacts DEF MakerInTime, MakerPaid
  <2>2. CASE UNCHANGED tx /\ MakerAt' = "MakerPaymentRefundRequired" /\ mUp'
    BY <1>7, <2>2 DEF MakerInTime, MakerPaid, Seen
  <2>. QED
    BY <1>7, <2>1, <2>2 DEF MakerSpendsTakerPayment, SpendRefused
<1>8. CASE MakerTakerPaymentReceived
  <2>1. CASE mPhase = "recv" /\ MakerSpendsTakerPayment
    <3>1. ~skip /\ MakerWaits /\ mEv = "TakerPaymentReceived" /\ mNext = "None"
      BY <1>8, <2>1 DEF MakerTakerPaymentReceived, SkipInv, MakerWaits
    <3>2. SpentInTime /\ ~Seen("TakerPaymentSpend")
      BY <3>1 DEF MakerAttended, PreimageInTime, Attended, TakerInTime, MakerInTime
    <3>. QED
      BY <1>7, <2>1, <3>1, <3>2 DEF SpentInTime
  <2>2. CASE ~(mPhase = "recv" /\ MakerSpendsTakerPayment)
    <3>1. /\ mUp' /\ MakerAt = "TakerPaymentReceived" /\ UNCHANGED tx
          /\ MakerAt' \in {"TakerPaymentReceived", "MakerPaymentRefundRequired"}
      BY <1>8, <2>2 DEF MakerTakerPaymentReceived, MakerJust, MakerFails
    <3>. QED
      BY <3>1 DEF MakerInTime, MakerPaid, Seen
  <2>. QED
    BY <2>1, <2>2
<1>9. CASE MakerTakerPaymentReceivedAndPreimageValidationSkipped
  <2>1. CASE MakerSpendsTakerPayment /\ now <= taker_payment_conf_timeout(mStartedAt)
    BY <1>7, <1>9, <2>1 DEF MakerTakerPaymentReceivedAndPreimageValidationSkipped
  <2>2. CASE ~(MakerSpendsTakerPayment /\ now <= taker_payment_conf_timeout(mStartedAt))
    <3>1. /\ mUp' /\ MakerAt = "TakerPaymentReceivedAndPreimageValidationSkipped" /\ UNCHANGED tx
          /\ MakerAt' = "MakerPaymentRefundRequired"
      BY <1>9, <2>2 DEF MakerTakerPaymentReceivedAndPreimageValidationSkipped, MakerJust,
                        MakerFails, wait_for_confirmations
    <3>. QED
      BY <3>1 DEF MakerInTime, MakerPaid, Seen
  <2>. QED
    BY <2>1, <2>2
<1>10. CASE MakerTakerPaymentSpent
  <2>1. /\ mUp' /\ MakerAt = "TakerPaymentSpent" /\ UNCHANGED tx
        /\ MakerAt' = "Completed" \/ now > maker_payment_locktime(mStartedAt)
    BY <1>10 DEF MakerTakerPaymentSpent, MakerJust, MakerFails
  <2>2. MakerAt' = "Completed"
    BY <2>1, TimeTypes DEF MakerInTime, maker_payment_locktime
  <2>. QED
    BY <2>1, <2>2 DEF MakerInTime, MakerPaid, Seen
<1>11. CASE MakerPaymentRefundRequired
  <2>1. PICK t \in {"MakerPaymentRefund", "MakerPaymentSecretRefund"} : MakerRefunds(t)
    BY <1>11 DEF MakerPaymentRefundRequired
  <2>2. MakerAt \in {"MakerPaymentRefundRequired", "MakerPaymentRefundRequiredTakerSecret"}
    BY <1>11 DEF MakerPaymentRefundRequired
  <2>3. /\ Seen("MakerPayment") /\ ~Seen("TakerPaymentSpend") /\ ~Seen("MakerPaymentSpend")
        /\ ~Seen("MakerPaymentRefund") /\ ~Seen("MakerPaymentSecretRefund")
    BY <1>3, <2>2 DEF MakerInTime, MakerPaid
  <2>4. ~SpendRefused(t)
    BY <2>3, TxFacts DEF SpendRefused, Competitors
  <2>5. SpendOk(t) /\ MakerAt' = "MakerPaymentRefunded" /\ mUp'
    BY <2>1, <2>4 DEF MakerRefunds, MakerFails
  <2>6. \A v \in Txs : Seen(v)' <=> Seen(v) \/ v = t
    BY <2>5, SpendSeen, TxFacts
  <2>. QED
    BY <2>3, <2>5, <2>6, TxFacts DEF MakerInTime, MakerPaid
<1>12. CASE MakerStoreEvent \/ MakerOnFinished
  <2>1. UNCHANGED <<tx, mStartedAt>> /\ MakerAt' = MakerAt /\ mUp'
    BY <1>12 DEF MakerStoreEvent, MakerOnFinished
  <2>. QED
    BY <2>1 DEF MakerInTime, Seen, maker_payment_locktime
<1>. QED
    BY <1>4, <1>5, <1>6, <1>8, <1>9, <1>10, <1>11, <1>12 DEF MakerHandles

-----------------------------------------------------------------------------
(* The steps keep the invariant.                                           *)

TimeKept ==
    /\ CourseInv'
    /\ tFaults' = 0 => FaultlessInv'
    /\ PreimageInTime' => SpendLasts'
    /\ Attended' => TakerInTime'
    /\ MakerAttended' => MakerInTime'

\* What the maker does leaves a taker without faults where it is, and shows the maker's secret in
\* time when the preimage is: a maker that waits for the preimage is answered.
LEMMA MakerLeavesSpend ==
    ASSUME TimeInv, UNCHANGED takerVars, MakerCourse, MakerCalls
    PROVE  /\ tFaults' = 0 => FaultlessInv'
           /\ PreimageInTime' => SpendLasts'
<1>0. /\ LedgerTypeOK /\ HasParent /\ ConfirmInv /\ SkipInv
      /\ tFaults = 0 => FaultlessInv
      /\ PreimageInTime => SpendLasts
      /\ Attended => SpentInTime
    BY DEF TimeInv, RunInv, V2Inv, TypeOK, CourseInv, TakerInTime
<1>1. /\ UNCHANGED <<now, skip, reliable, tFaults, tUp>> /\ TakerAt' = TakerAt
      /\ mEv # "None" => mStartedAt' = mStartedAt
    BY DEF MakerCourse, takerVars, TakerAt
<1>. DEFINE Reveals == /\ mEv # "None" /\ SpendOk("TakerPaymentSpend")
                       /\ MakerWaits \/ now <= taker_payment_conf_timeout(mStartedAt)
            Same == /\ Seen("TakerPaymentSpend")' <=> Seen("TakerPaymentSpend")
                    /\ "maker" \in secrets' <=> "maker" \in secrets
<1>2. /\ Seen("TakerPayment")' <=> Seen("TakerPayment")
      /\ Mined("TakerPaymentSpend")' <=> Mined("TakerPaymentSpend")
      /\ "taker" \in secrets' => "taker" \in secrets
      /\ Same \/ Reveals
  <2>1. CASE UNCHANGED <<tx, secrets>>
    BY <2>1 DEF Seen, Mined
  <2>2. CASE SendPayment("MakerPayment")
    BY <1>0, <2>2, SendSeen, TxFacts DEF Payments
  <2>3. CASE SpendOk("MakerPaymentRefund") \/ SpendOk("MakerPaymentSecretRefund")
    BY <1>0, <2>3, SpendSeen, TxFacts DEF Shows
  <2>4. CASE Reveals
    BY <1>0, <2>4, SpendSeen, TxFacts DEF Shows
  <2>. HIDE DEF Same
  <2>. QED
    BY <2>1, <2>2, <2>3, <2>4 DEF MakerCalls
<1>3. tFaults' = 0 => FaultlessInv'
    BY <1>0, <1>1, <1>2 DEF FaultlessInv
<1>4. ASSUME PreimageInTime' PROVE SpendLasts'
  <2>1. PreimageInTime /\ SpendLasts
    BY <1>0, <1>1, <1>4 DEF PreimageInTime
  <2>2. Seen("TakerPaymentSpend") => mEv # "None"
    BY <1>0, TxFacts DEF HasParent, ConfirmInv, TakerKnowsPayment, MakerBefore
  <2>3. CASE Same
    BY <1>1, <1>2, <2>1, <2>2, <2>3 DEF SpendLasts, taker_payment_conf_timeout
  <2>4. CASE Reveals
    <3>1. ~Mined("TakerPaymentSpend")
      BY <2>4 DEF SpendOk
    <3>2. MakerWaits => Attended
      BY <1>0, <2>1 DEF MakerWaits, SkipInv, PreimageInTime, Attended
    <3>3. now <= taker_payment_conf_timeout(mStartedAt)
      BY <1>0, <2>1, <2>4, <3>1, <3>2 DEF SpendLasts, SpentInTime
    <3>4. (now <= taker_payment_conf_timeout(mStartedAt))'
      BY <1>1, <2>4, <3>3 DEF taker_payment_conf_timeout
    <3>5. Seen("TakerPaymentSpend")'
      BY <1>0, <2>4, SpendSeen, TxFacts
    <3>. QED
      BY <3>4, <3>5 DEF SpendLasts
  <2>. QED
    BY <1>2, <2>3, <2>4
<1>. QED
    BY <1>3, <1>4

\* What the maker does leaves a taker without faults in time: the maker spends the taker's
\* payment only while the taker still waits for that.
LEMMA MakerLeavesTaker ==
    ASSUME TimeInv, DeadlinesApart, UNCHANGED takerVars, MakerCourse, MakerCalls, Attended'
    PROVE  TakerInTime'
<1>0. /\ TypeOK /\ LedgerTypeOK /\ HasParent /\ SecretsShown /\ StartInv /\ ConfirmInv
    BY DEF TimeInv, RunInv, V2Inv, TypeOK, CourseInv
<1>1. Attended /\ TakerInTime /\ TakerPlaced /\ SpentInTime
    BY DEF TimeInv, Attended, TakerInTime, MakerCourse, takerVars
<1>2. Seen("TakerPaymentSpend") => mEv # "None"
    BY <1>0, TxFacts DEF HasParent, ConfirmInv, TakerKnowsPayment, MakerBefore
<1>3. MakerWaits => mEv # "None"
    BY DEF MakerWaits
<1>4. /\ UNCHANGED <<now, tUp, tEv, tNext, tStartedAt>> /\ TakerAt' = TakerAt
      /\ mEv # "None" => mStartedAt' = mStartedAt
    BY DEF MakerCourse, takerVars, TakerAt
<1>5. /\ \A u \in Txs \ MakerTxs : Seen(u)' <=> Seen(u)
      /\ \A u \in Txs : Seen(u) => Seen(u)'
      /\ Mined("MakerPaymentSpend")' <=> Mined("MakerPaymentSpend")
      /\ Seen("TakerPaymentSpend")' =>
             Seen("TakerPaymentSpend") \/ now <= taker_payment_conf_timeout(mStartedAt)
  <2>1. CASE UNCHANGED <<tx, secrets>>
    BY <2>1 DEF Seen, Mined
  <2>2. CASE SendPayment("MakerPayment")
    BY <1>0, <2>2, SendSeen, TxFacts DEF Payments, MakerTxs
  <2>3. ASSUME NEW t \in MakerTxs \cap Spends, SpendOk(t)
        PROVE  /\ \A u \in Txs \ MakerTxs : Seen(u)' <=> Seen(u)
               /\ \A u \in Txs : Seen(u) => Seen(u)'
               /\ Mined("MakerPaymentSpend")' <=> Mined("MakerPaymentSpend")
               /\ Seen("TakerPaymentSpend")' => Seen("TakerPaymentSpend") \/ t = "TakerPaymentSpend"
    BY <1>0, <2>3, SpendSeen, TxFacts
  <2>4. CASE SpendOk("MakerPaymentRefund") \/ SpendOk("MakerPaymentSecretRefund")
    BY <2>3, <2>4, TxFacts DEF MakerTxs
  <2>5. CASE /\ SpendOk("TakerPaymentSpend")
             /\ MakerWaits \/ now <= taker_payment_conf_timeout(mStartedAt)
    BY <1>1, <2>3, <2>5, TxFacts DEF MakerTxs, SpentInTime
  <2>. QED
    BY <2>1, <2>2, <2>4, <2>5 DEF MakerCalls
<1>6. TakerAt \in TakerGoesBack => ~Seen("TakerPaymentSpend")'
  <2>. SUFFICES ASSUME TakerAt \in TakerGoesBack PROVE ~Seen("TakerPaymentSpend")'
    OBVIOUS
  <2>1. TakerKnowsStart
    BY DEF TakerKnowsStart, TakerAt, TakerGoesBack
  <2>2. now > taker_payment_locktime(tStartedAt) /\ ~Seen("TakerPaymentSpend")
    BY <1>1 DEF TakerPlaced
  <2>3. ~(now <= taker_payment_conf_timeout(mStartedAt))
    BY <1>0, <2>1, <2>2, InTimeMargin, TimeTypes
  <2>. QED
    BY <1>5, <2>2, <2>3
<1>7. TakerPlaced'
    BY <1>1, <1>4, <1>5, <1>6, TxFacts DEF TakerPlaced, MakerTxs, taker_payment_locktime
<1>8. SpentInTime'
  <2>1. Seen("TakerPaymentSpend")' => mEv # "None"
    BY <1>2, SpendSeen, SendSeen, TxFacts, <1>0 DEF MakerCalls, Payments, Seen
  <2>2. ASSUME Seen("TakerPaymentSpend")', ~Mined("MakerPaymentSpend")'
        PROVE  (now <= taker_payment_conf_timeout(mStartedAt))'
    BY <1>1, <1>4, <1>5, <2>1, <2>2 DEF SpentInTime, taker_payment_conf_timeout
  <2>3. ASSUME MakerWaits', ~Seen("TakerPaymentSpend")'
        PROVE  (now <= taker_payment_conf_timeout(mStartedAt))'
    BY <1>1, <1>3, <1>4, <1>5, <2>3, TxFacts
       DEF SpentInTime, MakerCourse, taker_payment_conf_timeout
  <2>. QED
    BY <2>2, <2>3 DEF SpentInTime
<1>. QED
    BY <1>1, <1>4, <1>7, <1>8 DEF TakerInTime

\* The steps of the maker.
LEMMA MakerKeepsTime ==
    ASSUME TimeInv, DeadlinesApart, MakerWorks \/ MakerStep
    PROVE  TimeKept
<1>0. TypeOK /\ MakerTypeOK /\ DoneInv /\ UNCHANGED takerVars
    BY DEF TimeInv, RunInv, V2Inv, TypeOK, CourseInv, MakerWorks, MakerStep
<1>1. MakerCourse /\ MakerSkips /\ MakerCalls
    BY MakerCourses, MakerSkipsRight, MakerCallsInTime, MakerStepCourses DEF MakerWorks, MakerStep
<1>2. /\ mDone' => mEv' \in MakerLastStates /\ mNext' = "None"
      /\ mFaults' \in {mFaults, mFaults + 1}
  <2>1. CASE MakerWorks
    <3>1. MakerTurn \/ MakerSecondWait \/ MakerStoreEvent \/ MakerOnFinished
      BY <1>0, <2>1, MakerTurns DEF MakerWorks
    <3>2. CASE MakerTurn
      BY <1>0, <3>2 DEF MakerTurn, DoneInv, MakerFollows, MakerBefore, MakerLastStates
    <3>3. CASE MakerOnFinished
      <4>1. MakerFine \/ MakerFaulty
        BY <3>3 DEF MakerOnFinished
      <4>. QED
        BY <3>3, <4>1 DEF MakerOnFinished, MakerFine, MakerFaulty
    <3>. QED
      BY <1>0, <3>1, <3>2, <3>3 DEF MakerSecondWait, MakerStoreEvent, DoneInv
  <2>2. CASE MakerStep
    BY <1>0, <2>2 DEF MakerStep, MakerStoreFails, MakerDies, MakerKickstart, MakerReceives,
                      MakerFaulty, DoneInv
  <2>. QED
    BY <2>1, <2>2
<1>3. CourseInv'
    BY <1>0, <1>1, <1>2, MakerKeepsCourse
<1>4. /\ Attended' => TakerInTime'
      /\ tFaults' = 0 => FaultlessInv'
      /\ PreimageInTime' => SpendLasts'
    BY <1>0, <1>1, MakerLeavesTaker, MakerLeavesSpend
<1>5. ASSUME MakerAttended' PROVE MakerInTime'
  <2>1. MakerAttended /\ mFaults' = mFaults
    BY <1>0, <1>1, <1>2, <1>5, TimeTypes DEF MakerAttended, PreimageInTime, MakerCourse, takerVars
  <2>2. MakerInTime /\ mUp
    BY <2>1 DEF TimeInv, MakerInTime
  <2>3. CASE MakerWorks
    BY <2>1, <2>2, <2>3, MakerPlacedKept DEF MakerWorks
  <2>4. CASE MakerStep
    <3>1. MakerReceives(TakerSends)
      BY <1>0, <2>1, <2>2, <2>4, TimeTypes
         DEF MakerStep, MakerStoreFails, MakerDies, MakerKickstart, MakerFaulty
    <3>. QED
      BY <2>2, <3>1 DEF MakerReceives, MakerInTime, MakerAt, ledgerVars, Seen,
                        maker_payment_locktime
  <2>. QED
    BY <2>3, <2>4
<1>. QED
    BY <1>3, <1>4, <1>5 DEF TimeKept

\* What may happen to the taker's machine, apart from its handlers.
LEMMA TakerStepFrame ==
    ASSUME TakerStep, TypeOK, DoneInv, StartInv, SkipInv
    PROVE  /\ UNCHANGED <<makerVars, ledgerVars>>
           /\ tDone' => tEv' \in TakerLastStates /\ tNext' = "None"
           /\ StartInv' /\ SkipInv'
           /\ tFaults' \in {tFaults, tFaults + 1}
           /\ tFaults' = tFaults /\ tUp => UNCHANGED <<tUp, tEv, tNext, tStartedAt>>
<1>1. tFaults \in Nat
    BY TimeTypes
<1>. USE DEF TakerStep, DoneInv, StartInv, TakerKnowsStart, SkipInv, makerVars, ledgerVars
<1>2. CASE TakerStoreFails
  <2>1. tFaults' = tFaults + 1 /\ tFaults' # tFaults
    BY <1>1, <1>2 DEF TakerStoreFails, TakerFaulty
  <2>2. tDone' => tEv' \in TakerLastStates /\ tNext' = "None"
    BY <1>2 DEF TakerStoreFails
  <2>. QED
    BY <1>2, <2>1, <2>2 DEF TakerStoreFails
<1>3. CASE TakerDies
  <2>1. tFaults' = tFaults + 1 /\ tFaults' # tFaults
    BY <1>1, <1>3 DEF TakerDies, TakerFaulty
  <2>2. tDone' => tEv' \in TakerLastStates /\ tNext' = "None"
    BY <1>3 DEF TakerDies
  <2>. QED
    BY <1>3, <2>1, <2>2 DEF TakerDies
<1>4. CASE TakerKickstart
    BY <1>1, <1>4 DEF TakerKickstart
<1>5. CASE TakerReceives(MakerSends)
  <2>1. mEv # "None"
    BY <1>5 DEF TakerReceives, MakerSends
  <2>. QED
    BY <1>1, <1>5, <2>1 DEF TakerReceives
<1>. QED
    BY <1>2, <1>3, <1>4, <1>5

\* The steps of the taker.
LEMMA TakerKeepsTime ==
    ASSUME TimeInv, DeadlinesApart, TakerWorks \/ TakerStep
    PROVE  TimeKept
<1>0. /\ TypeOK /\ TakerTypeOK /\ PathInv /\ DoneInv /\ StartInv /\ SkipInv /\ RefundInv
      /\ UNCHANGED makerVars
    BY DEF TimeInv, RunInv, V2Inv, TypeOK, CourseInv, TakerWorks, TakerStep
<1>1. /\ UNCHANGED <<now, skip, reliable>>
      /\ \A t \in MakerTxs : Seen(t)' <=> Seen(t)
      /\ Mined("MakerPaymentSpend") => Mined("MakerPaymentSpend")'
      /\ Mined("TakerPaymentSpend") => Mined("TakerPaymentSpend")'
      /\ "maker" \in secrets' <=> "maker" \in secrets
      /\ Seen("TakerPaymentRefund")' =>
             \/ Seen("TakerPaymentRefund")
             \/ /\ tEv = "TakerPaymentRefundRequired"
                /\ now > taker_payment_locktime(tStartedAt)
      /\ tFaults' \in {tFaults, tFaults + 1}
  <2>1. CASE TakerWorks
    <3>1. secrets \subseteq secrets'
      BY <1>0, <2>1, TakerTurns DEF TakerWorks, TakerTurn, TakerSecondWait, TakerStoreEvent,
                                    TakerOnFinished, ledgerVars, SendPayment, SpendOk
    <3>. QED
      BY <1>0, <2>1, <3>1, TakerLeaves, TakerSkipsRight DEF TakerWorks, TakerSkips
  <2>2. CASE TakerStep
    BY <1>0, <2>2, TakerStepFrame DEF ledgerVars, Seen, Mined
  <2>. QED
    BY <2>1, <2>2
<1>2. CourseInv'
  <2>1. tDone' => tEv' \in TakerLastStates /\ tNext' = "None"
    <3>1. CASE TakerWorks
      <4>1. TakerTurn \/ TakerSecondWait \/ TakerStoreEvent \/ TakerOnFinished
        BY <1>0, <3>1, TakerTurns DEF TakerWorks
      <4>2. CASE TakerTurn
        BY <1>0, <4>2 DEF TakerTurn, DoneInv, TakerFollows, TakerBefore, TakerLastStates
      <4>. QED
        BY <1>0, <4>1, <4>2 DEF TakerSecondWait, TakerStoreEvent, TakerOnFinished, DoneInv
    <3>. QED
      BY <1>0, <3>1, TakerStepFrame
  <2>2. DoneInv'
    BY <1>0, <2>1 DEF DoneInv, makerVars
  <2>3. StartInv'
    BY <1>0, TakerStarts, TakerStepFrame DEF TakerWorks
  <2>4. SkipInv'
    <3>1. CASE TakerWorks
      BY <1>0, <3>1, TakerSkipsRight DEF TakerWorks, TakerSkips, SkipInv, makerVars
    <3>. QED
      BY <1>0, <3>1, TakerStepFrame
  <2>5. RefundInv'
    <3>1. tEv = "TakerPaymentRefundRequired" =>
              /\ mEv # "None"
              /\ taker_payment_conf_timeout(mStartedAt) <= taker_payment_locktime(tStartedAt)
              /\ taker_payment_conf_timeout(mStartedAt) \in Nat
              /\ taker_payment_locktime(tStartedAt) \in Nat
      BY <1>0, InTimeMargin DEF TakerKnowsStart, StartInv
    <3>2. Seen("TakerPaymentRefund")' =>
              mEv # "None" /\ now > taker_payment_conf_timeout(mStartedAt)
      BY <1>0, <1>1, <3>1, TimeTypes DEF RefundInv
    <3>. QED
      BY <1>0, <1>1, <3>2 DEF RefundInv, MakerTxs, makerVars, maker_payment_locktime,
                              taker_payment_conf_timeout
  <2>. QED
    BY <2>2, <2>3, <2>4, <2>5 DEF CourseInv
<1>3. tFaults' = 0 => tFaults = 0 /\ tFaults' = tFaults
    BY <1>0, <1>1, TimeTypes
<1>4. ASSUME tFaults' = 0 PROVE FaultlessInv'
  <2>1. FaultlessInv /\ tUp
    BY <1>3, <1>4 DEF TimeInv, FaultlessInv
  <2>2. CASE TakerWorks
    BY <1>0, <1>3, <1>4, <2>1, <2>2, FaultlessKept DEF TakerWorks
  <2>3. CASE TakerStep
    <3>1. UNCHANGED <<tx, secrets, tUp, tEv, tNext>>
      BY <1>0, <1>3, <1>4, <2>1, <2>3, TakerStepFrame DEF ledgerVars
    <3>. QED
      BY <2>1, <3>1 DEF FaultlessInv, TakerAt, Seen
  <2>. QED
    BY <2>2, <2>3
<1>5. ASSUME PreimageInTime' PROVE SpendLasts'
  <2>1. SpendLasts
    BY <1>1, <1>3, <1>5 DEF PreimageInTime, TimeInv
  <2>. QED
    BY <1>0, <1>1, <2>1 DEF SpendLasts, MakerTxs, makerVars, taker_payment_conf_timeout
<1>6. ASSUME Attended' PROVE TakerInTime'
  <2>1. /\ Attended /\ tFaults' = tFaults /\ TakerInTime /\ SpentInTime /\ TakerPlaced /\ tUp
    BY <1>1, <1>3, <1>6 DEF Attended, TimeInv, TakerInTime, FaultlessInv
  <2>2. SpentInTime'
    BY <1>0, <1>1, <2>1
       DEF SpentInTime, MakerTxs, MakerWaits, makerVars, taker_payment_conf_timeout
  <2>3. TakerPlaced'
    <3>1. CASE TakerWorks
      BY <2>1, <3>1, TakerPlacedKept DEF TakerWorks
    <3>2. CASE TakerStep
      BY <1>0, <2>1, <3>2, TakerStepFrame, TakerQuietKept DEF TakerAt, ledgerVars
    <3>. QED
      BY <3>1, <3>2
  <2>. QED
    BY <2>2, <2>3 DEF TakerInTime
<1>7. ASSUME MakerAttended' PROVE MakerInTime'
  <2>1. MakerAttended
    BY <1>0, <1>1, <1>3, <1>7 DEF MakerAttended, PreimageInTime, makerVars
  <2>. QED
    BY <1>0, <1>1, <2>1
       DEF TimeInv, MakerInTime, MakerAt, MakerTxs, makerVars, maker_payment_locktime
<1>. QED
    BY <1>2, <1>4, <1>5, <1>6, <1>7 DEF TimeKept

\* The block decides for the transactions that show a secret in time.
LEMMA BlockLeavesSpends ==
    ASSUME TimeInv, NEW t \in Txs, Mine(t)
    PROVE  /\ PreimageInTime => (Seen("TakerPaymentSpend")' <=> Seen("TakerPaymentSpend"))
           /\ Attended => /\ Seen("TakerPayment")' <=> Seen("TakerPayment")
                          /\ Seen("MakerPaymentSpend")' <=> Seen("MakerPaymentSpend")
<1>0. /\ TypeOK /\ LedgerTypeOK /\ OneMined /\ HasParent /\ SecretsShown /\ ConfirmInv /\ RefundInv
      /\ now \in Nat /\ mStartedAt \in Nat /\ LockTime \in Nat
      /\ taker_payment_conf_timeout(mStartedAt) \in Nat
      /\ taker_payment_conf_timeout(mStartedAt) <= maker_payment_locktime(mStartedAt)
  <2>1. /\ TypeOK /\ LedgerTypeOK /\ OneMined /\ HasParent /\ SecretsShown /\ ConfirmInv
        /\ RefundInv
    BY DEF TimeInv, RunInv, V2Inv, TypeOK, CourseInv
  <2>. QED
    BY <2>1, TimeTypes DEF taker_payment_conf_timeout, maker_payment_locktime
<1>1. /\ Seen(t) /\ \A u \in Competitors(t) : ~Mined(u)
      /\ \A u \in Txs : Seen(u)' => Seen(u)
      /\ \A u \in Txs : \/ Seen(u)' <=> Seen(u)
                        \/ u \in Competitors(t)
                        \/ u \in Spends /\ Parent[u] \in Competitors(t)
    BY <1>0, BlockFacts
<1>2. ASSUME PreimageInTime PROVE Seen("TakerPaymentSpend")' <=> Seen("TakerPaymentSpend")
  <2>. SUFFICES ASSUME Seen("TakerPaymentSpend"), ~Seen("TakerPaymentSpend")' PROVE FALSE
    BY <1>1, TxFacts
  <2>1. SpendLasts
    BY <1>2 DEF TimeInv
  <2>2. Mined("TakerPayment")
    BY <1>0 DEF ConfirmInv
  <2>3. \/ "TakerPaymentSpend" \in Competitors(t)
        \/ "TakerPayment" \in Competitors(t)
    BY <1>1, TxFacts
  <2>4. t = "TakerPaymentRefund" /\ ~Mined("TakerPaymentSpend")
    BY <1>1, <2>2, <2>3, TxFacts DEF Competitors
  <2>. QED
    BY <1>0, <1>1, <2>1, <2>4 DEF SpendLasts, RefundInv
<1>3. ASSUME Attended
      PROVE  /\ Seen("TakerPayment")' <=> Seen("TakerPayment")
             /\ Seen("MakerPaymentSpend")' <=> Seen("MakerPaymentSpend")
  <2>0. FaultlessInv /\ SpendLasts /\ SpentInTime
    BY <1>3 DEF TimeInv, Attended, PreimageInTime, TakerInTime
  <2>1. Seen("TakerPayment") => "taker" \notin secrets
    BY <2>0 DEF FaultlessInv
  <2>2. ASSUME Seen("TakerPayment"), ~Seen("TakerPayment")' PROVE FALSE
    <3>1. t = "FundingRefund"
      BY <1>1, <2>2, TxFacts DEF Competitors
    <3>. QED
      BY <1>0, <1>1, <2>1, <2>2, <3>1 DEF SecretsShown
  <2>3. ASSUME Seen("MakerPaymentSpend"), ~Seen("MakerPaymentSpend")' PROVE FALSE
    <3>1. /\ t \in {"MakerPaymentRefund", "MakerPaymentSecretRefund"}
          /\ ~Mined("MakerPaymentSpend")
      BY <1>1, <2>3, TxFacts DEF Competitors
    <3>2. Seen("TakerPaymentSpend") /\ Seen("TakerPayment")
      BY <1>0, <2>0, <2>3, TxFacts DEF SecretsShown, SpendLasts, HasParent
    <3>3. t = "MakerPaymentRefund"
      BY <1>0, <1>1, <2>1, <3>1, <3>2 DEF SecretsShown
    <3>4. now <= taker_payment_conf_timeout(mStartedAt)
      BY <2>0, <3>1, <3>2 DEF SpentInTime
    <3>5. now > maker_payment_locktime(mStartedAt)
      BY <1>0, <1>1, <3>3 DEF RefundInv
    <3>. QED
      BY <1>0, <3>4, <3>5 DEF maker_payment_locktime
  <2>. QED
    BY <1>1, <2>2, <2>3, TxFacts
<1>. QED
    BY <1>2, <1>3

\* A block makes nobody late.
LEMMA MineKeepsTime ==
    ASSUME TimeInv, NEW t \in Txs, Mine(t), UNCHANGED <<makerVars, takerVars>>
    PROVE  TimeKept
<1>0. LedgerTypeOK /\ OneMined /\ HasParent
    BY DEF TimeInv, RunInv, V2Inv, TypeOK
<1>1. /\ UNCHANGED <<now, secrets, skip, reliable>>
      /\ \A u \in Txs : (Seen(u)' => Seen(u)) /\ (Mined(u) => Mined(u)')
    BY <1>0, BlockFacts
<1>2. /\ PreimageInTime => (Seen("TakerPaymentSpend")' <=> Seen("TakerPaymentSpend"))
      /\ Attended => /\ Seen("TakerPayment")' <=> Seen("TakerPayment")
                     /\ Seen("MakerPaymentSpend")' <=> Seen("MakerPaymentSpend")
    BY BlockLeavesSpends
<1>3. (PreimageInTime' <=> PreimageInTime) /\ (Attended' <=> Attended)
          /\ (MakerAttended' <=> MakerAttended) /\ TakerAt' = TakerAt /\ MakerAt' = MakerAt
          /\ (MakerWaits' <=> MakerWaits)
    BY <1>1 DEF PreimageInTime, Attended, MakerAttended, TakerAt, MakerAt, MakerWaits, makerVars,
                takerVars
<1>. USE DEF makerVars, takerVars
<1>4. CourseInv'
    BY <1>1, TxFacts DEF TimeInv, CourseInv, DoneInv, StartInv, TakerKnowsStart, SkipInv,
                         RefundInv, maker_payment_locktime, taker_payment_conf_timeout
<1>5. tFaults' = 0 => FaultlessInv'
    BY <1>1, <1>3, TxFacts DEF TimeInv, FaultlessInv
<1>6. ASSUME PreimageInTime PROVE SpendLasts'
    BY <1>1, <1>2, <1>6, TxFacts DEF TimeInv, SpendLasts, taker_payment_conf_timeout
<1>7. ASSUME Attended PROVE TakerInTime'
  <2>1. TakerPlaced /\ SpentInTime /\ PreimageInTime
    BY <1>7 DEF TimeInv, TakerInTime, Attended, PreimageInTime
  <2>2. TakerPlaced'
    BY <1>1, <1>2, <1>3, <1>7, <2>1, TxFacts DEF TakerPlaced, taker_payment_locktime
  <2>3. SpentInTime'
    BY <1>1, <1>2, <1>3, <2>1, TxFacts DEF SpentInTime, taker_payment_conf_timeout
  <2>. QED
    BY <2>2, <2>3 DEF TakerInTime
<1>8. ASSUME MakerAttended PROVE MakerInTime'
  <2>1. Seen("MakerPayment")' <=> Seen("MakerPayment")
    BY <1>0, BlockFacts, TxFacts DEF Competitors
  <2>2. Seen("TakerPaymentSpend")' <=> Seen("TakerPaymentSpend")
    BY <1>2, <1>8 DEF MakerAttended
  <2>3. MakerInTime
    BY <1>8 DEF TimeInv
  <2>. QED
    BY <1>1, <1>3, <2>1, <2>2, <2>3, TxFacts DEF MakerInTime, maker_payment_locktime
<1>. QED
    BY <1>3, <1>4, <1>5, <1>6, <1>7, <1>8 DEF TimeKept

\* Nor does a step in which nothing happens.
LEMMA StutterKeepsTime ==
    ASSUME TimeInv, UNCHANGED vars
    PROVE  TimeKept
<1>. USE DEF vars, ledgerVars, makerVars, takerVars
<1>1. CourseInv'
    BY DEF TimeInv, CourseInv, DoneInv, StartInv, TakerKnowsStart, SkipInv, RefundInv, Seen,
           maker_payment_locktime, taker_payment_conf_timeout
<1>2. (tFaults' = 0 => FaultlessInv') /\ (PreimageInTime' => SpendLasts')
    BY DEF TimeInv, FaultlessInv, PreimageInTime, SpendLasts, TakerAt, Seen, Mined,
           taker_payment_conf_timeout
<1>3. Attended' => TakerInTime'
    BY DEF TimeInv, Attended, TakerInTime, TakerPlaced, SpentInTime, TakerAt, MakerWaits, Seen,
           Mined, taker_payment_locktime, taker_payment_conf_timeout
<1>4. MakerAttended' => MakerInTime'
    BY DEF TimeInv, MakerAttended, PreimageInTime, MakerInTime, MakerAt, Seen,
           maker_payment_locktime
<1>. QED
    BY <1>1, <1>2, <1>3, <1>4 DEF TimeKept

\* The clock waits for a taker that has seen the spend of its payment, until the maker's
\* payment is spent.
LEMMA TickWaitsForTaker ==
    ASSUME TimeInv, DeadlinesApart, NobodyLate, Tick, Attended
    PROVE  /\ Seen("TakerPaymentSpend") => Mined("MakerPaymentSpend")
           /\ TakerAt # "MakerPaymentSpent"
           /\ MakerWaits => Seen("TakerPaymentSpend")
<1>0. /\ TypeOK /\ LedgerTypeOK /\ HasParent /\ SecretsShown /\ DoneInv /\ StartInv /\ SkipInv
      /\ TakerInTime /\ TakerPlaced /\ SpentInTime /\ tUp /\ ConfirmInv /\ SpendLasts
    BY DEF TimeInv, RunInv, V2Inv, TypeOK, CourseInv, TakerInTime, FaultlessInv, Attended,
           PreimageInTime
<1>1. \A u \in Txs : Seen(u) => Mined(u)
    BY <1>0 DEF Tick, Seen, Mined, LedgerTypeOK
<1>2. tEv # "None" => ~TakerHasWork
    BY DEF NobodyLate
<1>3. TakerAt \in TakerOnTrack \cup TakerGoesBack =>
          TakerAt = tEv /\ tNext = "None" /\ tEv # "None"
    BY <1>0, <1>2 DEF NobodyLate, TakerHasWork, TakerAt, TakerOnTrack, TakerGoesBack
<1>4. TakerAt # "MakerPaymentSpent"
  <2>. SUFFICES ASSUME TakerAt = "MakerPaymentSpent" PROVE FALSE
    OBVIOUS
  <2>1. Mined("MakerPaymentSpend")
    BY <1>0, <1>1, TxFacts DEF TakerPlaced
  <2>. QED
    BY <1>0, <1>2, <1>3, <2>1
       DEF TakerHasWork, TakerIn, DoneInv, TakerLastStates, TakerOnTrack
<1>5. TakerAt # "TakerPaymentSpent"
    BY <1>0, <1>2, <1>3 DEF TakerHasWork, TakerIn, DoneInv, TakerLastStates, TakerOnTrack
<1>6. ASSUME Seen("TakerPaymentSpend") PROVE Mined("MakerPaymentSpend")
  <2>1. TakerAt \in TakerOnTrack /\ TakerAt = tEv /\ tNext = "None" /\ tEv # "None"
    BY <1>0, <1>3, <1>6, TxFacts DEF HasParent, TakerPlaced
  <2>2. tEv \notin {"TakerPaymentSent", "TakerPaymentSentAndPreimageSendingSkipped"}
    BY <1>0, <1>2, <1>6, <2>1 DEF TakerHasWork, TakerIn, DoneInv, TakerLastStates
  <2>3. TakerAt = "Completed"
    BY <1>4, <1>5, <2>1, <2>2 DEF TakerOnTrack
  <2>. QED
    BY <1>0, <1>1, <2>3, TxFacts DEF TakerPlaced
<1>7. ASSUME MakerWaits PROVE Seen("TakerPaymentSpend")
  <2>. SUFFICES ASSUME ~Seen("TakerPaymentSpend") PROVE FALSE
    OBVIOUS
  <2>1. now <= taker_payment_conf_timeout(mStartedAt)
    BY <1>0, <1>7 DEF SpentInTime
  <2>2. Seen("TakerPayment")
    BY <1>0, <1>7 DEF ConfirmInv, MakerWaits, Mined, Seen
  <2>3. TakerAt \in TakerOnTrack \cup TakerGoesBack /\ tNext = "None" /\ TakerAt = tEv
    BY <1>0, <1>3, <2>2 DEF TakerPlaced
  <2>4. TakerAt \notin TakerGoesBack
    <3>1. TakerKnowsStart
      BY <2>3 DEF TakerKnowsStart, TakerOnTrack, TakerGoesBack
    <3>. QED
      BY <1>0, <2>1, <3>1, InTimeMargin, TimeTypes DEF TakerPlaced
  <2>5. TakerAt \notin {"TakerPaymentSpent", "MakerPaymentSpent", "Completed"}
    BY <1>0, <1>4, <1>5 DEF TakerPlaced, SecretsShown, SpendLasts
  <2>6. ~skip
    BY <1>0, <1>7 DEF SkipInv, MakerWaits
  <2>7. tEv = "TakerPaymentSent"
    BY <1>0, <2>3, <2>4, <2>5, <2>6 DEF SkipInv, TakerOnTrack
  <2>8. TakerSends = {"TakerPaymentSpendPreimage"}
    BY <1>0, <2>3, <2>7 DEF TakerSends
  <2>9. mUp /\ ~mDone /\ mNext = "None" /\ mEv = "TakerPaymentReceived" /\ mPhase = "recv"
    BY <1>0, <1>7 DEF MakerWaits, DoneInv, MakerLastStates
  <2>10. "TakerPaymentSpendPreimage" \notin mInbox
    BY <2>9 DEF NobodyLate, MakerHasWork, MakerIn
  <2>. QED
    BY <2>6, <2>8, <2>9, <2>10 DEF NobodyLate, MakerHasMail, Attended
<1>. QED
    BY <1>4, <1>6, <1>7

\* So the clock makes nobody late.
LEMMA TickKeepsTime ==
    ASSUME TimeInv, DeadlinesApart, NobodyLate, Tick
    PROVE  TimeKept
<1>0. /\ TypeOK /\ LedgerTypeOK /\ CourseInv /\ RefundInv
    BY DEF TimeInv, RunInv, V2Inv, TypeOK, CourseInv
<1>1. /\ UNCHANGED <<tx, secrets, skip, reliable, makerVars, takerVars>> /\ now' = now + 1
      /\ \A u \in Txs : (Seen(u)' <=> Seen(u)) /\ (Mined(u)' <=> Mined(u))
    BY DEF Tick, Seen, Mined
<1>2. now \in Nat /\ mStartedAt \in Nat /\ tStartedAt \in Nat /\ LockTime \in Nat
    BY <1>0, TimeTypes
<1>3. CourseInv'
  <2>1. RefundInv'
    BY <1>0, <1>1, <1>2, TimeTypes, TxFacts
       DEF RefundInv, maker_payment_locktime, taker_payment_conf_timeout, makerVars
  <2>2. DoneInv' /\ StartInv' /\ SkipInv'
    BY <1>0, <1>1 DEF CourseInv, DoneInv, StartInv, TakerKnowsStart, SkipInv, makerVars, takerVars
  <2>. QED
    BY <2>1, <2>2 DEF CourseInv
<1>4. ASSUME Attended' PROVE TakerInTime'
  <2>1. Attended /\ TakerInTime /\ TakerPlaced
    BY <1>1, <1>4 DEF Attended, TimeInv, TakerInTime, takerVars
  <2>2. /\ Seen("TakerPaymentSpend") => Mined("MakerPaymentSpend")
        /\ TakerAt # "MakerPaymentSpent"
        /\ MakerWaits => Seen("TakerPaymentSpend")
    BY <2>1, TickWaitsForTaker
  <2>3. SpentInTime'
    BY <1>1, <2>2, TxFacts DEF SpentInTime, MakerWaits, makerVars
  <2>4. TakerPlaced'
    <3>1. TakerAt' = TakerAt /\ tStartedAt' = tStartedAt
      BY <1>1 DEF TakerAt, takerVars
    <3>2. now > taker_payment_locktime(tStartedAt) => (now > taker_payment_locktime(tStartedAt))'
      BY <1>1, <1>2, <3>1 DEF taker_payment_locktime
    <3>. QED
      BY <1>1, <2>1, <2>2, <3>1, <3>2, TxFacts DEF TakerPlaced
  <2>. QED
    BY <2>1, <2>3, <2>4 DEF TakerInTime
<1>5. ASSUME MakerAttended' PROVE MakerInTime'
  <2>1. MakerInTime
    BY <1>1, <1>5 DEF MakerAttended, PreimageInTime, TimeInv, makerVars, takerVars
  <2>2. MakerAt # "TakerPaymentSpent"
    <3>. SUFFICES ASSUME MakerAt = "TakerPaymentSpent" PROVE FALSE
      OBVIOUS
    <3>1. Mined("TakerPaymentSpend")
      BY <1>0, <2>1, TxFacts DEF MakerInTime, Tick, Seen, Mined, LedgerTypeOK
    <3>. QED
      BY <1>0, <2>1, <3>1
         DEF NobodyLate, MakerHasWork, MakerIn, MakerAt, MakerInTime, CourseInv, DoneInv,
             MakerLastStates
  <2>. QED
    BY <1>1, <2>1, <2>2, TxFacts DEF MakerInTime, MakerAt, makerVars
<1>6. tFaults' = 0 => FaultlessInv'
    BY <1>1, TxFacts DEF TimeInv, FaultlessInv, TakerAt, takerVars
<1>7. PreimageInTime' => SpendLasts'
  <2>1. \A u \in Txs : Seen(u) => Mined(u)
    BY <1>0 DEF Tick, Seen, Mined, LedgerTypeOK
  <2>. QED
    BY <1>1, <2>1, TxFacts DEF TimeInv, PreimageInTime, SpendLasts, takerVars
<1>. QED
    BY <1>3, <1>4, <1>5, <1>6, <1>7 DEF TimeKept

\* The initial states have the invariant.
LEMMA TimeInvInit == Init => TimeInv
<1>. SUFFICES ASSUME Init PROVE TimeInv
    OBVIOUS
<1>1. \A u \in Txs : ~Seen(u)
    BY DEF Init, LedgerInit, Seen
<1>2. CourseInv
    BY <1>1, TxFacts DEF Init, MakerInit, TakerInit, CourseInv, DoneInv, StartInv, TakerKnowsStart,
                         SkipInv, RefundInv
<1>3. FaultlessInv /\ SpendLasts
    BY <1>1, TxFacts DEF Init, LedgerInit, TakerInit, FaultlessInv, SpendLasts
<1>4. TakerInTime /\ MakerInTime
    BY <1>1, TxFacts DEF Init, MakerInit, TakerInit, TakerInTime, TakerPlaced, SpentInTime, TakerAt,
                         TakerOnTrack, TakerGoesBack, MakerWaits, MakerInTime, MakerAt, MakerPaid
<1>. QED
    BY <1>2, <1>3, <1>4, RunInvInit DEF TimeInv

\* Every step keeps it.
LEMMA TimeInvNext == DeadlinesApart /\ TimeInv /\ [Next]_vars => TimeInv'
<1>. SUFFICES ASSUME DeadlinesApart, TimeInv, [Next]_vars PROVE TimeInv'
    OBVIOUS
<1>0. RunInv
    BY DEF TimeInv
<1>1. ASSUME MineStep PROVE TimeKept
    BY <1>1, MineKeepsTime DEF MineStep
<1>2. ASSUME NobodyLate, Tick PROVE TimeKept
    BY <1>2, TickKeepsTime
<1>3. ASSUME UNCHANGED vars PROVE TimeKept
    BY <1>3, StutterKeepsTime
<1>4. TimeKept
    BY <1>1, <1>2, <1>3, MakerKeepsTime, TakerKeepsTime DEF Next
<1>. QED
    BY <1>0, <1>4, RunInvNext DEF TimeInv, TimeKept

\* The invariant holds in every behaviour.
LEMMA TimeInvariant == ASSUME DeadlinesApart PROVE Spec => []TimeInv
<1>1. TimeInv /\ [Next]_vars => TimeInv'
    BY TimeInvNext
<1>. QED
    BY <1>1, TimeInvInit, PTL DEF Spec

\* A taker whose node neither died nor failed a call, and whose preimage is not late, does not
\* lose both coins, whatever happens to the maker: the maker's spend comes within the first two
\* thirds of its lock time, and the clock does not pass that before the taker has answered.
THEOREM TakerNeverLosesV2 == ASSUME DeadlinesApart PROVE Spec => []TakerNeverLoses
<1>1. TimeInv => TakerNeverLoses
  <2>. SUFFICES ASSUME TimeInv, Attended, Mined("TakerPaymentSpend"), MakerPaymentBack
                PROVE  FALSE
    BY DEF TakerNeverLoses, Attended
  <2>0. /\ TypeOK /\ HasParent /\ OneMined /\ SecretsShown /\ RefundInv /\ SpentInTime
        /\ FaultlessInv /\ \A t \in Txs : Mined(t) => Seen(t)
    BY DEF TimeInv, RunInv, V2Inv, CourseInv, TakerInTime, Attended, Mined, Seen
  <2>1. Seen("TakerPaymentSpend") /\ Seen("TakerPayment")
    BY <2>0, TxFacts DEF HasParent
  <2>2. Mined("MakerPaymentRefund")
    BY <2>0, <2>1, TxFacts DEF MakerPaymentBack, SecretsShown, FaultlessInv
  <2>3. Seen("MakerPaymentRefund") /\ ~Mined("MakerPaymentSpend")
    BY <2>0, <2>2, TxFacts DEF OneMined
  <2>. QED
    BY <2>0, <2>1, <2>3, TimeTypes
       DEF RefundInv, SpentInTime, maker_payment_locktime, taker_payment_conf_timeout
<1>. QED
    BY <1>1, TimeInvariant, PTL

\* The taker never has the maker's payment and its own coins back, whatever fails on either side,
\* as long as the maker's secret comes out in time: then no block takes a transaction that
\* competes with the one that shows it.
THEOREM MakerNeverLosesV2 == ASSUME DeadlinesApart PROVE Spec => []MakerNeverLoses
<1>1. TimeInv => MakerNeverLoses
  <2>. SUFFICES ASSUME TimeInv, PreimageInTime, Mined("MakerPaymentSpend"),
                       Mined("TakerPaymentRefund") \/ Mined("FundingRefund")
                PROVE  FALSE
    BY DEF MakerNeverLoses
  <2>0. /\ OneMined /\ SecretsShown /\ SpendLasts /\ ConfirmInv
        /\ \A t \in Txs : Mined(t) => Seen(t)
    BY DEF TimeInv, RunInv, V2Inv, Mined, Seen
  <2>1. Seen("TakerPaymentSpend")
    BY <2>0, TxFacts DEF SecretsShown, SpendLasts
  <2>2. Mined("TakerPayment") /\ Seen("TakerPayment")
    BY <2>0, <2>1, TxFacts DEF ConfirmInv
  <2>. QED
    BY <2>0, <2>1, <2>2, TxFacts DEF OneMined
<1>. QED
    BY <1>1, TimeInvariant, PTL

\* A machine that had no fault and is aborted has left nothing on chain, as the messages of its
\* abort say: no refund of it is ever refused.
THEOREM AbortedBeforePaymentV2 == ASSUME DeadlinesApart PROVE Spec => []AbortedBeforePayment
<1>1. TimeInv => AbortedBeforePayment
  <2>. SUFFICES ASSUME TimeInv PROVE AbortedBeforePayment
    OBVIOUS
  <2>1. ASSUME mEv = "Aborted", MakerAttended PROVE ~Seen("MakerPayment")
    <3>1. MakerInTime /\ MakerAt = "Aborted"
      BY <2>1 DEF TimeInv, RunInv, PathInv, MakerFollows, MakerLastStates, MakerBefore, MakerAt
    <3>. QED
      BY <3>1 DEF MakerInTime, MakerPaid
  <2>2. ASSUME tEv = "Aborted", Attended PROVE ~Seen("TakerPayment")
    <3>1. TakerPlaced /\ TakerAt = "Aborted"
      BY <2>2 DEF TimeInv, RunInv, PathInv, TakerFollows, TakerLastStates, TakerBefore, TakerAt,
                  TakerInTime
    <3>. QED
      BY <3>1 DEF TakerPlaced, TakerOnTrack, TakerGoesBack
  <2>. QED
    BY <2>1, <2>2 DEF AbortedBeforePayment, MakerAttended, Attended
<1>. QED
    BY <1>1, TimeInvariant, PTL

-----------------------------------------------------------------------------
(* The refinement.  The states from which the maker can only take its      *)
(* payment back, or stop; those from which it has not claimed the taker's; *)
(* and those from which the taker can only take its funding back, or stop. *)

MakerGivesBack == {"MakerPaymentRefundRequired", "MakerPaymentRefundRequiredTakerSecret",
                   "MakerPaymentRefunded", "Aborted"}

MakerClaimsNot == MakerBefore \cup {"MakerPaymentSentFundingSpendGenerated",
                                    "MakerPaymentRefundRequiredTakerSecret"}

TakerTakesBack == {"TakerFundingRefundRequired", "TakerFundingRefunded", "Aborted"}

\* A maker that has taken its payment back never claims the taker's.
BackInv ==
    Seen("MakerPaymentRefund") \/ Seen("MakerPaymentSecretRefund") =>
        mEv \in MakerGivesBack /\ mNext \in MakerGivesBack \cup {"None"}

\* The maker has shown its secret to claim a payment that is confirmed, and does not take its own
\* back with the taker's secret then; the taker has shown its own to take its funding back.
ShownInv ==
    /\ "maker" \in secrets =>
           /\ Mined("TakerPayment") /\ ~Seen("MakerPaymentSecretRefund")
           /\ mEv \notin MakerClaimsNot /\ mNext \notin MakerClaimsNot \ {"None"}
    /\ "taker" \in secrets => tEv \in TakerTakesBack /\ tNext \in TakerTakesBack \cup {"None"}

RefineInv == RunInv /\ BackInv /\ ShownInv /\ (tFaults = 0 => FaultlessInv)

\* What the maker sends, and from where.
MakerMovesCoins ==
    \/ UNCHANGED <<tx, secrets>>
    \/ mEv = "TakerFundingReceived" /\ Seen("TakerFunding") /\ SendPayment("MakerPayment")
    \/ /\ mEv \in MakerGivesBack /\ mNext' \in MakerGivesBack /\ mEv' = mEv
       /\ \/ SpendOk("MakerPaymentRefund")
          \/ mEv = "MakerPaymentRefundRequiredTakerSecret" /\ SpendOk("MakerPaymentSecretRefund")
    \/ /\ mEv \notin MakerGivesBack \cup MakerClaimsNot
       /\ mEv' = mEv /\ mNext' \notin MakerClaimsNot
       /\ mPhase = "recv" \/ Mined("TakerPayment")
       /\ SpendOk("TakerPaymentSpend")

MakerStays ==
    /\ mEv \in MakerGivesBack /\ mNext \in MakerGivesBack \cup {"None"} =>
           mEv' \in MakerGivesBack /\ mNext' \in MakerGivesBack \cup {"None"}
    /\ mEv \notin MakerClaimsNot /\ mNext \notin MakerClaimsNot \ {"None"} =>
           mEv' \notin MakerClaimsNot /\ mNext' \notin MakerClaimsNot \ {"None"}

\* Every handler of the maker is of this form.
LEMMA MakerSendsCoins ==
    ASSUME NEW u, MakerHandles(u)
    PROVE  MakerMovesCoins /\ MakerStays
<1>. USE DEF MakerMovesCoins, MakerStays, MakerGivesBack, MakerClaimsNot, MakerBefore, MakerGoes,
             MakerIn, ledgerVars
<1>1. CASE MakerInitialize
    BY <1>1 DEF MakerInitialize
<1>2. CASE MakerInitialized(u)
    BY <1>2 DEF MakerInitialized, MakerJust
<1>3. CASE MakerWaitingForTakerFunding
    BY <1>3 DEF MakerWaitingForTakerFunding, MakerJust
<1>4. CASE MakerTakerFundingReceived
    BY <1>4 DEF MakerTakerFundingReceived, MakerFails
<1>5. CASE MakerPaymentSentFundingSpendGenerated
    BY <1>5 DEF MakerPaymentSentFundingSpendGenerated, MakerJust, MakerFails
<1>6. CASE MakerTakerPaymentReceived
    BY <1>6 DEF MakerTakerPaymentReceived, MakerSpendsTakerPayment, SpendRefused,
                MakerJust, MakerFails
<1>7. CASE MakerTakerPaymentReceivedAndPreimageValidationSkipped
    BY <1>7 DEF MakerTakerPaymentReceivedAndPreimageValidationSkipped, MakerJust, MakerFails,
                MakerSpendsTakerPayment, SpendRefused, wait_for_confirmations
<1>8. CASE MakerTakerPaymentSpent
    BY <1>8 DEF MakerTakerPaymentSpent, MakerJust, MakerFails
<1>9. CASE MakerPaymentRefundRequired
    BY <1>9 DEF MakerPaymentRefundRequired, MakerRefunds, SpendRefused, MakerFails
<1>10. CASE MakerStoreEvent
    BY <1>10 DEF MakerStoreEvent
<1>11. CASE MakerOnFinished
    BY <1>11 DEF MakerOnFinished
<1>. QED
    BY <1>1, <1>2, <1>3, <1>4, <1>5, <1>6, <1>7, <1>8, <1>9, <1>10, <1>11 DEF MakerHandles

\* The other steps of the maker send nothing, and do not bring it back on its way.
LEMMA MakerRestSendsNothing ==
    ASSUME NEW sends, MakerStoreFails \/ MakerDies \/ MakerKickstart \/ MakerReceives(sends)
    PROVE  UNCHANGED <<tx, secrets>> /\ MakerStays
BY DEF MakerStoreFails, MakerDies, MakerKickstart, MakerReceives, MakerStays, ledgerVars

\* What the taker sends, and from where.
TakerMovesCoins ==
    \/ UNCHANGED <<tx, secrets>>
    \/ SendPayment("TakerFunding")
    \/ \E t \in {"TakerPaymentRefund", "MakerPaymentSpend"} : SpendOk(t)
    \/ /\ tEv = "TakerFundingRefundRequired" /\ tNext = "None"
       /\ SpendOk("FundingRefund")
    \/ tEv = "MakerPaymentConfirmed" /\ SpendOk("TakerPayment")

TakerStays ==
    tEv \in TakerTakesBack /\ tNext \in TakerTakesBack \cup {"None"} =>
        tEv' \in TakerTakesBack /\ tNext' \in TakerTakesBack \cup {"None"}

\* No handler of the taker brings it back on its way.
LEMMA TakerHandlesStays ==
    ASSUME NEW u, TakerHandles(u)
    PROVE  TakerStays
<1>. USE DEF TakerStays, TakerTakesBack, TakerGoes, TakerIn, ledgerVars
<1>1. CASE TakerInitialize \/ TakerInitialized(u) \/ TakerNegotiated
    BY <1>1 DEF TakerInitialize, TakerInitialized, TakerNegotiated, TakerJust, TakerFails
<1>2. CASE TakerFundingSent \/ TakerMakerPaymentAndFundingSpendPreimgReceived
               \/ TakerMakerPaymentConfirmed
    BY <1>2 DEF TakerFundingSent, TakerMakerPaymentAndFundingSpendPreimgReceived,
                TakerMakerPaymentConfirmed, TakerJust, TakerFails
<1>3. CASE TakerPaymentSent \/ TakerPaymentSentAndPreimageSendingSkipped
    BY <1>3 DEF TakerPaymentSent, TakerPaymentSentAndPreimageSendingSkipped
<1>4. CASE TakerTakerPaymentSpent \/ TakerMakerPaymentSpent \/ TakerPaymentRefundRequired
    BY <1>4 DEF TakerTakerPaymentSpent, TakerMakerPaymentSpent, TakerPaymentRefundRequired
<1>5. CASE TakerFundingRefundRequired
    BY <1>5 DEF TakerFundingRefundRequired, TakerRefunds, TakerFails
<1>6. CASE TakerStoreEvent \/ TakerOnFinished
    BY <1>6 DEF TakerStoreEvent, TakerOnFinished
<1>. QED
    BY <1>1, <1>2, <1>3, <1>4, <1>5, <1>6 DEF TakerHandles

\* Every step of the taker is of this form.
LEMMA TakerSendsCoins ==
    ASSUME TakerTypeOK, TakerWorks \/ TakerStep
    PROVE  TakerMovesCoins /\ TakerStays
<1>1. CASE TakerWorks
  <2>1. TakerMovesCoins
    BY <1>1, TakerTurns DEF TakerWorks, TakerTurn, TakerSecondWait, TakerStoreEvent,
                            TakerOnFinished, TakerMovesCoins, ledgerVars
  <2>. QED
    BY <1>1, <2>1, TakerHandlesStays DEF TakerWorks
<1>2. CASE TakerStep
    BY <1>2 DEF TakerStep, TakerStoreFails, TakerDies, TakerKickstart, TakerReceives,
                TakerMovesCoins, TakerStays, ledgerVars
<1>. QED
    BY <1>1, <1>2

\* The maker's steps keep what is shown, and what is taken back.
LEMMA MakerKeepsBack ==
    ASSUME RefineInv, MakerMovesCoins, MakerStays, UNCHANGED takerVars
    PROVE  BackInv' /\ ShownInv' /\ (tFaults' = 0 => FaultlessInv')
<1>0. LedgerTypeOK /\ ConfirmInv /\ BackInv /\ ShownInv /\ (tFaults = 0 => FaultlessInv)
    BY DEF RefineInv, RunInv, V2Inv, TypeOK
<1>1. UNCHANGED <<tEv, tNext, tUp, tFaults>> /\ TakerAt' = TakerAt
    BY DEF takerVars, TakerAt
<1>. USE DEF MakerStays
<1>2. CASE \/ UNCHANGED <<tx, secrets>>
           \/ mEv = "TakerFundingReceived" /\ SendPayment("MakerPayment")
  <2>1. /\ \A t \in Spends : (Seen(t)' <=> Seen(t)) /\ (Mined(t)' <=> Mined(t))
        /\ secrets' = secrets
    BY <1>0, <1>2, SendSeen, TxFacts DEF Payments, Seen, Mined
  <2>. QED
    BY <1>0, <1>1, <2>1, TxFacts DEF BackInv, ShownInv, FaultlessInv
<1>3. ASSUME NEW t \in {"MakerPaymentRefund", "MakerPaymentSecretRefund"}, SpendOk(t),
             mEv \in MakerGivesBack, mNext' \in MakerGivesBack, mEv' = mEv,
             t = "MakerPaymentSecretRefund" => mEv = "MakerPaymentRefundRequiredTakerSecret"
      PROVE  BackInv' /\ ShownInv' /\ (tFaults' = 0 => FaultlessInv')
  <2>1. /\ \A u \in Txs : Seen(u)' <=> Seen(u) \/ u = t
        /\ \A u \in Txs : Mined(u)' <=> Mined(u)
        /\ secrets' = secrets
    BY <1>0, <1>3, SpendSeen, TxFacts DEF Shows
  <2>2. BackInv'
    BY <1>3 DEF BackInv
  <2>3. t = "MakerPaymentSecretRefund" => "maker" \notin secrets
    BY <1>0, <1>3 DEF ShownInv, MakerClaimsNot
  <2>. QED
    BY <1>0, <1>1, <2>1, <2>2, <2>3, TxFacts DEF ShownInv, FaultlessInv
<1>4. CASE /\ mEv \notin MakerGivesBack \cup MakerClaimsNot
           /\ mEv' = mEv /\ mNext' \notin MakerClaimsNot
           /\ mPhase = "recv" \/ Mined("TakerPayment")
           /\ SpendOk("TakerPaymentSpend")
  <2>1. /\ \A u \in Txs : Seen(u)' <=> Seen(u) \/ u = "TakerPaymentSpend"
        /\ \A u \in Txs : Mined(u)' <=> Mined(u)
        /\ secrets' = secrets \cup {"maker"}
    BY <1>0, <1>4, SpendSeen, TxFacts DEF Shows
  <2>2. Mined("TakerPayment")
    BY <1>0, <1>4 DEF ConfirmInv
  <2>3. ~Seen("MakerPaymentRefund") /\ ~Seen("MakerPaymentSecretRefund")
    BY <1>0, <1>4 DEF BackInv
  <2>. QED
    BY <1>0, <1>1, <1>4, <2>1, <2>2, <2>3, TxFacts DEF BackInv, ShownInv, FaultlessInv
<1>. QED
    BY <1>2, <1>3, <1>4 DEF MakerMovesCoins

\* So do the taker's.
LEMMA TakerKeepsBack ==
    ASSUME RefineInv, TakerWorks \/ TakerStep
    PROVE  BackInv' /\ ShownInv' /\ (tFaults' = 0 => FaultlessInv')
<1>0. /\ TypeOK /\ LedgerTypeOK /\ TakerTypeOK /\ BackInv /\ ShownInv
      /\ (tFaults = 0 => FaultlessInv) /\ tFaults \in Nat /\ UNCHANGED makerVars
    BY TimeTypes DEF RefineInv, RunInv, V2Inv, TypeOK, TakerWorks, TakerStep
<1>1. TakerMovesCoins /\ TakerStays
    BY <1>0, TakerSendsCoins
<1>2. /\ \A t \in {"MakerPaymentRefund", "MakerPaymentSecretRefund"} : Seen(t)' <=> Seen(t)
      /\ Mined("TakerPayment") => Mined("TakerPayment")'
      /\ "maker" \in secrets' => "maker" \in secrets
      /\ "taker" \in secrets' =>
             "taker" \in secrets \/ (tEv = "TakerFundingRefundRequired" /\ tNext = "None")
  <2>1. CASE UNCHANGED <<tx, secrets>>
    BY <2>1 DEF Seen, Mined
  <2>2. CASE SendPayment("TakerFunding")
    BY <1>0, <2>2, SendSeen, TxFacts DEF Payments
  <2>3. ASSUME NEW t \in {"TakerPaymentRefund", "MakerPaymentSpend", "TakerPayment"}, SpendOk(t)
        PROVE  /\ \A u \in {"MakerPaymentRefund", "MakerPaymentSecretRefund"} : Seen(u)' <=> Seen(u)
               /\ Mined("TakerPayment") => Mined("TakerPayment")'
               /\ secrets' = secrets
    BY <1>0, <2>3, SpendSeen, TxFacts DEF Shows
  <2>4. CASE /\ tEv = "TakerFundingRefundRequired" /\ tNext = "None"
             /\ SpendOk("FundingRefund")
    BY <1>0, <2>4, SpendSeen, TxFacts DEF Shows
  <2>. QED
    BY <1>1, <2>1, <2>2, <2>3, <2>4 DEF TakerMovesCoins
<1>3. BackInv' /\ ShownInv'
    BY <1>0, <1>1, <1>2 DEF BackInv, ShownInv, TakerStays, TakerTakesBack, makerVars
<1>4. ASSUME tFaults' = 0 PROVE FaultlessInv'
  <2>1. CASE TakerWorks
    <3>1. tFaults' \in {tFaults, tFaults + 1}
      BY <1>0, <2>1, TakerLeaves DEF TakerWorks
    <3>. QED
      BY <1>0, <1>4, <2>1, <3>1, FaultlessKept DEF TakerWorks
  <2>2. CASE TakerStep
    <3>1. ~TakerStoreFails /\ ~TakerDies
      BY <1>0, <1>4 DEF TakerStoreFails, TakerDies, TakerFaulty
    <3>2. tFaults' = tFaults
      BY <2>2, <3>1 DEF TakerStep, TakerKickstart, TakerReceives
    <3>3. FaultlessInv /\ ~TakerKickstart
      BY <1>0, <1>4, <3>2 DEF FaultlessInv, TakerKickstart
    <3>4. UNCHANGED <<tUp, tEv, tNext, tx, secrets>>
      BY <2>2, <3>1, <3>3 DEF TakerStep, TakerReceives, ledgerVars
    <3>. QED
      BY <3>3, <3>4 DEF FaultlessInv, TakerAt, Seen
  <2>. QED
    BY <2>1, <2>2
<1>. QED
    BY <1>3, <1>4

\* Every step does.
LEMMA BackStep ==
    ASSUME RefineInv, [Next]_vars
    PROVE  BackInv' /\ ShownInv' /\ (tFaults' = 0 => FaultlessInv')
<1>1. CASE MakerWorks
    BY <1>1, MakerSendsCoins, MakerKeepsBack DEF MakerWorks
<1>2. CASE MakerStep
    BY <1>2, MakerRestSendsNothing, MakerKeepsBack DEF MakerStep, MakerMovesCoins
<1>3. CASE TakerWorks \/ TakerStep
    BY <1>3, TakerKeepsBack
<1>4. ASSUME UNCHANGED <<makerVars, takerVars, secrets>>,
             \A u \in Txs : (Seen(u)' => Seen(u)) /\ (Mined(u) => Mined(u)')
      PROVE  BackInv' /\ ShownInv' /\ (tFaults' = 0 => FaultlessInv')
    BY <1>4, TxFacts DEF RefineInv, BackInv, ShownInv, FaultlessInv, TakerAt, makerVars, takerVars
<1>5. CASE MineStep
  <2>1. LedgerTypeOK /\ OneMined /\ HasParent
    BY DEF RefineInv, RunInv, V2Inv, TypeOK
  <2>. QED
    BY <1>4, <1>5, <2>1, BlockFacts DEF MineStep
<1>6. CASE Tick \/ UNCHANGED vars
    BY <1>4, <1>6 DEF Tick, Seen, Mined, vars, ledgerVars
<1>. QED
    BY <1>1, <1>2, <1>3, <1>5, <1>6 DEF Next

\* What a state of the chains leaves out.
LEMMA Outcomes ==
    ASSUME RefineInv
    PROVE  /\ LedgerTypeOK /\ OneMined /\ HasParent
           /\ \A t \in Txs : Mined(t) => Seen(t)
           /\ Seen("MakerPaymentSpend") => "maker" \in secrets
           /\ Seen("FundingRefund") \/ Seen("MakerPaymentSecretRefund") => "taker" \in secrets
           /\ "maker" \in secrets \/ Seen("TakerPaymentSpend") => Mined("TakerPayment")
           /\ Seen("TakerPaymentSpend") => "maker" \in secrets
           /\ Mined("TakerPaymentRefund") => Mined("TakerPayment")
           /\ Seen("TakerPayment") => Mined("MakerPayment") /\ Seen("TakerFunding")
           /\ Mined("TakerPayment") => ~Seen("FundingRefund")
<1>1. LedgerTypeOK /\ OneMined /\ HasParent /\ SecretsShown /\ ConfirmInv /\ ShownInv
    BY DEF RefineInv, RunInv, V2Inv, TypeOK
<1>2. \A t \in Txs : Mined(t) => Seen(t)
    BY DEF Mined, Seen
<1>. QED
    BY <1>1, <1>2, TxFacts DEF OneMined, HasParent, SecretsShown, ConfirmInv, ShownInv

\* A step that sends nothing is no step of the contract.
LEMMA RefinesSilence ==
    ASSUME UNCHANGED <<tx, secrets>>
    PROVE  UNCHANGED <<mpState, tpState, secrets>>
BY DEF mpState, tpState, Seen, Mined

\* The two payments.  The maker's may be one that replaces an earlier one.
LEMMA RefinesPayment ==
    ASSUME RefineInv,
           \/ SendPayment("TakerFunding")
           \/ mEv = "TakerFundingReceived" /\ Seen("TakerFunding") /\ SendPayment("MakerPayment")
    PROVE  [Contract!Next]_<<mpState, tpState, secrets>>
<1>. USE Outcomes
<1>1. CASE SendPayment("TakerFunding")
  <2>1. /\ \A u \in Txs : Seen(u)' <=> Seen(u) \/ u = "TakerFunding"
        /\ \A u \in Txs \ {"TakerFunding"} : Mined(u)' <=> Mined(u)
        /\ secrets' = secrets
    BY <1>1, SendSeen DEF Payments
  <2>2. mpState' = mpState
    BY <2>1, TxFacts DEF mpState
  <2>3. tpState' = tpState \/ (tpState = "none" /\ tpState' = "funded")
    BY <2>1, TxFacts DEF tpState
  <2>. QED
    BY <2>1, <2>2, <2>3 DEF Contract!Next, Contract!TakerFunds, Contract!TakersCoins
<1>2. CASE mEv = "TakerFundingReceived" /\ Seen("TakerFunding") /\ SendPayment("MakerPayment")
  <2>1. /\ \A u \in Txs : Seen(u)' <=> Seen(u) \/ u = "MakerPayment"
        /\ \A u \in Txs \ {"MakerPayment"} : Mined(u)' <=> Mined(u)
        /\ ~Mined("MakerPayment")' /\ secrets' = secrets
    BY <1>2, SendSeen, SendFacts DEF Payments, Mined
  <2>2. ~Seen("TakerPayment") /\ ~Seen("MakerPaymentRefund") /\ ~Seen("MakerPaymentSecretRefund")
    BY <1>2 DEF RefineInv, RunInv, ConfirmInv, TakerKnowsPayment, MakerBefore, BackInv,
                MakerGivesBack
  <2>3. /\ ~Mined("TakerPaymentSpend") /\ ~Mined("TakerPaymentRefund")
        /\ ~Mined("TakerPayment") /\ ~Mined("MakerPaymentSpend")
        /\ ~Mined("MakerPaymentRefund") /\ ~Mined("MakerPaymentSecretRefund")
    BY <2>2, TxFacts
  <2>4. tpState' = tpState /\ tpState \in {"funded", "reclaimed"}
    BY <1>2, <2>1, <2>2, <2>3, TxFacts DEF tpState
  <2>5. mpState \in {"none", "sent", "locked"} /\ mpState' = "sent"
    BY <2>1, <2>3, TxFacts DEF mpState
  <2>. QED
    BY <2>1, <2>4, <2>5 DEF Contract!Next, Contract!MakerPays, Contract!MakersCoins
<1>. QED
    BY <1>1, <1>2

\* The other transactions.  Only those that show a secret, and the taker's payment, are steps
\* of the contract already when they are sent.
LEMMA RefinesSpend ==
    ASSUME RefineInv, NEW t \in Spends, SpendOk(t),
           t = "TakerPayment" => tEv = "MakerPaymentConfirmed",
           t = "TakerPaymentSpend" => mEv \notin MakerGivesBack
                                      /\ (mPhase = "recv" \/ Mined("TakerPayment"))
    PROVE  [Contract!Next]_<<mpState, tpState, secrets>>
<1>. USE Outcomes
<1>1. /\ \A u \in Txs : Seen(u)' <=> Seen(u) \/ u = t
      /\ \A u \in Txs : Mined(u)' <=> Mined(u)
      /\ secrets' = secrets \cup Shows(t)
      /\ Seen(Parent[t]) /\ ~Mined(t) /\ \A u \in Competitors(t) : ~Mined(u)
    BY SpendSeen DEF SpendOk
<1>2. mpState' = mpState
    BY <1>1, TxFacts DEF mpState
<1>3. t # "TakerPayment" \/ Seen(t) => tpState' = tpState
    BY <1>1, TxFacts DEF tpState
<1>4. CASE t \notin {"TakerPayment", "FundingRefund", "TakerPaymentSpend"}
               \/ (t = "TakerPayment" /\ Seen(t))
  <2>1. secrets' = secrets
    BY <1>1, <1>4 DEF Shows
  <2>. QED
    BY <1>2, <1>3, <1>4, <2>1
<1>5. CASE t = "TakerPayment" /\ ~Seen(t)
  <2>1. "taker" \notin secrets /\ Mined("MakerPayment")
    BY <1>5 DEF RefineInv, RunInv, ConfirmInv, ShownInv, TakerTakesBack
  <2>2. secrets' = secrets /\ Seen("TakerFunding") /\ "maker" \notin secrets
    BY <1>1, <1>5, TxFacts DEF Shows
  <2>3. tpState = "funded" /\ tpState' = "paid"
    BY <1>1, <1>5, <2>1, <2>2, TxFacts DEF tpState
  <2>4. mpState \in {"locked", "refunded"}
    BY <2>1, <2>2, TxFacts DEF mpState
  <2>. QED
    BY <1>2, <2>1, <2>2, <2>3, <2>4 DEF Contract!Next, Contract!TakerPays, Contract!TakersCoins
<1>6. CASE t = "FundingRefund"
  <2>1. secrets' = secrets \cup {"taker"} /\ ~Mined("TakerPayment") /\ Seen("TakerFunding")
    BY <1>1, <1>6, TxFacts DEF Shows, Competitors
  <2>2. tpState \in {"funded", "paid"}
    BY <1>1, <1>6, <2>1, TxFacts DEF tpState
  <2>. QED
    BY <1>2, <1>3, <1>6, <2>1, <2>2 DEF Contract!Next, Contract!TakerShows
<1>7. CASE t = "TakerPaymentSpend"
  <2>1. secrets' = secrets \cup {"maker"} /\ ~Mined("TakerPaymentRefund")
    BY <1>1, <1>7, TxFacts DEF Shows, Competitors
  <2>2. CASE "maker" \in secrets
    BY <1>2, <1>3, <1>7, <2>1, <2>2
  <2>3. CASE "maker" \notin secrets
    <3>1. /\ Mined("TakerPayment")
          /\ ~Seen("MakerPaymentRefund") /\ ~Seen("MakerPaymentSecretRefund")
      BY <1>7 DEF RefineInv, RunInv, ConfirmInv, BackInv
    <3>2. tpState = "locked"
      BY <1>1, <1>7, <2>1, <3>1, TxFacts DEF tpState
    <3>3. mpState = "locked"
      BY <2>3, <3>1, TxFacts DEF mpState
    <3>. QED
      BY <1>2, <1>3, <1>7, <2>1, <3>2, <3>3 DEF Contract!Next, Contract!MakerShows
  <2>. QED
    BY <2>2, <2>3
<1>. QED
    BY <1>4, <1>5, <1>6, <1>7

\* A block.  Nothing of what it makes void was a step of the contract by itself, but for the
\* taker's payment, which the refund of the funding makes void.
LEMMA RefinesMine ==
    ASSUME RefineInv, NEW t \in Txs, Mine(t)
    PROVE  [Contract!Next]_<<mpState, tpState, secrets>>
<1>. USE Outcomes
<1>1. /\ \A u \in Txs : Seen(u)' => Seen(u)
      /\ \A u \in Txs : Mined(u)' <=> Mined(u) \/ u = t
      /\ Seen(t) /\ ~Mined(t) /\ (t \in Spends => Mined(Parent[t]))
      /\ \A u \in Competitors(t) : ~Mined(u)
      /\ \A u \in Txs : \/ Seen(u)' <=> Seen(u)
                        \/ u \in Competitors(t)
                        \/ u \in Spends /\ Parent[u] \in Competitors(t)
      /\ secrets' = secrets
    BY BlockFacts
<1>2. /\ Seen("MakerPayment")' <=> Seen("MakerPayment")
      /\ Seen("TakerFunding")' <=> Seen("TakerFunding")
      /\ t # "FundingRefund" => (Seen("TakerPayment")' <=> Seen("TakerPayment"))
    BY <1>1, TxFacts DEF Competitors
<1>3. t \notin {"MakerPayment", "MakerPaymentSpend", "MakerPaymentRefund",
                "MakerPaymentSecretRefund"} => mpState' = mpState
    BY <1>1, <1>2, TxFacts DEF mpState
<1>4. t \notin {"TakerPayment", "FundingRefund", "TakerPaymentSpend", "TakerPaymentRefund"} =>
          tpState' = tpState
    BY <1>1, <1>2, TxFacts DEF tpState
<1>. USE <1>1 DEF Contract!Next, Contract!MakersCoins, Contract!TakersCoins
<1>5. CASE t = "TakerFunding"
    BY <1>3, <1>4, <1>5
<1>6. CASE t = "MakerPayment"
  <2>1. mpState' = mpState \/ (mpState = "sent" /\ mpState' = "locked")
    BY <1>2, <1>6, TxFacts DEF mpState
  <2>. QED
    BY <1>4, <1>6, <2>1 DEF Contract!MakerConfirms
<1>7. CASE t = "TakerPayment"
  <2>1. ~Mined("FundingRefund")
    BY <1>7, TxFacts DEF Competitors
  <2>2. tpState = "paid" /\ tpState' = "locked"
    BY <1>2, <1>7, <2>1, TxFacts DEF tpState
  <2>. QED
    BY <1>3, <1>7, <2>2 DEF Contract!TakerConfirms
<1>8. CASE t = "FundingRefund"
  <2>1. ~Mined("TakerPayment") /\ Seen("TakerFunding")
    BY <1>8, TxFacts DEF Competitors
  <2>2. tpState \in {"funded", "paid"} /\ tpState' = "reclaimed"
    BY <1>8, <2>1, TxFacts DEF tpState
  <2>. QED
    BY <1>3, <1>8, <2>2 DEF Contract!TakerReclaims
<1>9. CASE t = "TakerPaymentSpend"
  <2>1. Mined("TakerPayment") /\ ~Mined("TakerPaymentRefund") /\ "maker" \in secrets
    BY <1>9, TxFacts DEF Competitors
  <2>2. tpState = "locked" /\ tpState' = "claimed"
    BY <1>9, <2>1, TxFacts DEF tpState
  <2>. QED
    BY <1>3, <1>9, <2>1, <2>2 DEF Contract!MakerClaims
<1>10. CASE t = "TakerPaymentRefund"
  <2>1. Mined("TakerPayment") /\ ~Mined("TakerPaymentSpend")
    BY <1>10, TxFacts DEF Competitors
  <2>2. tpState = "locked" /\ tpState' = "refunded"
    BY <1>10, <2>1, TxFacts DEF tpState
  <2>. QED
    BY <1>3, <1>10, <2>2 DEF Contract!TakerRefunds
<1>11. CASE t \in {"MakerPaymentSpend", "MakerPaymentRefund", "MakerPaymentSecretRefund"}
  <2>1. /\ Mined("MakerPayment") /\ ~Mined("MakerPaymentSpend")
        /\ ~Mined("MakerPaymentRefund") /\ ~Mined("MakerPaymentSecretRefund")
    BY <1>11, TxFacts DEF Competitors
  <2>2. mpState = "locked"
    BY <2>1, TxFacts DEF mpState
  <2>3. CASE t = "MakerPaymentSpend"
    <3>1. mpState' = "claimed" /\ "maker" \in secrets
      BY <2>3, TxFacts DEF mpState
    <3>. QED
      BY <1>4, <2>2, <2>3, <3>1 DEF Contract!TakerClaims
  <2>4. CASE t = "MakerPaymentRefund"
    <3>1. mpState' = "refunded"
      BY <2>1, <2>4, TxFacts DEF mpState
    <3>. QED
      BY <1>4, <2>2, <2>4, <3>1 DEF Contract!MakerRefunds
  <2>5. CASE t = "MakerPaymentSecretRefund"
    <3>1. mpState' = "returned" /\ "taker" \in secrets
      BY <2>1, <2>5, TxFacts DEF mpState
    <3>. QED
      BY <1>4, <2>2, <2>5, <3>1 DEF Contract!MakerReturns
  <2>. QED
    BY <1>11, <2>3, <2>4, <2>5
<1>. QED
    BY <1>5, <1>6, <1>7, <1>8, <1>9, <1>10, <1>11, TxFacts

\* The initial states have the invariant.
LEMMA RefineInvInit == Init => RefineInv
<1>. SUFFICES ASSUME Init PROVE RefineInv
    OBVIOUS
<1>1. (\A t \in Txs : ~Seen(t)) /\ secrets = {}
    BY DEF Init, LedgerInit, Seen
<1>2. BackInv /\ ShownInv /\ FaultlessInv
    BY <1>1, TxFacts DEF Init, TakerInit, BackInv, ShownInv, FaultlessInv
<1>. QED
    BY <1>2, RunInvInit DEF RefineInv

\* It holds in every behaviour.
LEMMA RefineInvariant == Spec => []RefineInv
<1>1. RefineInv /\ [Next]_vars => RefineInv'
  <2>. SUFFICES ASSUME RefineInv, [Next]_vars PROVE RefineInv'
    OBVIOUS
  <2>1. RunInv'
    BY RunInvNext DEF RefineInv
  <2>. QED
    BY <2>1, BackStep DEF RefineInv
<1>. QED
    BY <1>1, RefineInvInit, PTL DEF Spec

\* A maker that took its payment back with the taker's secret has nothing of the taker's, and if
\* no call of the taker failed there was nothing to have, whichever calls of the maker fail.
THEOREM SecretRefundMeansNoPaymentV2 == Spec => []SecretRefundMeansNoPayment
<1>1. RefineInv => SecretRefundMeansNoPayment
  <2>. SUFFICES ASSUME RefineInv, Mined("MakerPaymentSecretRefund")
                PROVE  /\ ~Mined("TakerPaymentSpend")
                       /\ tFaults = 0 => ~Mined("TakerPayment")
    BY DEF SecretRefundMeansNoPayment
  <2>1. /\ Seen("MakerPaymentSecretRefund") /\ "taker" \in secrets
        /\ Seen("TakerPaymentSpend") => "maker" \in secrets
        /\ \A t \in Txs : Mined(t) => Seen(t)
    BY Outcomes, TxFacts
  <2>2. ~Mined("TakerPaymentSpend")
    BY <2>1, TxFacts DEF RefineInv, ShownInv
  <2>3. tFaults = 0 => ~Seen("TakerPayment")
    BY <2>1 DEF RefineInv, FaultlessInv
  <2>. QED
    BY <2>1, <2>2, <2>3, TxFacts
<1>. QED
    BY <1>1, RefineInvariant, PTL

\* The two machines implement SwapV2Contract, for all parameters: however often the nodes die,
\* whichever calls fail, with or without having had their effect, and however long a node is down.
THEOREM ContractImplementedV2 == Spec => ImplementsContract
<1>1. Init => Contract!Init
    BY TxFacts DEF Init, LedgerInit, Contract!Init, mpState, tpState, Seen, Mined
<1>2. RefineInv /\ [Next]_vars => [Contract!Next]_<<mpState, tpState, secrets>>
  <2>. SUFFICES ASSUME RefineInv, [Next]_vars
                PROVE  [Contract!Next]_<<mpState, tpState, secrets>>
    OBVIOUS
  <2>0. TakerTypeOK
    BY DEF RefineInv, RunInv, V2Inv, TypeOK
  <2>1. CASE MakerWorks
    <3>1. MakerMovesCoins
      BY <2>1, MakerSendsCoins DEF MakerWorks
    <3>. QED
      BY <3>1, RefinesSilence, RefinesPayment, RefinesSpend, TxFacts DEF MakerMovesCoins
  <2>2. CASE TakerWorks \/ TakerStep
    <3>1. TakerMovesCoins
      BY <2>0, <2>2, TakerSendsCoins
    <3>. QED
      BY <3>1, RefinesSilence, RefinesPayment, RefinesSpend, TxFacts DEF TakerMovesCoins
  <2>3. CASE MakerStep
    BY <2>3, MakerRestSendsNothing, RefinesSilence DEF MakerStep
  <2>4. CASE MineStep
    BY <2>4, RefinesMine DEF MineStep
  <2>5. CASE Tick \/ UNCHANGED vars
    BY <2>5, RefinesSilence DEF Tick, vars, ledgerVars
  <2>. QED
    BY <2>1, <2>2, <2>3, <2>4, <2>5 DEF Next
<1>. QED
    BY <1>1, <1>2, RefineInvariant, PTL DEF Spec, ImplementsContract, Contract!Spec

=============================================================================
