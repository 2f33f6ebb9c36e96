--------------------------- MODULE SwapChainProofs --------------------------
(***************************************************************************)
(* What the chains say about a legacy swap, and what its log says about    *)
(* the chains: the taker pays after the maker's payment confirmed, the     *)
(* secret is public only after the taker's did, nobody pays twice, a       *)
(* payment that is still locked leaves a log recover_funds accepts; the    *)
(* swap implements SwapContract; and an attentive taker, or watcher, does  *)
(* not let the maker keep both coins.                                      *)
(*                                                                         *)
(* Like the handlers in SwapLogProofs, the steps of the three parties are  *)
(* first reduced to a table: the transaction a step broadcasts, and when.  *)
(***************************************************************************)
EXTENDS SwapLogProofs, AttentiveSwap

USE DEF LedgerTypeOK, MakerTypeOK, TakerTypeOK, WatcherTypeOK

-----------------------------------------------------------------------------
(* What is broadcast, by whom and when.                                    *)

Claim == {"MakerPaymentSpend", "MakerPaymentRefund", "TakerPaymentSpend", "TakerPaymentRefund"}

\* t is in the mempool afterwards, if it was nowhere before.
Adds(t) == \A u \in Txs : tx'[u] = IF u = t /\ tx[u] = "none" THEN "mempool" ELSE tx[u]

SentStays == \A p \in Payments : sent'[p] = sent[p]

Quiet == tx' = tx /\ SentStays

Sends(p) ==
    /\ ~Seen(p) /\ Adds(p)
    /\ \A q \in Payments : sent'[q] = IF q = p THEN sent[q] + 1 ELSE sent[q]

Claims(t) == Unspent(ParentOf(t)) /\ Adds(t) /\ SentStays

MakerSends == mQueue = <<>> /\ mCmd = "SendPayment" /\ Sends("MakerPayment")

TakerSends ==
    /\ tUp /\ tQueue = <<>> /\ tCmd = "SendTakerPayment"
    /\ now <= wait_for_maker_payment_conf_until(tStartedAt)
    /\ Sends("TakerPayment")

MakerClaims ==
    /\ Claims("TakerPaymentSpend")
    /\ mCmd = "SpendTakerPayment" \/ SpendSeen("MakerPayment")

TakerClaims == Claims("MakerPaymentSpend") /\ (SecretKnown \/ wState = "SpendMakerPayment")

MakerTakesBack == Claims("MakerPaymentRefund") /\ now > maker_payment_lock(mStartedAt)
TakerTakesBack == Claims("TakerPaymentRefund") /\ now > taker_payment_lock(tStartedAt)

\* Each call of SwapOps broadcasts its own transaction or nothing.
LEMMA Broadcasts ==
    ASSUME LedgerTypeOK, NEW p \in Payments
    PROVE  /\ ~Seen(p) /\ (SendPaymentOk(p) \/ SendPaymentErr(p)) => Sends(p) \/ Quiet
           /\ sent' = sent /\ (SpendOk(p) \/ SpendErr(p)) => Claims(SpendOf(p)) \/ Quiet
           /\ sent' = sent /\ (RefundOk(p) \/ RefundErr(p)) => Claims(RefundOf(p)) \/ Quiet
<1>1. /\ p \in Txs /\ SpendOf(p) \in Txs /\ RefundOf(p) \in Txs
      /\ ParentOf(SpendOf(p)) = p /\ ParentOf(RefundOf(p)) = p
  BY DEF Payments, Txs, SpendOf, RefundOf, ParentOf
<1>2. \A t \in Txs : tx' = Put(t) => Adds(t)
  BY DEF Put, Adds
<1>3. sent' = sent => SentStays
  BY DEF SentStays
<1>4. ~Seen(p) /\ SendPaymentOk(p) => Sends(p)
  BY <1>1, <1>2 DEF SendPaymentOk, Sends, Payments
<1>5. ~Seen(p) /\ SendPaymentErr(p) => Sends(p) \/ Quiet
  BY <1>3, <1>4 DEF SendPaymentErr, Quiet
<1>6. sent' = sent /\ (SpendOk(p) \/ SpendErr(p)) => Claims(SpendOf(p)) \/ Quiet
  BY <1>1, <1>2, <1>3 DEF SpendOk, SpendErr, Claims, Quiet
<1>7. sent' = sent /\ (RefundOk(p) \/ RefundErr(p)) => Claims(RefundOf(p)) \/ Quiet
  BY <1>1, <1>2, <1>3 DEF RefundOk, RefundErr, Claims, Quiet
<1> QED
  BY <1>4, <1>5, <1>6, <1>7

\* What a step of the maker broadcasts.
LEMMA MakerBroadcasts ==
    ASSUME LedgerTypeOK, MakerTypeOK, MakerNext(tStartedAt)
    PROVE  now' = now /\ (Quiet \/ MakerSends \/ MakerClaims \/ MakerTakesBack)
<1> DEFINE peer == tStartedAt
<1> USE Payment2
<1>a. UNCHANGED <<tx, sent>> => Quiet
  BY DEF Quiet, SentStays
<1>0. now' = now
  BY MakerLedger
<1>1. CASE MakerStart \/ MakerWaitTakerFee \/ MakerWaitOwnConfirmation \/ MakerWaitForTakerPayment
           \/ MakerNegotiateSend \/ MakerNegotiate(peer) \/ MakerWaitTakerFeeSend
           \/ MakerWaitForTakerPaymentSend
  BY <1>0, <1>1, <1>a DEF MakerStart, MakerWaitTakerFee, MakerWaitOwnConfirmation,
     MakerWaitForTakerPayment, MakerNegotiateSend, MakerNegotiate, MakerWaitTakerFeeSend,
     MakerWaitForTakerPaymentSend, ledgerVars
<1>2. CASE MakerValidateTakerPayment \/ MakerConfirmTakerPaymentSpend \/ MakerPrepareRefund
           \/ MakerFinalizeRefund \/ MakerFinish \/ MakerSaveEvent \/ MakerCrash \/ MakerRestart
  BY <1>0, <1>2, <1>a DEF MakerValidateTakerPayment, MakerConfirmTakerPaymentSpend,
     MakerPrepareRefund, MakerFinalizeRefund, MakerFinish, MakerSaveEvent, MakerCrash,
     MakerRestart, ledgerVars
<1>3. CASE MakerPaymentSend
  BY <1>0, <1>3, <1>a, Broadcasts DEF MakerPaymentSend, check_if_my_payment_sent, MakerSends,
     MakerRuns
<1>4. CASE MakerSpendTakerPayment
  BY <1>0, <1>4, <1>a, Broadcasts DEF MakerSpendTakerPayment, MakerClaims, MakerRuns
<1>5. CASE MakerRefundPayment
  BY <1>0, <1>5, Broadcasts DEF MakerRefundPayment, can_refund_htlc, MakerTakesBack
<1>6. CASE MakerRecoverFunds
  BY <1>0, <1>6, Broadcasts DEF MakerRecoverFunds, can_refund_htlc, MakerClaims, MakerTakesBack
<1> QED
  BY <1>1, <1>2, <1>3, <1>4, <1>5, <1>6 DEF MakerNext, MakerHandles

\* What a step of the taker broadcasts; the taker's fee is not one of the payments.
LEMMA TakerBroadcasts ==
    ASSUME LedgerTypeOK, TakerTypeOK, TakerNext(mStartedAt)
    PROVE  now' = now /\ (Quiet \/ TakerSends \/ TakerClaims \/ TakerTakesBack)
<1> DEFINE peer == mStartedAt
<1> USE Payment2
<1>a. UNCHANGED <<tx, sent>> => Quiet
  BY DEF Quiet, SentStays
<1>0. now' = now
  BY TakerLedger
<1>1. CASE TakerStart \/ TakerNegotiateBegin \/ TakerNegotiate \/ TakerWaitForMakerPayment
           \/ TakerValidateMakerPayment \/ TakerWaitForTakerPaymentSpend
           \/ TakerNegotiateReply(peer) \/ TakerWaitForMakerPaymentSend
  BY <1>0, <1>1, <1>a DEF TakerStart, TakerNegotiateBegin, TakerNegotiate,
     TakerWaitForMakerPayment, TakerValidateMakerPayment, TakerWaitForTakerPaymentSpend,
     TakerNegotiateReply, TakerWaitForMakerPaymentSend, ledgerVars
<1>2. CASE TakerConfirmMakerPaymentSpend \/ TakerPrepareRefund \/ TakerFinalizeRefund \/ TakerFinish
           \/ TakerSaveEvent \/ TakerCrash \/ TakerRestart \/ TakerTellWatchers
           \/ TakerWaitForSpendSend
  BY <1>0, <1>2, <1>a DEF TakerConfirmMakerPaymentSpend, TakerPrepareRefund, TakerFinalizeRefund,
     TakerFinish, TakerSaveEvent, TakerCrash, TakerRestart, TakerTellWatchers,
     TakerWaitForSpendSend, ledgerVars
<1>3. CASE TakerSendTakerFee
  <2>1. tx' = tx /\ (sent' = sent \/ sent' = [sent EXCEPT !["TakerFee"] = @ + 1])
    BY <1>3 DEF TakerSendTakerFee
  <2>2. SentStays
    BY <2>1 DEF SentStays, Payments
  <2> QED
    BY <1>0, <2>1, <2>2 DEF Quiet
<1>4. CASE TakerSendTakerPayment
  BY <1>0, <1>4, <1>a, Broadcasts DEF TakerSendTakerPayment, check_if_my_payment_sent, TakerSends,
     TakerRuns
<1>5. CASE TakerSpendMakerPayment
  BY <1>0, <1>5, <1>a, Broadcasts DEF TakerSpendMakerPayment, TakerClaims, SecretKnown
<1>6. CASE TakerRefundPayment
  BY <1>0, <1>6, Broadcasts DEF TakerRefundPayment, can_refund_htlc, TakerTakesBack
<1>7. CASE TakerRecoverFunds
  BY <1>0, <1>7, Broadcasts DEF TakerRecoverFunds, can_refund_htlc, TakerClaims, TakerTakesBack,
     SecretKnown, TakerRemembers
<1> QED
  BY <1>1, <1>2, <1>3, <1>4, <1>5, <1>6, <1>7 DEF TakerNext, TakerHandles

\* What a step of the watcher broadcasts.
LEMMA WatcherBroadcasts ==
    ASSUME LedgerTypeOK, WatcherTypeOK, WatcherNext(tStartedAt)
    PROVE  now' = now /\ (Quiet \/ TakerClaims \/ TakerTakesBack)
<1> USE Payment2
<1>a. UNCHANGED <<tx, sent>> => Quiet
  BY DEF Quiet, SentStays
<1>0. now' = now
  BY WatcherLedger
<1>1. CASE WatcherSpawn \/ WatcherStop \/ WatcherValidateTakerFee
           \/ WatcherValidateTakerPayment(tStartedAt)
           \/ WatcherWaitForTakerPaymentSpend(tStartedAt)
           \/ WatcherWaitForMakerPaymentSpend(tStartedAt)
  BY <1>0, <1>1, <1>a DEF WatcherSpawn, WatcherStop, WatcherValidateTakerFee,
     WatcherValidateTakerPayment, WatcherWaitForTakerPaymentSpend,
     WatcherWaitForMakerPaymentSpend, ledgerVars
<1>2. CASE WatcherSpendMakerPayment
  BY <1>0, <1>2, Broadcasts DEF WatcherSpendMakerPayment, change_state, TakerClaims
<1>3. CASE WatcherRefundTakerPayment(tStartedAt)
  BY <1>0, <1>3, Broadcasts DEF WatcherRefundTakerPayment, can_refund_htlc, TakerTakesBack
<1> QED
  BY <1>1, <1>2, <1>3 DEF WatcherNext, WatcherHandles

\* A step of the swap leaves the chains alone, broadcasts one transaction, or is the chains' own.
PartyStep ==
    /\ now' = now
    /\ \/ Quiet \/ MakerSends \/ TakerSends \/ MakerClaims \/ TakerClaims
       \/ MakerTakesBack \/ TakerTakesBack

\* The table of the ledger.
LEMMA LedgerSteps ==
    ASSUME TypeOK, [Next]_vars
    PROVE  PartyStep \/ MineStep \/ EvictStep \/ TickStep
<1>1. CASE MakerStep
  BY <1>1, MakerBroadcasts DEF MakerStep, TypeOK, PartyStep
<1>2. CASE TakerStep
  BY <1>2, TakerBroadcasts DEF TakerStep, TypeOK, PartyStep
<1>3. CASE WatcherStep
  BY <1>3, WatcherBroadcasts DEF WatcherStep, TypeOK, PartyStep
<1>4. CASE Terminating \/ UNCHANGED vars
  BY <1>4 DEF Terminating, vars, ledgerVars, PartyStep, Quiet, SentStays
<1> QED
  BY <1>1, <1>2, <1>3, <1>4 DEF Next

-----------------------------------------------------------------------------
(* The chains by themselves.                                               *)

\* A claim is on chain only with its payment, and a block that takes one ends its rival.
ChainInv ==
    /\ \A t \in Claim : Seen(t) => Seen(ParentOf(t))
    /\ \A t \in Claim : Mined(t) => Mined(ParentOf(t))
    /\ \A t \in Txs : Mined(t) => \A u \in Conflicts(t) : ~Seen(u)

\* Somebody has claimed payment p.
Resolved(p) == SpendSeen(p) \/ RefundSeen(p)

\* What the chains do not take back: a mined transaction, and unless a node drops what it
\* has, a payment and that it is claimed.
ChainKeeps ==
    /\ \A t \in Txs : Mined(t) => Mined(t)'
    /\ PromptChain => \A p \in Payments : (Seen(p) => Seen(p)') /\ (Resolved(p) => Resolved(p)')

\* The two payments, their claims and what competes with what.
LEMMA ChainNames ==
    /\ Txs = Payments \cup Claim
    /\ \A t \in Payments : Conflicts(t) = {} /\ t \notin Claim
    /\ \A p \in Payments : /\ Conflicts(SpendOf(p)) = {RefundOf(p)}
                           /\ Conflicts(RefundOf(p)) = {SpendOf(p)}
                           /\ SpendOf(p) \in Claim /\ RefundOf(p) \in Claim
                           /\ SpendOf(p) # RefundOf(p)
    /\ \A t \in Claim : /\ ParentOf(t) \in Payments /\ t \notin Payments
                        /\ t \in {SpendOf(ParentOf(t)), RefundOf(ParentOf(t))}
                        /\ Conflicts(t) \subseteq Claim
                        /\ \A u \in Conflicts(t) : ParentOf(u) = ParentOf(t) /\ t \in Conflicts(u)
                        /\ t \notin Conflicts(t)
    /\ \A t \in Claim : \A p \in Payments : t \in {SpendOf(p), RefundOf(p)} <=> p = ParentOf(t)
<1>1. \A t \in Payments : Conflicts(t) = {} /\ t \notin Claim
  BY DEF Payments, Conflicts, Claim
<1>2. \A t \in Claim : Conflicts(t) = {SpendOf(ParentOf(t)), RefundOf(ParentOf(t))} \ {t}
  BY DEF Claim, Conflicts, SpendOf, RefundOf, ParentOf
<1>3. \A p \in Payments : /\ SpendOf(p) \in Claim /\ RefundOf(p) \in Claim
                          /\ SpendOf(p) # RefundOf(p)
                          /\ ParentOf(SpendOf(p)) = p /\ ParentOf(RefundOf(p)) = p
  BY DEF Payments, Claim, SpendOf, RefundOf, ParentOf
<1>4. \A t \in Claim : /\ ParentOf(t) \in Payments /\ t \notin Payments
                       /\ t \in {SpendOf(ParentOf(t)), RefundOf(ParentOf(t))}
  BY DEF Payments, Claim, SpendOf, RefundOf, ParentOf
<1>5. Txs = Payments \cup Claim
  BY DEF Txs, Claim
<1> QED
  BY <1>1, <1>2, <1>3, <1>4, <1>5

\* Broadcasting a claim of an unspent payment, or a payment.
LEMMA ChainAdds ==
    ASSUME TypeOK, ChainInv, NEW t \in Txs, Adds(t), t \in Claim => Unspent(ParentOf(t))
    PROVE  ChainInv' /\ ChainKeeps
<1>0. tx \in [Txs -> TxStates]
  BY DEF TypeOK
<1>1. /\ \A u \in Txs : Seen(u) => Seen(u)'
      /\ \A u \in Txs : Mined(u)' <=> Mined(u)
      /\ \A u \in Txs : u # t => (Seen(u)' <=> Seen(u))
  BY DEF Adds, Seen, Mined
<1>2. ChainKeeps
  BY <1>1, ChainNames DEF ChainKeeps, Resolved, SpendSeen, RefundSeen
<1>3. t \in Claim => /\ Seen(ParentOf(t)) /\ ~Mined(SpendOf(ParentOf(t)))
                     /\ ~Mined(RefundOf(ParentOf(t)))
  BY DEF Unspent
<1>4. \A u \in Claim : Seen(u)' => Seen(ParentOf(u))'
  BY <1>1, <1>3, ChainNames DEF ChainInv
<1>5. \A u \in Claim : Mined(u)' => Mined(ParentOf(u))'
  BY <1>1, ChainNames DEF ChainInv
<1>6. ASSUME NEW u \in Txs, Mined(u)', NEW v \in Conflicts(u) PROVE ~Seen(v)'
  <2>1. Mined(u) /\ u \in Claim /\ v \in Claim /\ ~Seen(v) /\ ParentOf(v) = ParentOf(u)
    BY <1>1, <1>6, ChainNames DEF ChainInv
  <2>2. v # t
    BY <1>3, <2>1, ChainNames
  <2> QED
    BY <1>1, <2>1, <2>2, ChainNames
<1>7. ChainInv'
  BY <1>4, <1>5, <1>6 DEF ChainInv
<1> QED
  BY <1>2, <1>7

\* A block.
LEMMA ChainMines ==
    ASSUME TypeOK, ChainInv, NEW t \in Txs, Mine(t)
    PROVE  ChainInv' /\ ChainKeeps
<1>0. tx \in [Txs -> TxStates] /\ tx[t] = "mempool" /\ (t \in Claim => Mined(ParentOf(t)))
  BY ChainNames DEF TypeOK, Mine
<1>1. \A u \in Txs : tx'[u] = IF u = t THEN "mined"
                              ELSE IF u \in Conflicts(t) THEN "none" ELSE tx[u]
  BY DEF Mine
<1>2. Seen(t) /\ ~Mined(t) /\ Mined(t)'
  BY <1>0, <1>1 DEF Seen, Mined
<1>3. /\ \A u \in Conflicts(t) : u \in Claim /\ ~Mined(u) /\ ~Seen(u)' /\ ~Mined(u)'
      /\ \A u \in Txs : u # t /\ u \notin Conflicts(t)
             => (Seen(u)' <=> Seen(u)) /\ (Mined(u)' <=> Mined(u))
  <2>1. \A u \in Conflicts(t) : u \in Claim /\ u # t /\ t \in Conflicts(u)
    BY ChainNames
  <2>2. \A u \in Conflicts(t) : ~Mined(u)
    BY <1>2, <2>1, ChainNames DEF ChainInv
  <2>3. \A u \in Conflicts(t) : ~Seen(u)' /\ ~Mined(u)'
    BY <1>1, <2>1, ChainNames DEF Seen, Mined
  <2> QED
    BY <1>1, <2>1, <2>2, <2>3 DEF Seen, Mined
<1>4. ChainKeeps
  <2>1. \A u \in Txs : Mined(u) => Mined(u)'
    BY <1>2, <1>3
  <2>2. \A p \in Payments : Seen(p) => Seen(p)'
    BY <1>2, <1>3, ChainNames DEF Seen, Mined
  <2>3. ASSUME NEW p \in Payments, Resolved(p) PROVE Resolved(p)'
    <3>1. CASE t \in {SpendOf(p), RefundOf(p)}
      BY <1>2, <3>1 DEF Resolved, SpendSeen, RefundSeen, Seen, Mined
    <3>2. CASE t \notin {SpendOf(p), RefundOf(p)}
      <4>1. /\ SpendOf(p) \in Claim /\ RefundOf(p) \in Claim
            /\ SpendOf(p) \notin Conflicts(t) /\ RefundOf(p) \notin Conflicts(t)
        BY <3>2, ChainNames
      <4> QED
        BY <1>3, <2>3, <3>2, <4>1, ChainNames DEF Resolved, SpendSeen, RefundSeen
    <3> QED
      BY <3>1, <3>2
  <2> QED
    BY <2>1, <2>2, <2>3 DEF ChainKeeps
<1>5. ASSUME NEW u \in Claim PROVE (Seen(u)' => Seen(ParentOf(u))') /\ (Mined(u)' => Mined(ParentOf(u))')
  <2>1. ParentOf(u) \in Payments /\ ParentOf(u) \notin Conflicts(t) /\ u \in Txs /\ ParentOf(u) \in Txs
    BY <1>3, ChainNames
  <2>2. (Seen(u)' => Seen(u)) /\ (Mined(u)' => Mined(u) \/ u = t)
    BY <1>2, <1>3, <2>1
  <2>3. (Seen(ParentOf(u)) => Seen(ParentOf(u))') /\ (Mined(ParentOf(u)) => Mined(ParentOf(u))')
    BY <1>4, <2>1, <1>2, <1>3 DEF ChainKeeps, Seen, Mined
  <2> QED
    BY <1>0, <2>2, <2>3 DEF ChainInv
<1>6. ASSUME NEW u \in Txs, Mined(u)', NEW v \in Conflicts(u) PROVE ~Seen(v)'
  <2>1. u \in Claim /\ v \in Claim /\ v \in Txs /\ u \in Conflicts(v)
    BY <1>6, ChainNames
  <2>2. CASE u = t
    BY <1>3, <1>6, <2>2
  <2>3. CASE u # t
    <3>1. Mined(u)
      BY <1>3, <1>6, <2>3
    <3>2. ~Seen(v) /\ v # t
      BY <1>2, <1>6, <3>1 DEF ChainInv
    <3> QED
      BY <1>3, <2>1, <3>2
  <2> QED
    BY <2>2, <2>3
<1>7. ChainInv'
  BY <1>5, <1>6 DEF ChainInv
<1> QED
  BY <1>4, <1>7

\* A node drops a transaction.
LEMMA ChainEvicts ==
    ASSUME TypeOK, ChainInv, NEW t \in Txs, Evict(t)
    PROVE  ChainInv' /\ ChainKeeps
<1>0. tx \in [Txs -> TxStates] /\ tx[t] = "mempool" /\ ~PromptChain
  BY DEF TypeOK, Evict
<1> DEFINE Gone == {u \in Txs : u = t \/ (t \in Payments /\ u \in {SpendOf(t), RefundOf(t)})}
<1>1. \A u \in Txs : tx'[u] = IF u \in Gone THEN "none" ELSE tx[u]
  BY DEF Evict
<1>2. /\ \A u \in Txs : u \in Gone => ~Seen(u)' /\ ~Mined(u)'
      /\ \A u \in Txs : u \notin Gone => (Seen(u)' <=> Seen(u)) /\ (Mined(u)' <=> Mined(u))
  BY <1>1 DEF Seen, Mined
<1>3. \A u \in Gone : ~Mined(u)
  BY <1>0, ChainNames DEF ChainInv, Mined
<1>4. \A u \in Txs : (Mined(u)' <=> Mined(u)) /\ (Seen(u)' => Seen(u))
  BY <1>2, <1>3
<1>5. \A u \in Claim : Seen(u)' => ParentOf(u) \notin Gone
  BY <1>2, ChainNames
<1>6. ChainInv'
  BY <1>2, <1>4, <1>5, ChainNames DEF ChainInv
<1> QED
  BY <1>0, <1>4, <1>6 DEF ChainKeeps

\* Every step of the swap.
LEMMA ChainStep ==
    ASSUME TypeOK, ChainInv, [Next]_vars
    PROVE  ChainInv' /\ ChainKeeps
<1>1. CASE tx' = tx
  BY <1>1 DEF ChainInv, ChainKeeps, Resolved, SpendSeen, RefundSeen, Seen, Mined
<1>2. CASE PartyStep
  <2>1. \A t \in Claim : Claims(t) => Adds(t) /\ Unspent(ParentOf(t))
    BY DEF Claims
  <2>2. \A p \in Payments : Sends(p) => Adds(p)
    BY DEF Sends
  <2>3. \A t \in Claim : Claims(t) => ChainInv' /\ ChainKeeps
    BY <2>1, ChainAdds, ChainNames
  <2>4. \A p \in Payments : Sends(p) => ChainInv' /\ ChainKeeps
    BY <2>2, ChainAdds, ChainNames
  <2>5. {"MakerPaymentSpend", "MakerPaymentRefund", "TakerPaymentSpend", "TakerPaymentRefund"} = Claim
    BY DEF Claim
  <2> QED
    BY <1>1, <1>2, <2>3, <2>4, <2>5, Payment2 DEF PartyStep, Quiet, MakerSends, TakerSends,
       MakerClaims, TakerClaims, MakerTakesBack, TakerTakesBack
<1>3. CASE MineStep
  BY <1>3, ChainMines DEF MineStep
<1>4. CASE EvictStep
  BY <1>4, ChainEvicts DEF EvictStep
<1>5. CASE TickStep
  BY <1>1, <1>5 DEF TickStep, Tick
<1> QED
  BY <1>2, <1>3, <1>4, <1>5, LedgerSteps

-----------------------------------------------------------------------------
(* The logs and the chains together.                                       *)

\* The events after which a taker's payment has been claimed, by one side or the other.
TakerResolvedEvents ==
    {"TakerPaymentRefunded", "TakerPaymentRefundedByWatcher", "MakerPaymentSpent",
     "MakerPaymentSpentByWatcher", "MakerPaymentSpendConfirmed"}

\* What the maker's log says about the chains.
MakerChainInv ==
    /\ mCmd = "SpendTakerPayment" => Mined("TakerPayment")
    /\ MakerRemembers("TakerPaymentValidatedAndConfirmed") => Mined("TakerPayment")
    /\ MakerRemembers("TakerPaymentSpendConfirmed") => Mined("TakerPaymentSpend")
    /\ Seen("MakerPayment") => "TakerFeeValidated" \in mSaved
    /\ PromptChain /\ MakerRemembers("MakerPaymentRefunded") => Resolved("MakerPayment")

\* What the taker's log says about the chains.
TakerChainInv ==
    /\ TakerRemembers("MakerPaymentValidatedAndConfirmed") => Mined("MakerPayment")
    /\ Seen("TakerPayment") => "MakerPaymentValidatedAndConfirmed" \in tSaved
    /\ sent["TakerPayment"] > 0 => Mined("MakerPayment")
    /\ PromptChain => \A e \in TakerResolvedEvents : TakerRemembers(e) => Resolved("TakerPayment")

\* Nobody but the maker knows the secret before the taker's payment is mined.
SecretInv ==
    (\/ SecretKnown \/ SpendSeen("MakerPayment")
     \/ wState \in {"WaitForMakerPaymentSpend", "SpendMakerPayment"})
        => Mined("TakerPayment") /\ (PromptChain => Resolved("TakerPayment"))

\* A payment that was sent is found again.
PaidInv == PromptChain => \A p \in Payments : sent[p] <= 1 /\ (sent[p] > 0 => Seen(p))

SwapChainInv == ChainInv /\ MakerChainInv /\ TakerChainInv /\ SecretInv /\ PaidInv

\* What the maker comes to know, and what it then saw on chain.
LEMMA MakerRecalls ==
    ASSUME LedgerTypeOK, MakerTypeOK, MakerLastInv, MakerNext(tStartedAt)
    PROVE  /\ mSaved \subseteq mSaved'
           /\ MakerRemembers("TakerPaymentValidatedAndConfirmed")'
                  => MakerRemembers("TakerPaymentValidatedAndConfirmed") \/ Mined("TakerPayment")
           /\ mCmd' = "SpendTakerPayment"
                  => \/ mCmd = "SpendTakerPayment" \/ Mined("TakerPayment")
                     \/ MakerRemembers("TakerPaymentValidatedAndConfirmed")
           /\ MakerRemembers("TakerPaymentSpendConfirmed")'
                  => MakerRemembers("TakerPaymentSpendConfirmed") \/ Mined("TakerPaymentSpend")
           /\ MakerRemembers("MakerPaymentRefunded")'
                  => MakerRemembers("MakerPaymentRefunded") \/ Seen("MakerPaymentRefund")'
<1>m. /\ \A e : MakerRemembers(e) <=> e \in mSaved \/ Listed(mQueue, e)
      /\ \A e : MakerRemembers(e)' <=> e \in mSaved' \/ Listed(mQueue', e)
  BY DEF MakerRemembers, Listed
<1>1. CASE UNCHANGED <<mUp, mCmd, mQueue, mSaved, mLast>>
  BY <1>1 DEF MakerRemembers
<1>2. CASE MakerSaveEvent
  BY <1>2, MakerSaveMemory DEF MakerSaveEvent, save_my_maker_swap_event
<1>3. CASE MakerCrash
  BY <1>3, <1>m, ListTypes DEF MakerCrash
<1>4. CASE MakerRestart
  <2>1. /\ UNCHANGED <<mSaved, mQueue>>
        /\ mCmd' = "SpendTakerPayment" => MakerGetCommand(mLast) = "SpendTakerPayment"
    BY <1>4 DEF MakerRestart
  <2>2. mCmd' = "SpendTakerPayment" => mLast = "TakerPaymentValidatedAndConfirmed"
    BY <2>1, MakerGetCommandType
  <2> QED
    BY <1>m, <2>1, <2>2 DEF MakerLastInv
<1>5. CASE MakerReturned
  <2>1. PICK from, next, first, E : MakerRow(from, next, first, E) /\ MakerHandled(from, next, first, E)
    BY <1>5, Zenon DEF MakerReturned
  <2>2. /\ mSaved' = mSaved /\ mCmd' = next
        /\ \A e : Listed(mQueue', e) <=> e \in E
    BY <2>1 DEF MakerHandled
  <2>3. /\ "TakerPaymentValidatedAndConfirmed" \in E => Mined("TakerPayment")
        /\ next = "SpendTakerPayment" => Mined("TakerPayment")
        /\ "TakerPaymentSpendConfirmed" \in E => Mined("TakerPaymentSpend")
        /\ "MakerPaymentRefunded" \in E => Seen("MakerPaymentRefund")'
    BY <2>1 DEF MakerRow, MakerGivesUp
  <2> QED
    BY <1>m, <2>2, <2>3
<1> QED
  BY <1>1, <1>2, <1>3, <1>4, <1>5, MakerSteps

\* The same for the taker.
LEMMA TakerRecalls ==
    ASSUME LedgerTypeOK, TakerTypeOK, TakerLastInv, TakerNext(mStartedAt)
    PROVE  /\ tSaved \subseteq tSaved'
           /\ TakerRemembers("MakerPaymentValidatedAndConfirmed")'
                  => TakerRemembers("MakerPaymentValidatedAndConfirmed") \/ Mined("MakerPayment")
           /\ \A e \in TakerResolvedEvents : TakerRemembers(e)'
                  => \/ TakerRemembers(e) \/ tSecret \/ SpendSeen("MakerPayment")
                     \/ RefundSeen("TakerPayment") \/ Seen("TakerPaymentRefund")'
<1> DEFINE gate == "MakerPaymentValidatedAndConfirmed"
           OnChain == \/ tSecret \/ SpendSeen("MakerPayment")
                      \/ RefundSeen("TakerPayment") \/ Seen("TakerPaymentRefund")'
<1>m. /\ \A e : TakerRemembers(e) <=> e \in tSaved \/ Listed(tQueue, e)
      /\ \A e : TakerRemembers(e)' <=> e \in tSaved' \/ Listed(tQueue', e)
  BY DEF TakerRemembers, Listed
<1>1. CASE UNCHANGED <<tUp, tCmd, tQueue, tSaved, tLast, tSecret>>
  BY <1>1 DEF TakerRemembers
<1>2. CASE TakerSaveEvent
  BY <1>2, TakerSaveMemory DEF TakerSaveEvent, save_my_taker_swap_event
<1>3. CASE TakerCrash
  BY <1>3, <1>m, ListTypes DEF TakerCrash
<1>4. CASE TakerRestart
  <2>1. PICK next, E, secret : TakerLoadRow(TakerResumes, next, E, secret) /\ TakerLoaded(next, E, secret)
    BY <1>4, TakerReloads, Zenon DEF TakerReloaded
  <2>2. tSaved' = tSaved \cup E /\ tQueue' = tQueue
    BY <1>4, <2>1, TakerReloads DEF TakerLoaded
  <2>3. gate \notin E /\ \A e \in TakerResolvedEvents : e \in E => OnChain
    BY <2>1 DEF TakerLoadRow, TakerResolvedEvents
  <2> QED
    BY <1>m, <2>2, <2>3
<1>5. CASE TakerPanics
  BY <1>5 DEF TakerPanics, TakerRemembers
<1>6. CASE TakerReturned
  <2>1. PICK from, next, first, E : TakerRow(from, next, first, E) /\ TakerHandled(from, next, first, E)
    BY <1>6, Zenon DEF TakerReturned
  <2>2. /\ tSaved' = tSaved
        /\ \A e : Listed(tQueue', e) <=> e \in E
    BY <2>1 DEF TakerHandled
  <2>3. Mined("MakerPaymentSpend") => SpendSeen("MakerPayment")
    BY Payment2 DEF SpendSeen, Seen, Mined
  <2>4. /\ gate \in E => Mined("MakerPayment")
        /\ \A e \in TakerResolvedEvents : e \in E => OnChain
    BY <2>1, <2>3 DEF TakerRow, TakerResolvedEvents
  <2> QED
    BY <1>m, <2>2, <2>4
<1> QED
  BY <1>1, <1>2, <1>3, <1>4, <1>5, <1>6, TakerSteps

\* What the watcher comes to know.
LEMMA WatcherRecalls ==
    ASSUME WatcherTypeOK, WatcherNext(tStartedAt),
           wState' \in {"WaitForMakerPaymentSpend", "SpendMakerPayment"}
    PROVE  \/ wState \in {"WaitForMakerPaymentSpend", "SpendMakerPayment"}
           \/ SpendSeen("TakerPayment")
BY DEF WatcherNext, WatcherHandles, WatcherSpawn, WatcherStop, WatcherValidateTakerFee,
       WatcherValidateTakerPayment, WatcherWaitForTakerPaymentSpend,
       WatcherWaitForMakerPaymentSpend, WatcherSpendMakerPayment,
       WatcherRefundTakerPayment, change_state

\* What a step of the swap adds to the two logs, and to what is known of the secret.
LEMMA Recalls ==
    ASSUME TypeOK, MakerLogInv, TakerLogInv, [Next]_vars
    PROVE  /\ mSaved \subseteq mSaved' /\ tSaved \subseteq tSaved'
           /\ MakerRemembers("TakerPaymentValidatedAndConfirmed")'
                  => MakerRemembers("TakerPaymentValidatedAndConfirmed") \/ Mined("TakerPayment")
           /\ mCmd' = "SpendTakerPayment"
                  => \/ mCmd = "SpendTakerPayment" \/ Mined("TakerPayment")
                     \/ MakerRemembers("TakerPaymentValidatedAndConfirmed")
           /\ MakerRemembers("TakerPaymentSpendConfirmed")'
                  => MakerRemembers("TakerPaymentSpendConfirmed") \/ Mined("TakerPaymentSpend")
           /\ MakerRemembers("MakerPaymentRefunded")'
                  => MakerRemembers("MakerPaymentRefunded") \/ Seen("MakerPaymentRefund")'
           /\ TakerRemembers("MakerPaymentValidatedAndConfirmed")'
                  => TakerRemembers("MakerPaymentValidatedAndConfirmed") \/ Mined("MakerPayment")
           /\ \A e \in TakerResolvedEvents : TakerRemembers(e)'
                  => \/ TakerRemembers(e) \/ tSecret \/ SpendSeen("MakerPayment")
                     \/ RefundSeen("TakerPayment") \/ Seen("TakerPaymentRefund")'
           /\ tSecret' \/ TakerRemembers("TakerPaymentSpent")' => SecretKnown
           /\ wState' \in {"WaitForMakerPaymentSpend", "SpendMakerPayment"}
                  => \/ wState \in {"WaitForMakerPaymentSpend", "SpendMakerPayment"}
                     \/ SpendSeen("TakerPayment")
<1>m. ASSUME UNCHANGED makerVars
      PROVE  UNCHANGED <<mSaved, mCmd>> /\ \A e : MakerRemembers(e)' <=> MakerRemembers(e)
  BY <1>m DEF makerVars, MakerRemembers
<1>t. ASSUME UNCHANGED takerVars
      PROVE  UNCHANGED <<tSaved, tSecret>> /\ \A e : TakerRemembers(e)' <=> TakerRemembers(e)
  BY <1>t DEF takerVars, TakerRemembers
<1>1. CASE MakerStep
  BY <1>1, <1>t, MakerRecalls DEF MakerStep, TypeOK, MakerLogInv, SecretKnown
<1>2. CASE TakerStep
  BY <1>2, <1>m, TakerRecalls, TakerLearns DEF TakerStep, TypeOK, TakerLogInv
<1>3. CASE WatcherStep
  BY <1>3, <1>m, <1>t, WatcherRecalls DEF WatcherStep, TypeOK, SecretKnown
<1>4. CASE UNCHANGED <<makerVars, takerVars, wState>>
  BY <1>4, <1>m, <1>t DEF SecretKnown
<1> QED
  BY <1>1, <1>2, <1>3, <1>4 DEF Next, MineStep, EvictStep, TickStep, Terminating, vars

\* Whatever is new on chain was broadcast by one of the rows of the table.
LEMMA NewOnChain ==
    ASSUME TypeOK, [Next]_vars
    PROVE  /\ Seen("MakerPayment")' => Seen("MakerPayment") \/ MakerSends
           /\ Seen("TakerPayment")' => Seen("TakerPayment") \/ TakerSends
           /\ Seen("MakerPaymentSpend")' => Seen("MakerPaymentSpend") \/ TakerClaims
           /\ Seen("TakerPaymentSpend")' => Seen("TakerPaymentSpend") \/ MakerClaims
           /\ Seen("MakerPaymentRefund")' => Seen("MakerPaymentRefund") \/ MakerTakesBack
           /\ Seen("TakerPaymentRefund")' => Seen("TakerPaymentRefund") \/ TakerTakesBack
           /\ \/ sent'["MakerPayment"] = sent["MakerPayment"]
              \/ MakerSends /\ sent'["MakerPayment"] = sent["MakerPayment"] + 1
           /\ \/ sent'["TakerPayment"] = sent["TakerPayment"]
              \/ TakerSends /\ sent'["TakerPayment"] = sent["TakerPayment"] + 1
<1>a. \A t : Adds(t) => \A u \in Txs : Seen(u)' => Seen(u) \/ u = t
  BY DEF Adds, Seen
<1>b. SentStays => /\ sent'["MakerPayment"] = sent["MakerPayment"]
                   /\ sent'["TakerPayment"] = sent["TakerPayment"]
  BY DEF SentStays, Payments
<1>c. \A t : Claims(t) => SentStays /\ \A u \in Txs : Seen(u)' => Seen(u) \/ u = t
  BY <1>a DEF Claims
<1>d. \A p : Sends(p) => /\ \A u \in Txs : Seen(u)' => Seen(u) \/ u = p
                         /\ \A q \in Payments : sent'[q] = IF q = p THEN sent[q] + 1 ELSE sent[q]
  BY <1>a DEF Sends
<1>1. CASE PartyStep
  <2>1. CASE Quiet
    BY <1>b, <2>1 DEF Quiet, Seen
  <2>2. CASE MakerSends
    BY <1>d, <2>2, TxNames, Payment2 DEF MakerSends
  <2>3. CASE TakerSends
    BY <1>d, <2>3, TxNames, Payment2 DEF TakerSends
  <2>4. CASE MakerClaims
    BY <1>b, <1>c, <2>4, TxNames DEF MakerClaims
  <2>5. CASE TakerClaims
    BY <1>b, <1>c, <2>5, TxNames DEF TakerClaims
  <2>6. CASE MakerTakesBack
    BY <1>b, <1>c, <2>6, TxNames DEF MakerTakesBack
  <2>7. CASE TakerTakesBack
    BY <1>b, <1>c, <2>7, TxNames DEF TakerTakesBack
  <2> QED
    BY <1>1, <2>1, <2>2, <2>3, <2>4, <2>5, <2>6, <2>7 DEF PartyStep
<1>2. CASE MineStep \/ EvictStep \/ TickStep
  <2>1. sent' = sent
    BY <1>2 DEF MineStep, EvictStep, TickStep, Mine, Evict, Tick
  <2>2. \A u \in Txs : Seen(u)' => Seen(u)
    BY <1>2 DEF MineStep, EvictStep, TickStep, Mine, Evict, Tick, Seen
  <2> QED
    BY <2>1, <2>2, TxNames
<1> QED
  BY <1>1, <1>2, LedgerSteps

\* The maker's part is kept by every step.
LEMMA MakerChainStep ==
    ASSUME TypeOK, MakerLogInv, TakerLogInv, SwapChainInv, [Next]_vars
    PROVE  MakerChainInv'
<1>0. ChainInv /\ MakerChainInv
  BY DEF SwapChainInv
<1>1. ChainKeeps
  BY <1>0, ChainStep
<1>2. Mined("TakerPayment") => Mined("TakerPayment")'
  BY <1>1, TxNames DEF ChainKeeps
<1>3. Mined("TakerPaymentSpend") => Mined("TakerPaymentSpend")'
  BY <1>1, TxNames DEF ChainKeeps
<1>4. Seen("MakerPaymentRefund")' => Resolved("MakerPayment")'
  BY Payment2 DEF Resolved, RefundSeen
<1>5. PromptChain /\ Resolved("MakerPayment") => Resolved("MakerPayment")'
  BY <1>1, Payment2 DEF ChainKeeps
<1>6. MakerSends => "TakerFeeValidated" \in mSaved
  <2> SUFFICES ASSUME MakerSends PROVE "TakerFeeValidated" \in mSaved
    OBVIOUS
  <2>1. mQueue = <<>> /\ mCmd = "SendPayment"
    BY DEF MakerSends
  <2>2. MakerRemembers("TakerFeeValidated")
    BY <2>1 DEF MakerLogInv, MakerDataInv, MakerNeeds
  <2> QED
    BY <2>1, <2>2 DEF MakerRemembers
<1>7. Seen("MakerPayment")' => "TakerFeeValidated" \in mSaved'
  BY <1>0, <1>6, Recalls, NewOnChain DEF MakerChainInv
<1>8. /\ mCmd' = "SpendTakerPayment" => Mined("TakerPayment")'
      /\ MakerRemembers("TakerPaymentValidatedAndConfirmed")' => Mined("TakerPayment")'
      /\ MakerRemembers("TakerPaymentSpendConfirmed")' => Mined("TakerPaymentSpend")'
  BY <1>0, <1>2, <1>3, Recalls DEF MakerChainInv
<1>9. PromptChain /\ MakerRemembers("MakerPaymentRefunded")' => Resolved("MakerPayment")'
  BY <1>0, <1>4, <1>5, Recalls DEF MakerChainInv
<1> QED
  BY <1>7, <1>8, <1>9 DEF MakerChainInv

\* The secret is kept until the taker's payment is mined.
LEMMA SecretStep ==
    ASSUME TypeOK, MakerLogInv, TakerLogInv, SwapChainInv, [Next]_vars
    PROVE  SecretInv'
<1>0. ChainInv /\ MakerChainInv /\ SecretInv
  BY DEF SwapChainInv
<1>1. ChainKeeps
  BY <1>0, ChainStep
<1> DEFINE Out == \/ SecretKnown \/ SpendSeen("MakerPayment")
                  \/ wState \in {"WaitForMakerPaymentSpend", "SpendMakerPayment"}
<1>2. Mined("TakerPayment") => Mined("TakerPayment")'
  BY <1>1, TxNames DEF ChainKeeps
<1>3. PromptChain /\ Resolved("TakerPayment") => Resolved("TakerPayment")'
  BY <1>1, Payment2 DEF ChainKeeps
<1>4. /\ SpendSeen("TakerPayment") <=> Seen("TakerPaymentSpend")
      /\ SpendSeen("TakerPayment")' <=> Seen("TakerPaymentSpend")'
      /\ SpendSeen("MakerPayment") <=> Seen("MakerPaymentSpend")
      /\ SpendSeen("MakerPayment")' <=> Seen("MakerPaymentSpend")'
  BY Payment2 DEF SpendSeen
<1>5. SpendSeen("TakerPayment") => Out
  BY DEF SecretKnown
<1>6. SpendSeen("MakerPayment")' => Out
  BY <1>4, NewOnChain DEF TakerClaims
<1>7. SpendSeen("TakerPayment")' => Out \/ mCmd = "SpendTakerPayment"
  BY <1>4, <1>5, NewOnChain DEF MakerClaims
<1>8. Out' => Out \/ SpendSeen("TakerPayment")'
  BY <1>5, <1>6, Recalls DEF SecretKnown
<1>9. Out' => Mined("TakerPayment")'
  BY <1>0, <1>2, <1>7, <1>8 DEF SecretInv, MakerChainInv
<1>10. Out' /\ PromptChain => Resolved("TakerPayment")'
  BY <1>0, <1>3, <1>8 DEF SecretInv, Resolved
<1> QED
  BY <1>9, <1>10 DEF SecretInv

\* The taker's part is kept by every step.
LEMMA TakerChainStep ==
    ASSUME TypeOK, MakerLogInv, TakerLogInv, SwapChainInv, [Next]_vars
    PROVE  TakerChainInv'
<1> DEFINE gate == "MakerPaymentValidatedAndConfirmed"
<1>0. ChainInv /\ TakerChainInv /\ SecretInv
  BY DEF SwapChainInv
<1>1. ChainKeeps
  BY <1>0, ChainStep
<1>2. Mined("MakerPayment") => Mined("MakerPayment")'
  BY <1>1, TxNames DEF ChainKeeps
<1>3. PromptChain /\ Resolved("TakerPayment") => Resolved("TakerPayment")'
  BY <1>1, Payment2 DEF ChainKeeps
<1>4. TakerSends => gate \in tSaved
  <2> SUFFICES ASSUME TakerSends PROVE gate \in tSaved
    OBVIOUS
  <2>1. tQueue = <<>> /\ tCmd = "SendTakerPayment"
    BY DEF TakerSends
  <2>2. TakerRemembers(gate)
    BY <2>1 DEF TakerLogInv, TakerDataInv, TakerHas, TakerNeeds
  <2> QED
    BY <2>1, <2>2 DEF TakerRemembers
<1>5. TakerSends => Mined("MakerPayment")
  BY <1>0, <1>4 DEF TakerChainInv, TakerRemembers
<1>6. TakerRemembers(gate)' => Mined("MakerPayment")'
  BY <1>0, <1>2, Recalls DEF TakerChainInv
<1>7. Seen("TakerPayment")' => gate \in tSaved'
  BY <1>0, <1>4, Recalls, NewOnChain DEF TakerChainInv
<1>8. sent'["TakerPayment"] > 0 => Mined("MakerPayment")'
  BY <1>0, <1>2, <1>5, NewOnChain DEF TakerChainInv
<1>9. ASSUME PromptChain, NEW e \in TakerResolvedEvents, TakerRemembers(e)'
      PROVE  Resolved("TakerPayment")'
  <2>1. Seen("TakerPaymentRefund")' => Resolved("TakerPayment")'
    BY Payment2 DEF Resolved, RefundSeen
  <2>2. tSecret \/ SpendSeen("MakerPayment") => Resolved("TakerPayment")
    BY <1>0, <1>9 DEF SecretInv, SecretKnown
  <2> QED
    BY <1>0, <1>3, <1>9, <2>1, <2>2, Recalls DEF TakerChainInv, Resolved
<1> QED
  BY <1>6, <1>7, <1>8, <1>9 DEF TakerChainInv

\* A payment that was sent stays on chain, and is not sent again.
LEMMA PaidStep ==
    ASSUME TypeOK, ChainInv, PaidInv, [Next]_vars
    PROVE  PaidInv'
<1> SUFFICES ASSUME PromptChain PROVE \A p \in Payments : sent'[p] <= 1 /\ (sent'[p] > 0 => Seen(p)')
  BY DEF PaidInv
<1>0. sent["MakerPayment"] \in Nat /\ sent["TakerPayment"] \in Nat
  BY Payment2 DEF TypeOK
<1>1. ChainKeeps
  BY ChainStep
<1>2. \A p \in Payments : Sends(p) => ~Seen(p) /\ Seen(p)'
  BY ChainNames DEF Sends, Adds, Seen
<1>3. \A p \in Payments : Seen(p) => Seen(p)'
  BY <1>1 DEF ChainKeeps
<1>4. sent'["MakerPayment"] <= 1 /\ (sent'["MakerPayment"] > 0 => Seen("MakerPayment")')
  BY <1>0, <1>2, <1>3, NewOnChain, Payment2 DEF PaidInv, MakerSends
<1>5. sent'["TakerPayment"] <= 1 /\ (sent'["TakerPayment"] > 0 => Seen("TakerPayment")')
  BY <1>0, <1>2, <1>3, NewOnChain, Payment2 DEF PaidInv, TakerSends
<1> QED
  BY <1>4, <1>5 DEF Payments

\* The logs and the chains agree at the start and after every step of the swap.
LEMMA SwapChainAlways == Spec => []SwapChainInv
<1>1. Init => SwapChainInv
  <2> SUFFICES ASSUME Init PROVE SwapChainInv
    OBVIOUS
  <2>1. /\ tx = [t \in Txs |-> "none"] /\ sent = [t \in Payments \cup {"TakerFee"} |-> 0]
        /\ mCmd = "Start" /\ mQueue = <<>> /\ mSaved = {}
        /\ tQueue = <<>> /\ tSaved = {} /\ tSecret = FALSE /\ wState = "idle"
    BY DEF Init, LedgerInit, MakerInit, TakerInit, WatcherInit
  <2>2. \A t \in Txs : ~Seen(t) /\ ~Mined(t)
    BY <2>1 DEF Seen, Mined
  <2>3. \A e : ~MakerRemembers(e) /\ ~TakerRemembers(e)
    BY <2>1 DEF MakerRemembers, TakerRemembers
  <2>4. \A p \in Payments : sent[p] = 0
    BY <2>1
  <2>5. ~SpendSeen("MakerPayment") /\ ~SpendSeen("TakerPayment")
    BY <2>2, Payment2, TxNames DEF SpendSeen
  <2>6. ChainInv
    BY <2>2, ChainNames DEF ChainInv
  <2>7. MakerChainInv /\ TakerChainInv
    BY <2>1, <2>2, <2>3, <2>4, TxNames, Payment2 DEF MakerChainInv, TakerChainInv
  <2>8. SecretInv /\ PaidInv
    BY <2>1, <2>3, <2>4, <2>5 DEF SecretInv, SecretKnown, PaidInv
  <2> QED
    BY <2>6, <2>7, <2>8 DEF SwapChainInv
<1>2. TypeOK /\ MakerLogInv /\ TakerLogInv /\ SwapChainInv /\ [Next]_vars => SwapChainInv'
  BY ChainStep, MakerChainStep, TakerChainStep, SecretStep, PaidStep DEF SwapChainInv
<1> QED
  BY <1>1, <1>2, TypeCorrect, MakerLogAlways, TakerLogAlways, PTL DEF Spec

-----------------------------------------------------------------------------
(* What follows.                                                           *)

\* send_taker_payment runs only after the maker's payment confirmed: for all parameters,
\* whatever crashes, and whatever the nodes drop or fail to do.
THEOREM TakerPaysConfirmed == Spec => []TakerPaysAfterConfirmation
<1>1. SwapChainInv => TakerPaysAfterConfirmation
  BY DEF SwapChainInv, TakerChainInv, TakerPaysAfterConfirmation
<1> QED
  BY <1>1, SwapChainAlways, PTL

\* spend_taker_payment, and recover_funds after it, reveal the secret only after the taker's
\* payment confirmed: also when the mempool drops transactions and deadlines are missed.
THEOREM SecretConfirmed == Spec => []SecretAfterConfirmation
<1>1. SwapChainInv => SecretAfterConfirmation
  BY DEF SwapChainInv, SecretInv, SecretKnown, SecretAfterConfirmation
<1> QED
  BY <1>1, SwapChainAlways, PTL

\* A node that dies between sending its payment and saving that it did finds it again: as long
\* as nothing broadcast is dropped, neither side pays twice, however often both crash.
THEOREM PaidOnce == PromptChain /\ Spec => []PaymentsSentOnce
<1> SUFFICES ASSUME PromptChain PROVE Spec => []PaymentsSentOnce
  OBVIOUS
<1>1. SwapChainInv => PaymentsSentOnce
  BY DEF SwapChainInv, PaidInv, PaymentsSentOnce
<1> QED
  BY <1>1, SwapChainAlways, PTL

\* The maker's running command is what its log resumes from, at every step.
LEMMA RestoreAlways == Spec => []RestoreInv
<1>1. Init => RestoreInv
  BY DEF Init, MakerInit, RestoreInv
<1> QED
  BY <1>1, TypeCorrect, RestoreStep, PTL DEF Spec

\* However the maker's swap ended, if its payment is still locked and it was not paid, its log
\* is one that recover_funds accepts and that is_recoverable shows to the user: however
\* often both nodes crashed and whichever calls failed, as long as nothing broadcast is dropped.
THEOREM MakerRecoverable == PromptChain /\ Spec => []MakerFundsRecoverable
<1> SUFFICES ASSUME PromptChain PROVE Spec => []MakerFundsRecoverable
  OBVIOUS
<1>1. TypeOK /\ MakerLogInv /\ RestoreInv /\ SwapChainInv => MakerFundsRecoverable
  <2> SUFFICES ASSUME TypeOK, MakerLogInv, RestoreInv, SwapChainInv,
                      mUp, mQueue = <<>>, mCmd = "None", "Started" \in mSaved, Mined("MakerPayment"),
                      ~SpendSeen("MakerPayment"), ~RefundSeen("MakerPayment"),
                      ~SpendSeen("TakerPayment")
               PROVE  ~MakerNotRecoverable /\ MakerIsRecoverable
    BY DEF MakerFundsRecoverable
  <2>1. \A e : e \in mSaved => MakerRemembers(e)
    BY DEF MakerRemembers
  <2>2. mLast = "Finished" /\ "Finished" \in mSaved
    <3>1. MakerGetCommand(mLast) = "None" /\ mLast \in MakerSwapEvent
      BY DEF RestoreInv, MakerLogInv, MakerLastInv, TypeOK
    <3>2. mLast = "Finished"
      BY <3>1 DEF MakerGetCommand, MakerSwapEvent
    <3> QED
      BY <3>2 DEF MakerLogInv, MakerLastInv
  <2>3. "TakerFeeValidated" \in mSaved
    BY DEF SwapChainInv, MakerChainInv, Seen, Mined
  <2>4. \A f \in MakerFailures : f \notin mSaved
    BY <2>1, <2>3 DEF MakerLogInv, MakerGateInv
  <2>5. "MakerPaymentRefunded" \notin mSaved
    BY <2>1 DEF SwapChainInv, MakerChainInv, Resolved
  <2>6. "TakerPaymentSpendConfirmed" \notin mSaved
    BY <2>1, Payment2 DEF SwapChainInv, MakerChainInv, SpendSeen, Seen, Mined
  <2> QED
    BY <2>2, <2>4, <2>5, <2>6 DEF MakerNotRecoverable, MakerIsRecoverable, MakerFailures
<1> QED
  BY <1>1, TypeCorrect, MakerLogAlways, RestoreAlways, SwapChainAlways, PTL

\* The same for the taker, whose log is also written by taker_restart.rs.
THEOREM TakerRecoverable == PromptChain /\ Spec => []TakerFundsRecoverable
<1> SUFFICES ASSUME PromptChain PROVE Spec => []TakerFundsRecoverable
  OBVIOUS
<1>1. TypeOK /\ TakerLogInv /\ SwapChainInv => TakerFundsRecoverable
  <2> SUFFICES ASSUME TypeOK, TakerLogInv, SwapChainInv,
                      tUp, tQueue = <<>>, tCmd = "None", "Started" \in tSaved, Mined("TakerPayment"),
                      ~SpendSeen("TakerPayment"), ~RefundSeen("TakerPayment")
               PROVE  ~TakerNotRecoverable /\ TakerIsRecoverable
    BY DEF TakerFundsRecoverable
  <2>1. \A e : e \in tSaved => TakerRemembers(e)
    BY DEF TakerRemembers
  <2>2. tLast = "Finished" /\ "Finished" \in tSaved
    BY DEF TakerLogInv, TakerLastInv
  <2>3. "MakerPaymentValidatedAndConfirmed" \in tSaved
    BY DEF SwapChainInv, TakerChainInv, Seen, Mined
  <2>4. \A f \in TakerFailures : f \notin tSaved
    BY <2>1, <2>3 DEF TakerLogInv, TakerGateInv
  <2>5. "MakerPaymentReceived" \in tSaved
    <3>1. TakerNeeds("SendTakerPayment") \subseteq tSaved
      BY <2>3 DEF TakerLogInv, TakerDataInv, TakerHas, TakerGetCommand
    <3> QED
      BY <3>1 DEF TakerNeeds
  <2>6. \A e \in TakerResolvedEvents : e \notin tSaved
    BY <2>1 DEF SwapChainInv, TakerChainInv, Resolved
  <2>7. ~TakerNotRecoverable
    BY <2>2, <2>5, <2>6 DEF TakerNotRecoverable, TakerResolvedEvents
  <2>8. TakerIsRecoverable
    BY <2>2, <2>4, <2>6 DEF TakerIsRecoverable, TakerResolvedEvents, NothingLocked, TakerFailures
  <2> QED
    BY <2>7, <2>8
<1> QED
  BY <1>1, TypeCorrect, TakerLogAlways, SwapChainAlways, PTL

-----------------------------------------------------------------------------
(* The refinement of SwapContract.                                         *)

\* The deadlines that keep the taker from paying against a payment the maker takes back.
DeadlineInv ==
    /\ tx["TakerPayment"] = "mempool"
           => tCmd # "Start" /\ now <= wait_for_maker_payment_conf_until(tStartedAt)
    /\ Seen("MakerPaymentRefund") => now > maker_payment_lock(mStartedAt)
    /\ Seen("MakerPayment") => StartsAgree

\* Start times do not change once a party has started, and the clock moves only when there is
\* nothing to mine.
LEMMA StartsStay ==
    ASSUME IInv, [Next]_vars
    PROVE  /\ mCmd # "Start" => mCmd' # "Start" /\ mStartedAt' = mStartedAt
           /\ tCmd # "Start" => tCmd' # "Start" /\ tStartedAt' = tStartedAt
           /\ StartsAgree => StartsAgree'
           /\ now' = now \/ (now' = now + 1 /\ tx' = tx /\ \A t \in Txs : tx[t] # "mempool")
<1>0. TypeOK /\ InvTakerStarted /\ PromptChain
  BY DEF IInv, SafeParameters
<1>1. mCmd # "Start" => mCmd' # "Start" /\ mStartedAt' = mStartedAt
  <2>1. CASE MakerStep
    BY <1>0, <2>1, MakerStays DEF MakerStep, TypeOK
  <2>2. CASE ~MakerStep
    BY <2>2 DEF Next, TakerStep, WatcherStep, MineStep, EvictStep, TickStep, Terminating, vars,
                makerVars
  <2> QED
    BY <2>1, <2>2
<1>2. tCmd # "Start" => tCmd' # "Start" /\ tStartedAt' = tStartedAt
  <2>1. CASE TakerStep
    BY <1>0, <2>1, TakerStays, TakerLeavesStart DEF TakerStep, TypeOK
  <2>2. CASE ~TakerStep
    BY <2>2 DEF Next, MakerStep, WatcherStep, MineStep, EvictStep, TickStep, Terminating, vars,
                takerVars
  <2> QED
    BY <2>1, <2>2
<1>3. StartsAgree => StartsAgree'
  BY <1>1, <1>2 DEF StartsAgree
<1>4. now' = now \/ (now' = now + 1 /\ tx' = tx /\ \A t \in Txs : tx[t] # "mempool")
  BY <1>0, LedgerSteps DEF PartyStep, MineStep, EvictStep, TickStep, Mine, Evict, Tick
<1> QED
  BY <1>1, <1>2, <1>3, <1>4

\* The deadlines are kept by every step.
LEMMA DeadlineStep ==
    ASSUME IInv, SwapChainInv, DeadlineInv, [Next]_vars
    PROVE  DeadlineInv'
<1> USE TxNames
<1>0. TypeOK /\ LedgerTypeOK /\ ChainInv /\ InvNegotiated
  BY DEF IInv, TypeOK, SwapChainInv
<1>1. /\ now \in Nat /\ mStartedAt \in Nat /\ maker_payment_lock(mStartedAt) \in Nat
  BY <1>0, TimesAssumption DEF TypeOK, maker_payment_lock
<1>2. Seen("MakerPayment")' => StartsAgree
  <2>1. MakerSends => StartsAgree
    BY <1>0 DEF MakerSends, InvNegotiated, PostCommands, MakerSwapCommand
  <2> QED
    BY <1>0, <2>1, NewOnChain DEF DeadlineInv
<1>3. tx'["TakerPayment"] = "mempool"
          => tCmd' # "Start" /\ now' <= wait_for_maker_payment_conf_until(tStartedAt)'
  <2> SUFFICES ASSUME tx'["TakerPayment"] = "mempool"
               PROVE  tCmd' # "Start" /\ now' <= wait_for_maker_payment_conf_until(tStartedAt)'
    OBVIOUS
  <2>1. CASE tx["TakerPayment"] = "mempool"
    BY <2>1, StartsStay DEF DeadlineInv, wait_for_maker_payment_conf_until
  <2>2. CASE tx["TakerPayment"] # "mempool"
    <3>1. tx["TakerPayment"] # "mined"
      BY <1>0, ChainStep DEF ChainKeeps, Mined
    <3>2. tx["TakerPayment"] \in TxStates
      BY <1>0
    <3>3. TakerSends
      BY <1>0, <2>2, <3>1, <3>2, NewOnChain DEF Seen, TxStates
    <3>4. now' = now
      BY <2>2, StartsStay
    <3> QED
      BY <3>3, <3>4, StartsStay DEF TakerSends, wait_for_maker_payment_conf_until
  <2> QED
    BY <2>1, <2>2
<1>4. Seen("MakerPaymentRefund")' => now' > maker_payment_lock(mStartedAt)'
  <2> SUFFICES ASSUME Seen("MakerPaymentRefund")' PROVE now' > maker_payment_lock(mStartedAt)'
    OBVIOUS
  <2>1. Seen("MakerPayment")'
    BY <1>0, ChainStep DEF ChainInv, Claim, ParentOf
  <2>2. mStartedAt' = mStartedAt
    BY <1>2, <2>1, StartsStay DEF StartsAgree
  <2>3. now > maker_payment_lock(mStartedAt)
    BY <1>0, NewOnChain DEF DeadlineInv, MakerTakesBack
  <2>4. now' \in {now, now + 1}
    BY StartsStay
  <2> QED
    BY <1>1, <2>2, <2>3, <2>4 DEF maker_payment_lock
<1> QED
  BY <1>2, <1>3, <1>4, StartsStay DEF DeadlineInv

\* Everything the refinement rests on.
RefinementInv == IInv /\ MakerLogInv /\ TakerLogInv /\ SwapChainInv /\ DeadlineInv

\* It holds at the start and after every step of the swap.
LEMMA RefinementAlways == SafeParameters /\ Spec => []RefinementInv
<1>1. SafeParameters /\ Spec => []IInv
  BY SwapInvariant
<1>2. Init => DeadlineInv
  BY TxNames DEF Init, LedgerInit, DeadlineInv, Seen
<1>3. IInv /\ SwapChainInv /\ DeadlineInv /\ [Next]_vars => DeadlineInv'
  BY DeadlineStep
<1>4. SafeParameters /\ Spec => []DeadlineInv
  BY <1>1, <1>2, <1>3, SwapChainAlways, PTL DEF Spec
<1> QED
  BY <1>1, <1>4, MakerLogAlways, TakerLogAlways, SwapChainAlways, PTL DEF RefinementInv

\* A maker's payment that the maker may take back is one the taker no longer pays against.
LEMMA NoLatePayment ==
    ASSUME RefinementInv
    PROVE  ~(tx["TakerPayment"] = "mempool" /\ Seen("MakerPaymentRefund"))
<1> SUFFICES ASSUME tx["TakerPayment"] = "mempool", Seen("MakerPaymentRefund") PROVE FALSE
  OBVIOUS
<1>1. Seen("MakerPayment")
  BY DEF RefinementInv, SwapChainInv, ChainInv, Claim, ParentOf
<1>2. /\ now <= tStartedAt + (LockTime * 2) \div 5 /\ now > mStartedAt + 2 * LockTime
      /\ StartsAgree
  BY <1>1 DEF RefinementInv, DeadlineInv, wait_for_maker_payment_conf_until, maker_payment_lock
<1>3. /\ LockTime \in Nat /\ LockTime > 0 /\ MaxStartedAtDiff \in Nat
      /\ now \in Nat /\ mStartedAt \in Nat /\ tStartedAt \in Nat
  BY TimesAssumption DEF RefinementInv, IInv, TypeOK
<1>4. tStartedAt <= mStartedAt + MaxStartedAtDiff
  BY <1>2, <1>3 DEF StartsAgree, AbsDiff
<1>5. MaxStartedAtDiff <= LockTime
  <2>1. MaxStartedAtDiff + (LockTime * 4) \div 5 <= LockTime
    BY DEF RefinementInv, IInv, SafeParameters
  <2>2. (LockTime * 4) \div 5 \in Nat
    BY <1>3
  <2> QED
    BY <1>3, <2>1, <2>2
<1>6. (LockTime * 2) \div 5 <= LockTime /\ (LockTime * 2) \div 5 \in Int
  BY <1>3
<1> QED
  BY <1>2, <1>3, <1>4, <1>5, <1>6

\* Broadcasting changes the contract only when it reveals the secret.
LEMMA RefinesBroadcast ==
    ASSUME RefinementInv, PartyStep
    PROVE  [Contract!Next]_<<mpState, tpState>>
<1> USE TxNames, Views, ViewsNext
<1> DEFINE spend == "TakerPaymentSpend"
<1>0. TypeOK /\ ChainInv /\ MakerChainInv /\ InvSecret
  BY DEF RefinementInv, IInv, SwapChainInv
<1>1. \A t \in Txs : Mined(t)' <=> Mined(t)
  BY <1>0 DEF PartyStep, Quiet, MakerSends, TakerSends, MakerClaims, TakerClaims, MakerTakesBack,
     TakerTakesBack, Sends, Claims, Adds
<1>2. CASE ~Seen(spend)' \/ Seen(spend)
  <2>1. Seen(spend)' <=> Seen(spend)
    BY <1>2 DEF PartyStep, Quiet, MakerSends, TakerSends, MakerClaims, TakerClaims, MakerTakesBack,
       TakerTakesBack, Sends, Claims, Adds
  <2>2. UNCHANGED <<mpState, tpState>>
    BY <1>1, <2>1 DEF mpState, tpState
  <2> QED
    BY <2>2
<1>3. CASE Seen(spend)' /\ ~Seen(spend)
  <2>1. MakerClaims
    BY <1>3 DEF PartyStep, Quiet, MakerSends, TakerSends, TakerClaims, MakerTakesBack,
       TakerTakesBack, Sends, Claims, Adds
  <2>2. ~SpendSeen("MakerPayment")
    BY <1>0, <1>3 DEF InvSecret
  <2>3. Mined("TakerPayment") /\ ~Mined("TakerPaymentRefund")
    BY <1>0, <2>1, <2>2 DEF MakerClaims, MakerChainInv, Claims, ParentOf
  <2>4. tpState = "locked" /\ tpState' = "claimed" /\ mpState' = mpState
    BY <1>1, <1>3, <2>3 DEF tpState, mpState
  <2> QED
    BY <2>4 DEF Contract!Next, Contract!MakerClaims
<1> QED
  BY <1>2, <1>3

\* A block that takes one of the six transactions is a step of the contract, or none.
LEMMA RefinesBlock ==
    ASSUME RefinementInv, MineStep
    PROVE  [Contract!Next]_<<mpState, tpState>>
<1> USE TxNames, Views, ViewsNext
<1>0. /\ TypeOK /\ ChainInv /\ TakerChainInv /\ SecretInv /\ InvSecret /\ InvTiming
      /\ tx \in [Txs -> TxStates]
  BY DEF RefinementInv, IInv, SwapChainInv, TypeOK
<1>1. PICK t \in Txs : Mine(t)
  BY DEF MineStep
<1>2. /\ tx[t] = "mempool" /\ (t \notin Payments => Mined(ParentOf(t)))
      /\ \A u \in Txs : tx'[u] = IF u = t THEN "mined"
                                 ELSE IF u \in Conflicts(t) THEN "none" ELSE tx[u]
  BY <1>1 DEF Mine
<1>c. /\ Mined("MakerPaymentSpend") => Mined("MakerPayment") /\ ~Seen("MakerPaymentRefund")
      /\ Mined("MakerPaymentRefund") => Mined("MakerPayment") /\ ~Seen("MakerPaymentSpend")
      /\ Mined("TakerPaymentSpend") => Mined("TakerPayment") /\ ~Seen("TakerPaymentRefund")
      /\ Mined("TakerPaymentRefund") => Mined("TakerPayment") /\ ~Seen("TakerPaymentSpend")
  BY <1>0 DEF ChainInv, Claim, ParentOf, Conflicts
<1>s. SpendSeen("TakerPayment") => Mined("TakerPayment")
  BY <1>0 DEF SecretInv, SecretKnown
<1>3. CASE t = "MakerPayment"
  <2>1. tx' = [tx EXCEPT !["MakerPayment"] = "mined"]
    BY <1>0, <1>1, <1>3 DEF Mine, Conflicts
  <2>2. mpState = "none" /\ mpState' = "locked" /\ tpState' = tpState
    BY <1>0, <1>2, <1>3, <1>c, <2>1 DEF mpState, tpState
  <2> QED
    BY <2>2 DEF Contract!Next, Contract!MakerPays
<1>4. CASE t = "TakerPayment"
  <2>1. tx' = [tx EXCEPT !["TakerPayment"] = "mined"]
    BY <1>0, <1>1, <1>4 DEF Mine, Conflicts
  <2>2. Mined("MakerPayment")
    BY <1>0, <1>2, <1>4 DEF TakerChainInv, TakerRemembers
  <2>3. ~SpendSeen("TakerPayment") /\ ~Mined("TakerPaymentRefund")
    BY <1>2, <1>4, <1>c, <1>s
  <2>4. ~Mined("MakerPaymentSpend")
    BY <1>0, <2>3 DEF InvSecret
  <2>5. ~Mined("MakerPaymentRefund")
    BY <1>2, <1>4, NoLatePayment
  <2>6. mpState = "locked" /\ tpState = "none" /\ tpState' = "locked" /\ mpState' = mpState
    BY <1>0, <1>2, <1>4, <2>1, <2>2, <2>3, <2>4, <2>5 DEF mpState, tpState
  <2> QED
    BY <2>6 DEF Contract!Next, Contract!TakerPays
<1>5. CASE t = "MakerPaymentSpend"
  <2>1. /\ tx'["MakerPaymentSpend"] = "mined" /\ tx'["MakerPaymentRefund"] = "none"
        /\ \A u \in {"MakerPayment", "TakerPayment", "TakerPaymentSpend", "TakerPaymentRefund"} :
               tx'[u] = tx[u]
    BY <1>2, <1>5 DEF Conflicts
  <2>2. Mined("MakerPayment")
    BY <1>2, <1>5 DEF ParentOf, Payments
  <2>3. mpState = "locked" /\ mpState' = "claimed"
    BY <1>2, <1>5, <1>c, <2>1, <2>2 DEF mpState
  <2>4. tpState = "claimed" /\ tpState' = tpState
    BY <1>0, <1>2, <1>5, <2>1 DEF tpState, InvSecret
  <2> QED
    BY <2>3, <2>4 DEF Contract!Next, Contract!TakerClaims
<1>6. CASE t = "MakerPaymentRefund"
  <2>1. /\ tx'["MakerPaymentRefund"] = "mined" /\ tx'["MakerPaymentSpend"] = "none"
        /\ \A u \in {"MakerPayment", "TakerPayment", "TakerPaymentSpend", "TakerPaymentRefund"} :
               tx'[u] = tx[u]
    BY <1>2, <1>6 DEF Conflicts
  <2>2. Mined("MakerPayment")
    BY <1>2, <1>6 DEF ParentOf, Payments
  <2>3. mpState = "locked" /\ mpState' = "refunded" /\ tpState' = tpState
    BY <1>2, <1>6, <1>c, <2>1, <2>2 DEF mpState, tpState
  <2> QED
    BY <2>3 DEF Contract!Next, Contract!MakerRefunds
<1>7. CASE t = "TakerPaymentSpend"
  <2>1. /\ tx'["TakerPaymentSpend"] = "mined"
        /\ \A u \in {"MakerPayment", "MakerPaymentSpend", "MakerPaymentRefund"} : tx'[u] = tx[u]
    BY <1>2, <1>7 DEF Conflicts
  <2>2. UNCHANGED <<mpState, tpState>>
    BY <1>2, <1>7, <2>1 DEF mpState, tpState
  <2> QED
    BY <2>2
<1>8. CASE t = "TakerPaymentRefund"
  <2>1. /\ tx'["TakerPaymentRefund"] = "mined" /\ tx'["TakerPaymentSpend"] = "none"
        /\ \A u \in {"MakerPayment", "MakerPaymentSpend", "MakerPaymentRefund", "TakerPayment"} :
               tx'[u] = tx[u]
    BY <1>2, <1>8 DEF Conflicts
  <2>2. tx["TakerPaymentSpend"] = "none"
    <3>1. tx["TakerPaymentSpend"] \in {"none", "mempool", "mined"}
      BY <1>0 DEF TxStates
    <3>2. now \in Nat /\ taker_payment_lock(tStartedAt) \in Nat
      BY <1>0, TimesAssumption DEF TypeOK, taker_payment_lock
    <3> QED
      BY <1>0, <1>2, <1>8, <3>1, <3>2 DEF InvTiming
  <2>3. Mined("TakerPayment")
    BY <1>2, <1>8 DEF ParentOf, Payments
  <2>4. tpState = "locked" /\ tpState' = "refunded" /\ mpState' = mpState
    BY <1>2, <1>8, <2>1, <2>2, <2>3 DEF mpState, tpState
  <2> QED
    BY <2>4 DEF Contract!Next, Contract!TakerRefunds
<1> QED
  BY <1>3, <1>4, <1>5, <1>6, <1>7, <1>8

\* The maker, the taker and the watcher together implement SwapContract: under the conditions
\* of MakerSafe, each of their steps is a step of the contract or leaves it alone.
THEOREM ContractImplemented == SafeParameters /\ Spec => ImplementsContract
<1>1. Init => Contract!Init
  BY TxNames, Views DEF Init, LedgerInit, Contract!Init, mpState, tpState
<1>2. RefinementInv /\ [Next]_vars => [Contract!Next]_<<mpState, tpState>>
  <2> SUFFICES ASSUME RefinementInv, [Next]_vars PROVE [Contract!Next]_<<mpState, tpState>>
    OBVIOUS
  <2>1. TypeOK /\ PromptChain
    BY DEF RefinementInv, IInv, SafeParameters
  <2>2. CASE PartyStep
    BY <2>2, RefinesBroadcast
  <2>3. CASE MineStep
    BY <2>3, RefinesBlock
  <2>4. CASE TickStep
    <3>1. tx' = tx
      BY <2>4 DEF TickStep, Tick
    <3>2. UNCHANGED <<mpState, tpState>>
      BY <3>1 DEF mpState, tpState, Mined, SpendSeen, Seen
    <3> QED
      BY <3>2
  <2>5. ~EvictStep
    BY <2>1 DEF EvictStep, Evict
  <2> QED
    BY <2>1, <2>2, <2>3, <2>4, <2>5, LedgerSteps
<1> QED
  BY <1>1, <1>2, RefinementAlways, PTL DEF Spec, ImplementsContract, Contract!Spec

-----------------------------------------------------------------------------
(* TakerNeverLoses.  A taker, or a watcher, that does not let the clock    *)
(* pass it by answers the spend of the taker's payment before the maker    *)
(* can take its own payment back.                                          *)

\* Once the taker has paid, the start times are settled and the deadlines are in order.
LEMMA Deadlines ==
    ASSUME RefinementInv, Seen("TakerPayment")
    PROVE  /\ Mined("MakerPayment") /\ StartsAgree
           /\ now \in Nat /\ mStartedAt \in Nat /\ tStartedAt \in Nat
           /\ taker_payment_spend_deadline(mStartedAt) \in Nat
           /\ taker_payment_spend_deadline(tStartedAt) \in Nat
           /\ taker_payment_lock(tStartedAt) \in Nat /\ maker_payment_lock(mStartedAt) \in Nat
           /\ taker_payment_spend_deadline(mStartedAt) <= taker_payment_lock(tStartedAt)
           /\ taker_payment_spend_deadline(tStartedAt) <= taker_payment_lock(tStartedAt)
           /\ refund_start_time(tStartedAt) \in Nat
           /\ taker_payment_lock(tStartedAt) <= refund_start_time(tStartedAt)
           /\ taker_payment_spend_deadline(mStartedAt) <= maker_payment_lock(mStartedAt)
           /\ taker_payment_spend_deadline(tStartedAt) <= maker_payment_lock(mStartedAt)
           /\ LockTime > 1 => taker_payment_lock(tStartedAt) + 1 <= maker_payment_lock(mStartedAt)
           /\ mStartedAt <= tStartedAt
                  => taker_payment_spend_deadline(mStartedAt) <= taker_payment_spend_deadline(tStartedAt)
<1>1. Mined("MakerPayment")
  BY DEF RefinementInv, SwapChainInv, TakerChainInv, TakerRemembers
<1>2. StartsAgree
  BY <1>1 DEF RefinementInv, DeadlineInv, Seen, Mined
<1>3. /\ LockTime \in Nat /\ LockTime > 0 /\ MaxStartedAtDiff \in Nat
      /\ now \in Nat /\ mStartedAt \in Nat /\ tStartedAt \in Nat
  BY TimesAssumption DEF RefinementInv, IInv, TypeOK
<1>4. mStartedAt <= tStartedAt + MaxStartedAtDiff /\ tStartedAt <= mStartedAt + MaxStartedAtDiff
  BY <1>2, <1>3 DEF StartsAgree, AbsDiff
<1>5. MaxStartedAtDiff + (LockTime * 4) \div 5 <= LockTime
  BY DEF RefinementInv, IInv, SafeParameters
<1>6. /\ (LockTime * 4) \div 5 \in Nat /\ (LockTime * 4) \div 5 <= LockTime
      /\ LockTime > 1 => (LockTime * 4) \div 5 >= 1
      /\ (3 * LockTime) \div 2 >= LockTime /\ (3 * LockTime) \div 2 \in Nat
  BY <1>3
<1> QED
  BY <1>1, <1>2, <1>3, <1>4, <1>5, <1>6 DEF taker_payment_spend_deadline, taker_payment_lock,
     maker_payment_lock, refund_start_time

\* The spend of the taker's payment is broadcast by spend_taker_payment, before its deadline.
LEMMA SpendIsMakers ==
    ASSUME RefinementInv, [Next]_vars, Seen("TakerPaymentSpend")', ~Seen("TakerPaymentSpend")
    PROVE  /\ now' = now /\ now <= taker_payment_spend_deadline(mStartedAt)
           /\ mCmd = "SpendTakerPayment" /\ MakerRemembers("TakerPaymentReceived")
           /\ ~SpendSeen("MakerPayment") /\ UNCHANGED <<takerVars, wState>>
<1> USE TxNames, Views, ViewsNext
<1>0. TypeOK /\ InvSecret /\ MakerLogInv
  BY DEF RefinementInv, IInv
<1>1. ~SpendSeen("MakerPayment")
  BY <1>0 DEF InvSecret
<1>2. CASE MakerStep
  <2>1. /\ now' = now /\ mCmd = "SpendTakerPayment"
        /\ now <= taker_payment_spend_deadline(mStartedAt)
    BY <1>0, <1>1, <1>2, MakerLedger DEF MakerStep, TypeOK, OnlyAdds
  <2>2. MakerRemembers("TakerPaymentReceived")
    BY <1>0, <2>1 DEF MakerLogInv, MakerDataInv, MakerNeeds
  <2> QED
    BY <1>1, <1>2, <2>1, <2>2 DEF MakerStep
<1>3. CASE TakerStep
  BY <1>0, <1>3, TakerLedger DEF TakerStep, TypeOK, OnlyAdds
<1>4. CASE WatcherStep
  BY <1>0, <1>4, WatcherBroadcasts DEF WatcherStep, TypeOK, Quiet, TakerClaims, TakerTakesBack,
     Claims, Adds
<1>5. CASE MineStep \/ EvictStep \/ TickStep
  BY <1>5 DEF MineStep, EvictStep, TickStep, Mine, Evict, Tick
<1>6. CASE Terminating \/ UNCHANGED vars
  BY <1>6 DEF Terminating, vars, ledgerVars
<1> QED
  BY <1>2, <1>3, <1>4, <1>5, <1>6 DEF Next

\* A block takes the spend of the maker's payment away only for the maker's refund.
LEMMA SpendStays ==
    ASSUME RefinementInv, [Next]_vars, SpendSeen("MakerPayment"), ~RefundSeen("MakerPayment")
    PROVE  SpendSeen("MakerPayment")'
<1> USE TxNames, Views, ViewsNext
<1>0. TypeOK /\ PromptChain /\ ~Seen("MakerPaymentRefund")
  BY Payment2 DEF RefinementInv, IInv, SafeParameters, RefundSeen
<1>1. CASE PartyStep
  <2>1. \A t : Adds(t) => tx'["MakerPaymentSpend"] # "none"
    BY DEF Adds
  <2> QED
    BY <1>1, <2>1 DEF PartyStep, Quiet, MakerSends, TakerSends, MakerClaims, TakerClaims,
       MakerTakesBack, TakerTakesBack, Sends, Claims
<1>2. CASE MineStep
  <2>1. PICK t \in Txs : Mine(t)
    BY <1>2 DEF MineStep
  <2>2. t # "MakerPaymentRefund"
    BY <1>0, <2>1 DEF Mine
  <2>3. "MakerPaymentSpend" \notin Conflicts(t)
    BY <2>2 DEF Conflicts
  <2> QED
    BY <2>1, <2>3 DEF Mine
<1>3. CASE TickStep
  BY <1>3 DEF TickStep, Tick
<1> QED
  BY <1>0, <1>1, <1>2, <1>3, LedgerSteps DEF EvictStep, Evict

-----------------------------------------------------------------------------
(* The taker's course after it has paid.                                   *)

\* A log that says anything says that the swap was started, or why it was not.
BegunInv ==
    \/ "Started" \in tSaved
    \/ /\ tSaved \subseteq {"StartFailed", "Finished"}
       /\ \/ tCmd = "Start" /\ tQueue = <<>>
          \/ tQueue = <<"Started">>
          \/ /\ tCmd \in {"Finish", "None"}
             /\ \A e : Listed(tQueue, e) => e \in {"StartFailed", "Finished"}

\* A taker about to pay resumes to pay.
ReadyInv ==
    tUp /\ tCmd = "SendTakerPayment" =>
        /\ tQueue = <<>> => tLast = "MakerPaymentValidatedAndConfirmed"
        /\ tQueue # <<>> => tQueue = <<"MakerPaymentValidatedAndConfirmed">>

\* Every step of the taker keeps the two.
LEMMA TakerBegins ==
    ASSUME LedgerTypeOK, TakerTypeOK, TakerLogInv, BegunInv, ReadyInv, TakerNext(mStartedAt)
    PROVE  BegunInv' /\ ReadyInv'
<1> DEFINE gate == "MakerPaymentValidatedAndConfirmed"
<1>1. CASE UNCHANGED <<tUp, tCmd, tQueue, tSaved, tLast, tSecret>>
  BY <1>1 DEF BegunInv, ReadyInv
<1>2. CASE TakerSaveEvent
  <2>1. /\ tQueue # <<>> /\ tQueue \in Seq(TakerSwapEvent) /\ tQueue' = Tail(tQueue)
        /\ tSaved' = tSaved \cup {tQueue[1]} /\ tLast' = tQueue[1] /\ UNCHANGED <<tUp, tCmd>>
    BY <1>2 DEF TakerSaveEvent, save_my_taker_swap_event
  <2>2. /\ Listed(tQueue, tQueue[1])
        /\ \A e : Listed(tQueue', e) => Listed(tQueue, e)
    BY <2>1, ListTail
  <2>3. \A e : tQueue = <<e>> => tQueue[1] = e /\ tQueue' = <<>>
    BY <2>1
  <2>4. BegunInv'
    BY <2>1, <2>2, <2>3 DEF BegunInv
  <2>5. ReadyInv'
    BY <2>1, <2>3 DEF ReadyInv
  <2> QED
    BY <2>4, <2>5
<1>3. CASE TakerCrash
  BY <1>3, ListTypes DEF TakerCrash, BegunInv, ReadyInv
<1>4. CASE TakerRestart
  <2>1. PICK next, E, secret : TakerLoadRow(TakerResumes, next, E, secret) /\ TakerLoaded(next, E, secret)
    BY <1>4, TakerReloads, Zenon DEF TakerReloaded
  <2>2. tQueue' = tQueue /\ tQueue = <<>> /\ ~tUp
    BY <1>4, TakerReloads DEF TakerLogInv, TakerLastInv
  <2>3. /\ tSaved' = tSaved \cup E /\ tCmd' = next
        /\ E = {} => tLast' = tLast
    BY <2>1 DEF TakerLoaded
  <2>4. "Started" \notin tSaved => next = "None" /\ E = {}
    BY <2>1 DEF TakerLoadRow, TakerResumes, Searched
  <2>5. next = "SendTakerPayment" => E = {} /\ TakerGetCommand(tLast) = "SendTakerPayment"
    BY <2>1 DEF TakerLoadRow, TakerResumes, Stuck
  <2>6. TakerGetCommand(tLast) = "SendTakerPayment" => tLast = gate
    BY DEF TakerGetCommand
  <2>7. BegunInv'
    BY <2>2, <2>3, <2>4, ListTypes DEF BegunInv
  <2>8. ReadyInv'
    BY <2>2, <2>3, <2>5, <2>6 DEF ReadyInv
  <2> QED
    BY <2>7, <2>8
<1>5. CASE TakerPanics
  BY <1>5 DEF TakerPanics, BegunInv, ReadyInv
<1>6. CASE TakerReturned
  <2>1. PICK from, next, first, E : TakerRow(from, next, first, E) /\ TakerHandled(from, next, first, E)
    BY <1>6, Zenon DEF TakerReturned
  <2>2. /\ tCmd = from /\ tCmd' = next /\ tSaved' = tSaved /\ tQueue = <<>>
        /\ tQueue' # <<>>
        /\ \A e : Listed(tQueue', e) <=> e \in E
        /\ E = {first} => tQueue' = <<first>>
    BY <2>1 DEF TakerHandled
  <2>3. next = "SendTakerPayment" => first = gate /\ E = {first}
    BY <2>1 DEF TakerRow
  <2>4. ReadyInv'
    BY <2>2, <2>3 DEF ReadyInv
  <2>5. from = "Start" => \/ first = "Started" /\ E = {first}
                          \/ next = "Finish" /\ E = {"StartFailed"}
    BY <2>1 DEF TakerRow
  <2>6. from \in {"Finish", "None"} => next = "None" /\ E = {"Finished"}
    BY <2>1 DEF TakerRow
  <2>7. BegunInv'
    BY <2>2, <2>5, <2>6 DEF BegunInv
  <2> QED
    BY <2>4, <2>7
<1> QED
  BY <1>1, <1>2, <1>3, <1>4, <1>5, <1>6, TakerSteps

\* They hold in every state of the swap.
LEMMA BegunAlways == Spec => [](BegunInv /\ ReadyInv)
<1>1. Init => BegunInv /\ ReadyInv
  BY DEF Init, TakerInit, BegunInv, ReadyInv
<1>2. TypeOK /\ TakerLogInv /\ BegunInv /\ ReadyInv /\ [Next]_vars => (BegunInv /\ ReadyInv)'
  <2> SUFFICES ASSUME TypeOK, TakerLogInv, BegunInv, ReadyInv, [Next]_vars
               PROVE  (BegunInv /\ ReadyInv)'
    OBVIOUS
  <2>1. CASE TakerStep
    BY <2>1, TakerBegins DEF TakerStep, TypeOK
  <2>2. CASE UNCHANGED takerVars
    BY <2>2 DEF takerVars, BegunInv, ReadyInv
  <2> QED
    BY <2>1, <2>2 DEF Next, MakerStep, WatcherStep, MineStep, EvictStep, TickStep, Terminating, vars
<1> QED
  BY <1>1, <1>2, TypeCorrect, TakerLogAlways, PTL DEF Spec

\* The commands of a taker that has paid and has not given up, and the events it resumes from.
CourseCommands == {"SendTakerPayment", "WaitForTakerPaymentSpend", "SpendMakerPayment"}
CourseEvents   == {"MakerPaymentValidatedAndConfirmed", "TakerPaymentSent", "WatcherMessageSent",
                   "TakerPaymentSpent"}

OnCourse ==
    /\ tUp => tCmd \in CourseCommands
    /\ tLast \in CourseEvents
    /\ \A e : Listed(tQueue, e) => e \in CourseEvents

\* A taker that has paid stays on course until it has taken the maker's payment, or until it
\* is too late for the maker to spend.
CourseInv ==
    Seen("TakerPayment") =>
        \/ SpendSeen("MakerPayment")
        \/ now > taker_payment_lock(tStartedAt) /\ ~SpendSeen("TakerPayment")
        \/ OnCourse

\* The maker's payment is taken as long as the maker could still be spending the taker's.
AnsweredInTime ==
    SpendSeen("TakerPayment") /\ ~Mined("MakerPaymentSpend")
        => now <= taker_payment_spend_deadline(mStartedAt)

\* Why a handler leaves the course, if no call fails.
LEMMA TakerLeaves ==
    ASSUME LedgerTypeOK, TakerTypeOK, ~RpcErrors, TakerHandles(mStartedAt),
           tCmd \in CourseCommands, tCmd' \notin CourseCommands
    PROVE  \/ tCmd = "SendTakerPayment" /\ ~Seen("TakerPayment") /\ tx' = tx
           \/ /\ tCmd = "WaitForTakerPaymentSpend"
              /\ \/ RefundSeen("TakerPayment")
                 \/ ~SpendSeen("TakerPayment") /\ now > taker_payment_lock(tStartedAt)
           \/ /\ tCmd = "SpendMakerPayment"
              /\ \/ Seen("MakerPaymentSpend")' \/ Seen("MakerPaymentRefund")
                 \/ ~Seen("MakerPayment") \/ ~tSecret
<1> USE DEF TakerRuns, CourseCommands
<1>0. tCmd' # tCmd
  OBVIOUS
<1>1. CASE TakerSendTakerPayment
  BY <1>1 DEF TakerSendTakerPayment, TakerWaits, SendPaymentErr, check_if_my_payment_sent
<1>2. CASE TakerTellWatchers
  BY <1>2 DEF TakerTellWatchers, TakerReturns
<1>3. CASE TakerWaitForSpendSend
  BY <1>3 DEF TakerWaitForSpendSend, TakerWaits
<1>4. CASE TakerWaitForTakerPaymentSpend
  BY <1>4 DEF TakerWaitForTakerPaymentSpend, TakerReturns
<1>5. CASE TakerSpendMakerPayment
  <2>1. \/ SpendOk("MakerPayment")
        \/ ~tSecret
        \/ ~Unspent("MakerPayment") /\ tx' = tx
        \/ (SpendSeen("MakerPayment") \/ RefundSeen("MakerPayment")) /\ tx' = tx
    BY <1>5 DEF TakerSpendMakerPayment, SpendErr
  <2>2. SpendOk("MakerPayment") => Seen("MakerPaymentSpend")'
    BY Payment2, TxNames DEF SpendOk, Put, Seen
  <2>3. Unspent("MakerPayment") \/ ~Seen("MakerPayment") \/ Seen("MakerPaymentSpend")
            \/ Seen("MakerPaymentRefund")
    BY Payment2 DEF Unspent, Seen, Mined
  <2>4. tx' = tx => (Seen("MakerPaymentSpend")' <=> Seen("MakerPaymentSpend"))
    BY DEF Seen
  <2> QED
    BY <1>5, <2>1, <2>2, <2>3, <2>4, Payment2 DEF TakerSpendMakerPayment, SpendSeen, RefundSeen
<1>6. ~(TakerStart \/ TakerNegotiateBegin \/ TakerNegotiateReply(mStartedAt) \/ TakerNegotiate
        \/ TakerSendTakerFee \/ TakerWaitForMakerPaymentSend \/ TakerWaitForMakerPayment
        \/ TakerValidateMakerPayment)
  BY DEF TakerStart, TakerNegotiateBegin, TakerNegotiateReply, TakerNegotiate,
     TakerSendTakerFee, TakerWaitForMakerPaymentSend, TakerWaitForMakerPayment,
     TakerValidateMakerPayment
<1>7. ~(TakerConfirmMakerPaymentSpend \/ TakerPrepareRefund \/ TakerRefundPayment
        \/ TakerFinalizeRefund \/ TakerFinish)
  BY DEF TakerConfirmMakerPaymentSpend, TakerPrepareRefund, TakerRefundPayment,
     TakerFinalizeRefund, TakerFinish
<1> QED
  BY <1>1, <1>2, <1>3, <1>4, <1>5, <1>6, <1>7 DEF TakerHandles

\* Why a restart does not resume a taker on course, if no call fails.
LEMMA TakerStuck ==
    ASSUME ~RpcErrors, TakerRestart, TakerResumes \in CourseCommands, tCmd' \in Stuck
    PROVE  /\ RefundSeen("MakerPayment")
           /\ TakerResumes = "SpendMakerPayment" \/ SpendSeen("TakerPayment")
<1>0. /\ TakerResumes \notin Stuck
      /\ TakerResumes \notin {"PrepareForTakerPaymentRefund", "RefundTakerPayment", "None"}
      /\ "SpendMakerPayment" \notin Stuck /\ "ConfirmMakerPaymentSpend" \notin Stuck
      /\ "Finish" \notin Stuck
  BY DEF CourseCommands, Stuck
<1>1. \A next, E, secret : TakerLoaded(next, E, secret) => tCmd' = next
  BY DEF TakerLoaded
<1>2. \/ TakerCommandFromActivity(TakerResumes)
      \/ TakerLoaded(TakerResumes, {}, "TakerPaymentSpent" \in tSaved)
  BY DEF TakerRestart, TakerResumes, swap_kick_starts
<1>3. \A found \in BOOLEAN : check_maker_payment_spend_and_add_event(found)
          => RefundSeen("MakerPayment")
  BY <1>0, <1>1 DEF check_maker_payment_spend_and_add_event
<1>4. TakerCommandFromActivity(TakerResumes)
  BY <1>0, <1>1, <1>2
<1> QED
  BY <1>0, <1>1, <1>3, <1>4 DEF TakerCommandFromActivity

\* While the maker's payment is taken in time, the maker does not take it back.
LEMMA NoRefundInTime ==
    ASSUME RefinementInv, AnsweredInTime, SpendSeen("TakerPayment")
    PROVE  ~Seen("MakerPaymentRefund")
<1> USE TxNames, Views
<1>1. ChainInv /\ DeadlineInv
  BY DEF RefinementInv, SwapChainInv
<1>2. Seen("TakerPayment")
  BY <1>1 DEF ChainInv, Claim, ParentOf
<1>3. Seen("MakerPaymentRefund") => ~Mined("MakerPaymentSpend")
  BY <1>1 DEF ChainInv, Conflicts
<1> QED
  BY <1>1, <1>2, <1>3, Deadlines DEF AnsweredInTime, DeadlineInv

\* A step of the taker on course ends in a state on course, unless the course is over.
LEMMA CourseTaker ==
    ASSUME RefinementInv, BegunInv, AnsweredInTime, ~RpcErrors, OnCourse, TakerStep,
           Seen("TakerPayment")'
    PROVE  \/ SpendSeen("MakerPayment")'
           \/ now > taker_payment_lock(tStartedAt) /\ ~SpendSeen("TakerPayment")
           \/ OnCourse'
<1> DEFINE Goal == \/ SpendSeen("MakerPayment")'
                   \/ now > taker_payment_lock(tStartedAt) /\ ~SpendSeen("TakerPayment")
                   \/ OnCourse'
<1>0. /\ TypeOK /\ LedgerTypeOK /\ TakerTypeOK /\ InvTiming /\ InvSecret /\ TakerLogInv
      /\ TakerNext(mStartedAt) /\ [Next]_vars
  BY DEF RefinementInv, IInv, TypeOK, TakerStep, Next
<1>1. RefundSeen("TakerPayment") => Goal
  <2>1. tx["TakerPaymentSpend"] \in TxStates /\ now \in Nat /\ taker_payment_lock(tStartedAt) \in Nat
    BY <1>0, TxNames, TimesAssumption DEF TypeOK, taker_payment_lock
  <2> QED
    BY <1>0, <2>1, Views DEF InvTiming, TxStates
<1>2. SpendSeen("MakerPayment") => Goal
  <2>1. SpendSeen("MakerPayment") => ~RefundSeen("MakerPayment")
    BY <1>0, NoRefundInTime, Payment2 DEF InvSecret, RefundSeen
  <2> QED
    BY <1>0, <2>1, SpendStays
<1>3. CASE UNCHANGED <<tUp, tCmd, tQueue, tSaved, tLast, tSecret>>
  BY <1>3 DEF OnCourse
<1>4. CASE TakerSaveEvent
  <2>1. /\ tQueue # <<>> /\ tQueue \in Seq(TakerSwapEvent) /\ tQueue' = Tail(tQueue)
        /\ tLast' = tQueue[1] /\ UNCHANGED <<tUp, tCmd>>
    BY <1>0, <1>4 DEF TakerSaveEvent, save_my_taker_swap_event
  <2> QED
    BY <2>1, ListTail DEF OnCourse
<1>5. CASE TakerCrash
  BY <1>5, ListTypes DEF TakerCrash, OnCourse
<1>6. CASE TakerRestart
  <2>1. PICK next, E, secret : TakerLoadRow(TakerResumes, next, E, secret) /\ TakerLoaded(next, E, secret)
    BY <1>0, <1>6, TakerReloads, Zenon DEF TakerReloaded
  <2>2. tCmd' = next /\ (E = {} => tLast' = tLast) /\ tQueue' = tQueue
    BY <1>0, <1>6, <2>1, TakerReloads DEF TakerLoaded
  <2>3. tLast \in tSaved /\ "Started" \in tSaved
    BY <1>0 DEF OnCourse, CourseEvents, TakerLogInv, TakerLastInv, BegunInv
  <2>4. /\ TakerResumes \in CourseCommands
        /\ TakerResumes = "SpendMakerPayment" => tLast = "TakerPaymentSpent"
    BY <2>3 DEF TakerResumes, TakerGetCommand, OnCourse, CourseEvents, CourseCommands
  <2>5. next \notin Stuck
    <3> SUFFICES ASSUME next \in Stuck PROVE FALSE
      OBVIOUS
    <3>1. /\ RefundSeen("MakerPayment")
          /\ TakerResumes = "SpendMakerPayment" \/ SpendSeen("TakerPayment")
      BY <1>6, <2>2, <2>4, TakerStuck
    <3>2. SpendSeen("TakerPayment")
      BY <1>0, <2>3, <2>4, <3>1 DEF InvSecret, TakerRemembers
    <3> QED
      BY <3>1, <3>2, NoRefundInTime, Payment2 DEF RefundSeen
  <2>6. next \in CourseCommands /\ E = {} => Goal
    BY <2>2 DEF OnCourse
  <2>7. \/ next \in CourseCommands /\ E = {}
        \/ SpendSeen("MakerPayment") \/ RefundSeen("TakerPayment")
    BY <2>1, <2>4, <2>5 DEF TakerLoadRow, CourseCommands
  <2> QED
    BY <1>1, <1>2, <2>6, <2>7
<1>7. CASE TakerPanics
  BY <1>7 DEF TakerPanics, OnCourse, CourseCommands
<1>8. CASE TakerReturned
  <2>1. PICK from, next, first, E : TakerRow(from, next, first, E) /\ TakerHandled(from, next, first, E)
    BY <1>8, Zenon DEF TakerReturned
  <2>2. /\ tUp /\ tQueue = <<>> /\ tQueue' # <<>> /\ tCmd = from /\ tCmd' = next /\ tLast' = tLast
        /\ \A e : Listed(tQueue', e) <=> e \in E
        /\ tUp' = tUp
    BY <2>1 DEF TakerHandled
  <2>3. from \in CourseCommands /\ from # "None"
    BY <2>2 DEF OnCourse, CourseCommands
  <2>4. CASE next \in CourseCommands
    <3>1. E \subseteq CourseEvents
      BY <2>1, <2>3, <2>4 DEF TakerRow, CourseCommands, CourseEvents
    <3> QED
      BY <2>2, <2>4, <3>1 DEF OnCourse
  <2>5. CASE next \notin CourseCommands
    <3>1. TakerHandles(mStartedAt)
      BY <1>0, <2>2 DEF TakerNext, TakerSaveEvent, TakerRecoverFunds, TakerCrash, TakerRestart,
         takerVars
    <3>2. from = "SpendMakerPayment" => tSecret /\ Mined("MakerPayment") /\ SpendSeen("TakerPayment")
      <4> SUFFICES ASSUME from = "SpendMakerPayment"
                   PROVE  tSecret /\ Mined("MakerPayment") /\ SpendSeen("TakerPayment")
        OBVIOUS
      <4>1. tSecret
        BY <1>0, <2>2, ListTypes DEF TakerLogInv, TakerDataInv
      <4>2. SpendSeen("TakerPayment")
        BY <1>0, <4>1 DEF InvSecret
      <4>3. Seen("TakerPayment")
        BY <4>2, TxNames, Payment2 DEF RefinementInv, SwapChainInv, ChainInv, Claim, ParentOf, SpendSeen
      <4> QED
        BY <4>1, <4>2, <4>3, Deadlines
    <3>3. from = "SpendMakerPayment" => ~Seen("MakerPaymentRefund") /\ Seen("MakerPayment")
      BY <3>2, NoRefundInTime DEF Seen, Mined
    <3>4. tx' = tx => Seen("TakerPayment")
      BY DEF Seen
    <3>5. SpendSeen("MakerPayment")' <=> Seen("MakerPaymentSpend")'
      BY Payment2 DEF SpendSeen
    <3> QED
      BY <1>0, <1>1, <2>2, <2>3, <2>5, <3>1, <3>2, <3>3, <3>4, <3>5, TakerLeaves
  <2> QED
    BY <2>4, <2>5
<1> QED
  BY <1>0, <1>3, <1>4, <1>5, <1>6, <1>7, <1>8, TakerSteps

\* Every step of the swap keeps the taker's course.
LEMMA CourseStep ==
    ASSUME RefinementInv, BegunInv, ReadyInv, CourseInv, AnsweredInTime, ~RpcErrors, [Next]_vars
    PROVE  CourseInv'
<1> SUFFICES ASSUME Seen("TakerPayment")'
             PROVE  \/ SpendSeen("MakerPayment")'
                    \/ (now > taker_payment_lock(tStartedAt) /\ ~SpendSeen("TakerPayment"))'
                    \/ OnCourse'
  BY Zenon DEF CourseInv
<1>0. TypeOK /\ InvSecret
  BY DEF RefinementInv, IInv
<1>1. /\ Seen("TakerPayment") \/ TakerSends
      /\ tCmd # "Start" /\ tStartedAt' = tStartedAt
      /\ now' \in {now, now + 1}
  <2>1. Seen("TakerPayment") \/ TakerSends
    BY <1>0, NewOnChain
  <2>2. tCmd # "Start"
    BY <2>1, Deadlines DEF TakerSends, StartsAgree
  <2> QED
    BY <2>1, <2>2, StartsStay DEF RefinementInv
<1>2. \/ SpendSeen("MakerPayment")
      \/ Seen("TakerPayment") /\ now > taker_payment_lock(tStartedAt) /\ ~SpendSeen("TakerPayment")
      \/ OnCourse
  <2>1. TakerSends => OnCourse
    BY ListTypes DEF TakerSends, ReadyInv, OnCourse, CourseCommands, CourseEvents
  <2> QED
    BY <1>1, <2>1 DEF CourseInv
<1>3. CASE SpendSeen("MakerPayment")
  <2>1. ~RefundSeen("MakerPayment")
    BY <1>0, <1>3, NoRefundInTime, Payment2 DEF InvSecret, RefundSeen
  <2> QED
    BY <1>3, <2>1, SpendStays
<1>4. ASSUME Seen("TakerPayment"), now > taker_payment_lock(tStartedAt), ~SpendSeen("TakerPayment")
      PROVE  (now > taker_payment_lock(tStartedAt) /\ ~SpendSeen("TakerPayment"))'
  <2>1. ~SpendSeen("TakerPayment")'
    BY <1>4, SpendIsMakers, Deadlines, Payment2 DEF SpendSeen
  <2>2. now' > taker_payment_lock(tStartedAt)'
    BY <1>1, <1>4, Deadlines DEF taker_payment_lock
  <2> QED
    BY <2>1, <2>2
<1>5. CASE OnCourse
  <2>1. CASE TakerStep
    <3>1. now' = now
      BY <1>0, <2>1, TakerBroadcasts DEF TakerStep, TypeOK
    <3>2. ASSUME now > taker_payment_lock(tStartedAt), ~SpendSeen("TakerPayment")
          PROVE  (now > taker_payment_lock(tStartedAt) /\ ~SpendSeen("TakerPayment"))'
      <4>1. ~SpendSeen("TakerPayment")'
        BY <1>0, <2>1, <3>2, TakerLedger, TxNames, Views, ViewsNext DEF TakerStep, TypeOK, OnlyAdds
      <4> QED
        BY <1>1, <3>1, <3>2, <4>1 DEF taker_payment_lock
    <3> QED
      BY <1>5, <2>1, <3>2, CourseTaker
  <2>2. CASE UNCHANGED takerVars
    BY <1>5, <2>2 DEF takerVars, OnCourse
  <2> QED
    BY <2>1, <2>2 DEF Next, MakerStep, WatcherStep, MineStep, EvictStep, TickStep, Terminating, vars
<1> QED
  BY <1>2, <1>3, <1>4, <1>5

\* On course there is always something to do once the taker's payment is spent.
LEMMA CourseHasWork ==
    ASSUME OnCourse, SpendSeen("TakerPayment")
    PROVE  TakerHasWork
BY DEF OnCourse, CourseCommands, TakerHasWork, TakerRuns

\* An attentive taker does not let the clock pass the spend of its payment by.
LEMMA AnsweredStep ==
    ASSUME RefinementInv, CourseInv, AnsweredInTime, [Next]_vars, now' # now => ~TakerHasWork
    PROVE  AnsweredInTime'
<1> USE TxNames, Views, ViewsNext
<1> SUFFICES ASSUME Seen("TakerPaymentSpend")', ~Mined("MakerPaymentSpend")'
             PROVE  now' <= taker_payment_spend_deadline(mStartedAt)'
  BY DEF AnsweredInTime
<1>0. TypeOK /\ ChainInv
  BY DEF RefinementInv, IInv, SwapChainInv
<1>1. CASE ~Seen("TakerPaymentSpend")
  BY <1>1, SpendIsMakers, StartsStay DEF RefinementInv, taker_payment_spend_deadline
<1>2. CASE Seen("TakerPaymentSpend")
  <2>1. ~Mined("MakerPaymentSpend")
    BY <1>0, ChainStep DEF ChainKeeps
  <2>2. Seen("TakerPayment")
    BY <1>0, <1>2 DEF ChainInv, Claim, ParentOf
  <2>3. now <= taker_payment_spend_deadline(mStartedAt) /\ mStartedAt' = mStartedAt
    BY <1>2, <2>1, <2>2, Deadlines, StartsStay DEF AnsweredInTime, StartsAgree, RefinementInv
  <2>4. now' = now
    <3> SUFFICES ASSUME now' # now PROVE FALSE
      OBVIOUS
    <3>1. \A t \in Txs : tx[t] # "mempool"
      BY StartsStay DEF RefinementInv
    <3>2. ~SpendSeen("MakerPayment")
      BY <1>0, <2>1, <3>1 DEF TypeOK, TxStates
    <3>3. OnCourse
      BY <1>2, <2>2, <3>2 DEF CourseInv
    <3> QED
      BY <1>2, <3>3, CourseHasWork
  <2> QED
    BY <2>3, <2>4 DEF taker_payment_spend_deadline
<1> QED
  BY <1>1, <1>2

\* What an attentive taker keeps true.
AttentiveTakerInv == "taker" \in attentive => CourseInv /\ AnsweredInTime

\* The assumptions on who is prompt only take behaviours away.
LEMMA AttentiveImplements == AttentiveSpec => Spec
<1>1. AttentiveInit => Init
  BY DEF AttentiveInit
<1>2. [AttentiveNext]_attentiveVars => [Next]_vars
  BY DEF AttentiveNext, attentiveVars
<1> QED
  BY <1>1, <1>2, PTL DEF AttentiveSpec, Spec

\* A taker that is attentive, and is restarted in time whenever it dies, never loses its coins to
\* a maker that spends the taker's payment and takes its own back, whatever the maker and the
\* watcher do and whenever the maker dies.
THEOREM AttentiveTakerSafe ==
    SafeParameters /\ ~RpcErrors /\ AttentiveSpec => []("taker" \in attentive => TakerNeverLoses)
<1> SUFFICES ASSUME ~RpcErrors
             PROVE  SafeParameters /\ AttentiveSpec => []("taker" \in attentive => TakerNeverLoses)
  OBVIOUS
<1>1. AttentiveInit => AttentiveTakerInv
  BY TxNames, Views DEF AttentiveInit, Init, LedgerInit, AttentiveTakerInv, CourseInv, AnsweredInTime
<1>2. /\ RefinementInv /\ BegunInv /\ ReadyInv /\ AttentiveTakerInv
      /\ [AttentiveNext]_attentiveVars
      => AttentiveTakerInv'
  <2> SUFFICES ASSUME RefinementInv, BegunInv, ReadyInv, AttentiveTakerInv,
                      [AttentiveNext]_attentiveVars, "taker" \in attentive'
               PROVE  CourseInv' /\ AnsweredInTime'
    BY DEF AttentiveTakerInv
  <2>1. "taker" \in attentive /\ [Next]_vars
    BY DEF AttentiveNext, attentiveVars
  <2>2. now' # now => ~TakerHasWork
    BY <2>1 DEF AttentiveNext, attentiveVars, vars, ledgerVars, NobodyLate
  <2> QED
    BY <2>1, <2>2, CourseStep, AnsweredStep DEF AttentiveTakerInv
<1>3. RefinementInv /\ AttentiveTakerInv => ("taker" \in attentive => TakerNeverLoses)
  BY NoRefundInTime, Views DEF AttentiveTakerInv, TakerNeverLoses
<1> QED
  BY <1>1, <1>2, <1>3, AttentiveImplements, RefinementAlways, BegunAlways, PTL DEF AttentiveSpec

-----------------------------------------------------------------------------
(* The watcher's turn: it is told before the maker is.                     *)

\* The maker hears of the taker's payment after the watcher does, and the watcher only of a
\* payment that was sent.
ToldInv ==
    /\ MakerRemembers("TakerPaymentReceived") => "TakerPayment" \in net
    /\ "TakerPayment" \in net => "TakerSwapWatcherMsg" \in net
    /\ TakerRemembers("TakerPaymentSent") => "TakerSwapWatcherMsg" \in net
    /\ SpendSeen("TakerPayment") => "TakerSwapWatcherMsg" \in net
    /\ wState # "idle" => "TakerSwapWatcherMsg" \in net
    /\ tPhase = "sent" => Seen("TakerPayment")
    /\ "TakerSwapWatcherMsg" \in net => Seen("TakerPayment")

\* Nobody who waits for the maker's payment, or has received it, has not paid the fee.
FeeInv ==
    (\/ tCmd = "WaitForMakerPayment"
     \/ TakerRemembers("TakerFeeSent") \/ TakerRemembers("MakerPaymentReceived"))
        => sent["TakerFee"] > 0

\* What the maker says and hears.
LEMMA MakerTalks ==
    ASSUME LedgerTypeOK, MakerTypeOK, MakerNext(tStartedAt)
    PROVE  /\ "TakerPayment" \in net' <=> "TakerPayment" \in net
           /\ "TakerSwapWatcherMsg" \in net' <=> "TakerSwapWatcherMsg" \in net
           /\ sent'["TakerFee"] = sent["TakerFee"]
           /\ MakerRemembers("TakerPaymentReceived")'
                  => MakerRemembers("TakerPaymentReceived") \/ "TakerPayment" \in net
<1> DEFINE peer == tStartedAt
           Quietly == UNCHANGED <<net, sent>>
<1>1. "TakerSwapWatcherMsg" \in net' <=> "TakerSwapWatcherMsg" \in net
  BY MakerLedger
<1>2. /\ "TakerPayment" \in net' <=> "TakerPayment" \in net
      /\ sent'["TakerFee"] = sent["TakerFee"]
  <2>1. CASE MakerNegotiateSend \/ MakerNegotiate(peer) \/ MakerWaitTakerFeeSend
             \/ MakerWaitForTakerPaymentSend
    BY <2>1 DEF MakerNegotiateSend, MakerNegotiate, MakerWaitTakerFeeSend,
       MakerWaitForTakerPaymentSend, Broadcast
  <2>2. CASE MakerPaymentSend
    BY <2>2 DEF MakerPaymentSend, SendPaymentOk, SendPaymentErr
  <2>3. CASE MakerStart \/ MakerWaitTakerFee \/ MakerWaitOwnConfirmation \/ MakerWaitForTakerPayment
             \/ MakerValidateTakerPayment \/ MakerSpendTakerPayment \/ MakerConfirmTakerPaymentSpend
             \/ MakerPrepareRefund \/ MakerRefundPayment \/ MakerFinalizeRefund \/ MakerFinish
    BY <2>3 DEF MakerStart, MakerWaitTakerFee, MakerWaitOwnConfirmation, MakerWaitForTakerPayment,
       MakerValidateTakerPayment, MakerSpendTakerPayment, MakerConfirmTakerPaymentSpend,
       MakerPrepareRefund, MakerRefundPayment, MakerFinalizeRefund, MakerFinish, ledgerVars
  <2>4. CASE MakerSaveEvent \/ MakerRecoverFunds \/ MakerCrash \/ MakerRestart
    BY <2>4 DEF MakerSaveEvent, MakerRecoverFunds, MakerCrash, MakerRestart, ledgerVars
  <2> QED
    BY <2>1, <2>2, <2>3, <2>4 DEF MakerNext, MakerHandles
<1>m. /\ \A e : MakerRemembers(e) <=> e \in mSaved \/ Listed(mQueue, e)
      /\ \A e : MakerRemembers(e)' <=> e \in mSaved' \/ Listed(mQueue', e)
  BY DEF MakerRemembers, Listed
<1>3. MakerRemembers("TakerPaymentReceived")'
          => MakerRemembers("TakerPaymentReceived") \/ "TakerPayment" \in net
  <2>1. CASE UNCHANGED <<mUp, mCmd, mQueue, mSaved, mLast>>
    BY <2>1 DEF MakerRemembers
  <2>2. CASE MakerSaveEvent
    BY <2>2, MakerSaveMemory
  <2>3. CASE MakerCrash
    BY <2>3, <1>m, ListTypes DEF MakerCrash
  <2>4. CASE MakerRestart
    BY <2>4, <1>m DEF MakerRestart
  <2>5. CASE MakerReturned
    <3>1. PICK from, next, first, E : MakerRow(from, next, first, E) /\ MakerHandled(from, next, first, E)
      BY <2>5, Zenon DEF MakerReturned
    <3>2. /\ mUp /\ mQueue = <<>> /\ mCmd = from /\ mCmd' = next /\ mSaved' = mSaved
          /\ mQueue' # <<>> /\ \A e : Listed(mQueue', e) <=> e \in E
      BY <3>1 DEF MakerHandled
    <3>3. CASE "TakerPaymentReceived" \in E
      <4>1. mCmd = "WaitForTakerPayment" /\ mCmd' = "ValidateTakerPayment"
        BY <3>1, <3>2, <3>3 DEF MakerRow, MakerGivesUp
      <4>2. ~(MakerSaveEvent \/ MakerRecoverFunds \/ MakerCrash \/ MakerRestart)
        BY <3>2, <4>1 DEF MakerSaveEvent, MakerRecoverFunds, MakerCrash, MakerRestart, makerVars
      <4>3. MakerWaitForTakerPaymentSend \/ MakerWaitOwnConfirmation \/ MakerWaitForTakerPayment
        BY <4>1, <4>2 DEF MakerNext, MakerHandles, MakerRuns, MakerStart, MakerNegotiateSend,
           MakerNegotiate, MakerWaitTakerFeeSend, MakerWaitTakerFee, MakerPaymentSend,
           MakerValidateTakerPayment, MakerSpendTakerPayment, MakerConfirmTakerPaymentSpend,
           MakerPrepareRefund, MakerRefundPayment, MakerFinalizeRefund, MakerFinish
      <4>4. "TakerPayment" \in net
        BY <4>1, <4>3 DEF MakerWaitForTakerPaymentSend, MakerWaitOwnConfirmation,
           MakerWaitForTakerPayment, MakerWaits, MakerRefundBecause, MakerReturns, Received
      <4> QED
        BY <4>4
    <3>4. CASE "TakerPaymentReceived" \notin E
      BY <1>m, <3>2, <3>4
    <3> QED
      BY <3>3, <3>4
  <2> QED
    BY <2>1, <2>2, <2>3, <2>4, <2>5, MakerSteps
<1> QED
  BY <1>1, <1>2, <1>3

\* What the taker says.
LEMMA TakerTalks ==
    ASSUME LedgerTypeOK, TakerTypeOK, WatchersSupported, ~RpcErrors, TakerNext(mStartedAt)
    PROVE  /\ net \subseteq net'
           /\ "TakerPayment" \in net'
                  => "TakerPayment" \in net \/ TakerRuns("WaitForTakerPaymentSpend")
           /\ "TakerSwapWatcherMsg" \in net'
                  => \/ "TakerSwapWatcherMsg" \in net \/ TakerRuns("WaitForTakerPaymentSpend")
                     \/ tPhase = "sent"
           /\ sent'["TakerFee"] \in Nat /\ sent'["TakerFee"] >= sent["TakerFee"]
           /\ tUp /\ tCmd = "SendTakerFee" /\ tCmd' = "WaitForMakerPayment"
                      => sent'["TakerFee"] > 0
           /\ tCmd = "SendTakerPayment" /\ tCmd' = "WaitForTakerPaymentSpend" /\ tUp
                  => "TakerSwapWatcherMsg" \in net'
           /\ tPhase' = "sent" => tPhase = "sent" \/ Seen("TakerPayment")'
<1> DEFINE peer == mStartedAt
           Says == /\ net \subseteq net'
                   /\ "TakerPayment" \in net'
                          => "TakerPayment" \in net \/ TakerRuns("WaitForTakerPaymentSpend")
                   /\ "TakerSwapWatcherMsg" \in net'
                          => \/ "TakerSwapWatcherMsg" \in net \/ tPhase = "sent"
                             \/ TakerRuns("WaitForTakerPaymentSpend")
           Pays == /\ sent'["TakerFee"] \in Nat /\ sent'["TakerFee"] >= sent["TakerFee"]
                   /\ tUp /\ tCmd = "SendTakerFee" /\ tCmd' = "WaitForMakerPayment"
                      => sent'["TakerFee"] > 0
           Tells == tCmd = "SendTakerPayment" /\ tCmd' = "WaitForTakerPaymentSpend" /\ tUp
                        => "TakerSwapWatcherMsg" \in net'
           Sent == tPhase' = "sent" => tPhase = "sent" \/ Seen("TakerPayment")'
<1>1. /\ sent["TakerFee"] \in Nat
      /\ net' = net => Says
      /\ sent' = sent /\ ~(tUp /\ tCmd = "SendTakerFee" /\ tCmd' = "WaitForMakerPayment") => Pays
      /\ tPhase' = tPhase => Sent
      /\ tPhase' # "sent" => Sent
  OBVIOUS
<1>2. CASE TakerSendTakerFee
  <2>1. Pays
    BY <1>1, <1>2 DEF TakerSendTakerFee, TakerReturns
  <2>2. net' = net /\ tPhase' # "sent" /\ Tells
    BY <1>2 DEF TakerSendTakerFee, TakerReturns, TakerRuns
  <2> QED
    BY <1>1, <2>1, <2>2
<1>3. CASE TakerSendTakerPayment
  <2>1. sent'["TakerFee"] = sent["TakerFee"]
    BY <1>3 DEF TakerSendTakerPayment, SendPaymentOk, SendPaymentErr
  <2>2. net' = net /\ tCmd = "SendTakerPayment" /\ tCmd' # "WaitForTakerPaymentSpend"
    BY <1>3 DEF TakerSendTakerPayment, TakerReturns, TakerWaits, TakerRuns
  <2>3. CASE TakerReturns("Finish", <<"TakerPaymentTransactionFailed">>)
    BY <1>1, <2>1, <2>2, <2>3 DEF TakerReturns
  <2>4. CASE SendPaymentOk("TakerPayment")
    <3>1. Seen("TakerPayment")'
      BY <2>4, TxNames DEF SendPaymentOk, Put, Seen
    <3> QED
      BY <1>1, <2>1, <2>2, <3>1
  <2>5. CASE Seen("TakerPayment") /\ tx' = tx
    <3>1. Seen("TakerPayment")'
      BY <2>5 DEF Seen
    <3> QED
      BY <1>1, <2>1, <2>2, <3>1
  <2> QED
    BY <1>3, <2>3, <2>4, <2>5 DEF TakerSendTakerPayment, check_if_my_payment_sent
<1>4. CASE TakerTellWatchers
  <2>1. /\ net' = net \cup {"TakerSwapWatcherMsg"} /\ tPhase = "sent" /\ tPhase' = "begin"
        /\ sent' = sent /\ tCmd = "SendTakerPayment"
    BY <1>4 DEF TakerTellWatchers, Broadcast, TakerRuns, TakerReturns
  <2> QED
    BY <1>1, <2>1
<1>5. CASE TakerWaitForSpendSend
  BY <1>1, <1>5 DEF TakerWaitForSpendSend, TakerRuns, TakerWaits
<1>6. CASE TakerNegotiateReply(peer) \/ TakerWaitForMakerPaymentSend
  BY <1>1, <1>6 DEF TakerNegotiateReply, TakerWaitForMakerPaymentSend, Broadcast, TakerRuns,
     TakerReturns, TakerWaits
<1>7. CASE TakerStart \/ TakerNegotiateBegin \/ TakerNegotiate \/ TakerWaitForMakerPayment
           \/ TakerValidateMakerPayment \/ TakerWaitForTakerPaymentSpend
  BY <1>1, <1>7 DEF TakerStart, TakerNegotiateBegin, TakerNegotiate, TakerWaitForMakerPayment,
     TakerValidateMakerPayment, TakerWaitForTakerPaymentSpend, TakerRefundBecause, ledgerVars,
     TakerRuns, TakerReturns, TakerWaits
<1>8. CASE TakerSpendMakerPayment \/ TakerConfirmMakerPaymentSpend \/ TakerPrepareRefund
           \/ TakerRefundPayment \/ TakerFinalizeRefund \/ TakerFinish
  BY <1>1, <1>8 DEF TakerSpendMakerPayment, TakerConfirmMakerPaymentSpend, TakerPrepareRefund,
     TakerRefundPayment, TakerFinalizeRefund, TakerFinish, TakerRefundBecause, ledgerVars, TakerRuns,
     TakerReturns
<1>9. CASE TakerSaveEvent \/ TakerRecoverFunds \/ TakerCrash \/ TakerRestart
  <2>1. net' = net /\ sent' = sent /\ (tPhase' = tPhase \/ tPhase' = "begin")
    BY <1>9, TakerReloads DEF TakerSaveEvent, TakerRecoverFunds, TakerCrash, TakerRestart, ledgerVars,
       takerVars
  <2>2. TakerRestart => ~tUp
    BY DEF TakerRestart
  <2>3. tUp => tCmd' \in {tCmd, "None"}
    BY <1>9, <2>2 DEF TakerSaveEvent, TakerRecoverFunds, TakerCrash, takerVars
  <2> QED
    BY <1>1, <2>1, <2>3
<1> QED
  BY <1>2, <1>3, <1>4, <1>5, <1>6, <1>7, <1>8, <1>9 DEF TakerNext, TakerHandles

\* What the taker's log learns of the fee and of its payment.
LEMMA TakerRecords ==
    ASSUME LedgerTypeOK, TakerTypeOK, TakerLastInv, TakerNext(mStartedAt)
    PROVE  /\ TakerRemembers("TakerPaymentSent")'
                  => \/ TakerRemembers("TakerPaymentSent")
                     \/ tUp /\ tCmd = "SendTakerPayment" /\ tCmd' = "WaitForTakerPaymentSpend"
           /\ TakerRemembers("TakerFeeSent")'
                  => \/ TakerRemembers("TakerFeeSent")
                     \/ tUp /\ tCmd = "SendTakerFee" /\ tCmd' = "WaitForMakerPayment"
           /\ TakerRemembers("MakerPaymentReceived")'
                  => TakerRemembers("MakerPaymentReceived") \/ tCmd = "WaitForMakerPayment"
           /\ tCmd' = "WaitForMakerPayment"
                  => \/ tCmd = "WaitForMakerPayment" \/ TakerRemembers("TakerFeeSent")
                     \/ tUp /\ tCmd = "SendTakerFee"
<1>m. /\ \A e : TakerRemembers(e) <=> e \in tSaved \/ Listed(tQueue, e)
      /\ \A e : TakerRemembers(e)' <=> e \in tSaved' \/ Listed(tQueue', e)
  BY DEF TakerRemembers, Listed
<1>1. CASE UNCHANGED <<tUp, tCmd, tQueue, tSaved, tLast, tSecret>>
  BY <1>1 DEF TakerRemembers
<1>2. CASE TakerSaveEvent
  BY <1>2, TakerSaveMemory DEF TakerSaveEvent
<1>3. CASE TakerCrash
  BY <1>3, <1>m, ListTypes DEF TakerCrash
<1>4. CASE TakerRestart
  <2>1. PICK next, E, secret : TakerLoadRow(TakerResumes, next, E, secret) /\ TakerLoaded(next, E, secret)
    BY <1>4, TakerReloads, Zenon DEF TakerReloaded
  <2>2. tSaved' = tSaved \cup E /\ tQueue' = tQueue /\ tCmd' = next
    BY <1>4, <2>1, TakerReloads DEF TakerLoaded
  <2>3. "TakerPaymentSent" \notin E /\ "TakerFeeSent" \notin E /\ "MakerPaymentReceived" \notin E
    BY <2>1 DEF TakerLoadRow
  <2>4. next = "WaitForMakerPayment" => TakerGetCommand(tLast) = "WaitForMakerPayment"
    BY <2>1 DEF TakerLoadRow, TakerResumes, Stuck
  <2>5. TakerGetCommand(tLast) = "WaitForMakerPayment" => tLast = "TakerFeeSent"
    BY DEF TakerGetCommand
  <2>6. tLast = "TakerFeeSent" => "TakerFeeSent" \in tSaved
    BY DEF TakerLastInv
  <2> QED
    BY <1>m, <2>2, <2>3, <2>4, <2>5, <2>6
<1>5. CASE TakerPanics
  BY <1>5 DEF TakerPanics, TakerRemembers
<1>6. CASE TakerReturned
  <2>1. PICK from, next, first, E : TakerRow(from, next, first, E) /\ TakerHandled(from, next, first, E)
    BY <1>6, Zenon DEF TakerReturned
  <2>2. /\ tSaved' = tSaved /\ tUp /\ tCmd = from /\ tCmd' = next
        /\ \A e : Listed(tQueue', e) <=> e \in E
    BY <2>1 DEF TakerHandled
  <2>3. /\ "TakerPaymentSent" \in E => from = "SendTakerPayment" /\ next = "WaitForTakerPaymentSpend"
        /\ "TakerFeeSent" \in E => from = "SendTakerFee" /\ next = "WaitForMakerPayment"
        /\ "MakerPaymentReceived" \in E => from = "WaitForMakerPayment"
        /\ next = "WaitForMakerPayment" => from = "SendTakerFee"
    BY <2>1 DEF TakerRow
  <2> QED
    BY <1>m, <2>2, <2>3
<1> QED
  BY <1>1, <1>2, <1>3, <1>4, <1>5, <1>6, TakerSteps

\* The fee is paid before the maker's payment is waited for.
LEMMA FeeStep ==
    ASSUME RefinementInv, WatchersSupported, ~RpcErrors, FeeInv, [Next]_vars
    PROVE  FeeInv'
<1>0. TypeOK /\ TakerLogInv /\ TakerLastInv
  BY DEF RefinementInv, IInv, TakerLogInv
<1>1. sent["TakerFee"] \in Nat
  BY <1>0 DEF TypeOK
<1>2. CASE TakerStep
  <2>1. TakerNext(mStartedAt)
    BY <1>2 DEF TakerStep
  <2>2. /\ sent'["TakerFee"] >= sent["TakerFee"] /\ sent'["TakerFee"] \in Nat
        /\ tUp /\ tCmd = "SendTakerFee" /\ tCmd' = "WaitForMakerPayment"
                      => sent'["TakerFee"] > 0
    BY <1>0, <2>1, TakerTalks DEF TypeOK
  <2> QED
    BY <1>0, <1>1, <2>1, <2>2, TakerRecords DEF TypeOK, FeeInv
<1>3. CASE UNCHANGED takerVars /\ sent'["TakerFee"] = sent["TakerFee"]
  BY <1>3 DEF takerVars, FeeInv, TakerRemembers
<1>4. CASE MakerStep
  BY <1>0, <1>3, <1>4, MakerTalks DEF MakerStep, TypeOK
<1>5. CASE WatcherStep
  <2>1. sent' = sent
    BY <1>5 DEF WatcherStep, WatcherNext, WatcherHandles, WatcherSpawn, WatcherStop,
       WatcherValidateTakerFee, WatcherValidateTakerPayment, WatcherWaitForTakerPaymentSpend,
       WatcherWaitForMakerPaymentSpend, WatcherSpendMakerPayment, WatcherRefundTakerPayment,
       ledgerVars
  <2> QED
    BY <1>3, <1>5, <2>1 DEF WatcherStep
<1> QED
  BY <1>2, <1>3, <1>4, <1>5 DEF Next, MineStep, EvictStep, TickStep, Terminating, vars, Mine, Evict,
     Tick, ledgerVars

\* The watcher is told before the maker hears of the payment, at every step.
LEMMA ToldStep ==
    ASSUME RefinementInv, WatchersSupported, ~RpcErrors, ToldInv, [Next]_vars
    PROVE  ToldInv'
<1> USE Views, ViewsNext
<1> DEFINE paid == "TakerPayment"
           told == "TakerSwapWatcherMsg"
<1>0. /\ TypeOK /\ PromptChain /\ ChainInv /\ TakerLogInv /\ TakerLastInv /\ TakerDataInv
      /\ SwapChainInv
  BY DEF RefinementInv, IInv, SafeParameters, SwapChainInv, TakerLogInv
<1>1. Seen(paid) => Seen(paid)'
  BY <1>0, ChainStep DEF ChainKeeps, Payments
<1>2. TakerRuns("WaitForTakerPaymentSpend") => told \in net
  BY <1>0 DEF TakerRuns, TakerDataInv, TakerHas, TakerNeeds, Searched, ToldInv
<1>3. net \subseteq net' => (SpendSeen(paid)' => told \in net')
  BY SpendIsMakers, TxNames DEF ToldInv
<1>4. CASE MakerStep
  <2>1. /\ MakerNext(tStartedAt) /\ UNCHANGED <<takerVars, wState>>
        /\ LedgerTypeOK /\ MakerTypeOK
    BY <1>0, <1>4 DEF MakerStep, TypeOK
  <2>2. /\ paid \in net' <=> paid \in net
        /\ told \in net' <=> told \in net
        /\ MakerRemembers("TakerPaymentReceived")'
               => MakerRemembers("TakerPaymentReceived") \/ paid \in net
    BY <2>1, MakerTalks
  <2>3. SpendSeen(paid)' => told \in net'
    BY <2>2, SpendIsMakers, TxNames DEF ToldInv
  <2>4. /\ TakerRemembers("TakerPaymentSent")' <=> TakerRemembers("TakerPaymentSent")
        /\ tPhase' = tPhase /\ wState' = wState
    BY <2>1 DEF takerVars, TakerRemembers
  <2> QED
    BY <1>1, <2>2, <2>3, <2>4 DEF ToldInv
<1>5. CASE TakerStep
  <2>1. /\ TakerNext(mStartedAt) /\ UNCHANGED <<makerVars, wState>>
        /\ LedgerTypeOK /\ TakerTypeOK
    BY <1>0, <1>5 DEF TakerStep, TypeOK
  <2>2. /\ net \subseteq net'
        /\ paid \in net' => paid \in net \/ TakerRuns("WaitForTakerPaymentSpend")
        /\ told \in net' => \/ told \in net \/ TakerRuns("WaitForTakerPaymentSpend")
                            \/ tPhase = "sent"
        /\ tUp /\ tCmd = "SendTakerPayment" /\ tCmd' = "WaitForTakerPaymentSpend" => told \in net'
        /\ tPhase' = "sent" => tPhase = "sent" \/ Seen(paid)'
    BY <2>1, TakerTalks
  <2>3. TakerRemembers("TakerPaymentSent")' => told \in net'
    BY <1>0, <2>1, <2>2, TakerRecords DEF ToldInv
  <2>4. MakerRemembers("TakerPaymentReceived")' <=> MakerRemembers("TakerPaymentReceived")
    BY <2>1 DEF makerVars, MakerRemembers
  <2> QED
    BY <1>1, <1>2, <1>3, <2>1, <2>2, <2>3, <2>4 DEF ToldInv
<1>6. CASE WatcherStep
  <2>1. net' = net /\ UNCHANGED <<makerVars, takerVars>>
    BY <1>0, <1>6, WatcherLedger DEF WatcherStep, TypeOK
  <2>2. wState' # "idle" => wState # "idle" \/ told \in net
    BY <1>6 DEF WatcherStep, WatcherNext, WatcherHandles, WatcherSpawn, WatcherStop, Received,
       WatcherValidateTakerFee, WatcherValidateTakerPayment, WatcherWaitForTakerPaymentSpend,
       WatcherWaitForMakerPaymentSpend, WatcherSpendMakerPayment, WatcherRefundTakerPayment,
       change_state
  <2> QED
    BY <1>1, <1>3, <2>1, <2>2 DEF ToldInv, makerVars, takerVars, MakerRemembers, TakerRemembers
<1>7. CASE net' = net /\ UNCHANGED <<makerVars, takerVars, wState>>
  BY <1>1, <1>3, <1>7 DEF ToldInv, makerVars, takerVars, MakerRemembers, TakerRemembers
<1>8. MineStep \/ EvictStep \/ TickStep \/ Terminating \/ UNCHANGED vars
          => net' = net /\ UNCHANGED <<makerVars, takerVars, wState>>
  BY DEF MineStep, EvictStep, TickStep, Terminating, vars, Mine, Evict, Tick, ledgerVars
<1> QED
  BY <1>4, <1>5, <1>6, <1>7, <1>8 DEF Next

-----------------------------------------------------------------------------
(* The watcher's answer.                                                   *)

\* The maker may no longer spend the taker's payment, if it has not started after the taker.
Late == now > taker_payment_spend_deadline(tStartedAt)

\* A watcher that knows the secret, and one that will do nothing for the taker any more.
Answering == {"WaitForMakerPaymentSpend", "SpendMakerPayment"}
Done      == {"Stopped", "RefundTakerPayment"}

\* A watcher stops only when it is not needed.
DoneInv == wState \in Done => Late \/ SpendSeen("MakerPayment")

\* The maker's payment is taken soon after the taker's lock, and until then the watcher is
\* about to take it.
WatchedInTime ==
    mStartedAt <= tStartedAt /\ SpendSeen("TakerPayment") =>
        /\ Mined("MakerPaymentSpend") \/ now <= taker_payment_lock(tStartedAt) + 1
        /\ \/ SpendSeen("MakerPayment")
           \/ wState \notin Done /\ (wState \in Answering \/ ~Late)

\* From where, and why, the watcher moves, if no call fails and its node does not stop.
LEMMA WatcherMoves ==
    ASSUME RefinementInv, ToldInv, ~RpcErrors, ~WatcherStops, WatcherStep
    PROVE  /\ wState' \in Done
                  => \/ SpendSeen("MakerPayment")' \/ RefundSeen("MakerPayment")
                     \/ wState \in Done \/ (Late /\ wState \notin Answering)
           /\ wState' \notin Done \cup Answering => wState \notin Answering
<1> USE DEF change_state, Done, Answering
<1>1. CASE WatcherSpawn
  BY <1>1 DEF WatcherSpawn
<1>2. CASE WatcherValidateTakerFee
  BY <1>2 DEF WatcherValidateTakerFee
<1>3. CASE WatcherValidateTakerPayment(tStartedAt)
  <2>1. wState = "ValidateTakerPayment"
    BY <1>3 DEF WatcherValidateTakerPayment
  <2>2. Seen("TakerPayment")
    BY <2>1 DEF ToldInv
  <2> QED
    BY <1>3, <2>2 DEF WatcherValidateTakerPayment, not_confirmed, Late
<1>4. CASE WatcherWaitForTakerPaymentSpend(tStartedAt)
  <2>1. wState = "WaitForTakerPaymentSpend"
    BY <1>4 DEF WatcherWaitForTakerPaymentSpend
  <2>2. Seen("TakerPayment")
    BY <2>1 DEF ToldInv
  <2>3. now > refund_start_time(tStartedAt) => Late
    BY <2>2, Deadlines DEF Late
  <2>4. RefundSeen("TakerPayment") => Late
    BY <2>2, Deadlines, Payment2 DEF RefinementInv, IInv, InvTiming, RefundSeen, Late
  <2> QED
    BY <1>4, <2>1, <2>3, <2>4 DEF WatcherWaitForTakerPaymentSpend
<1>5. CASE WatcherWaitForMakerPaymentSpend(tStartedAt)
  <2>1. SpendSeen("MakerPayment") => SpendSeen("MakerPayment")'
    BY <1>5 DEF WatcherWaitForMakerPaymentSpend, ledgerVars, SpendSeen, Seen
  <2> QED
    BY <1>5, <2>1 DEF WatcherWaitForMakerPaymentSpend
<1>6. CASE WatcherSpendMakerPayment
  <2>1. Seen("MakerPayment")
    BY <1>6, Deadlines, Views DEF WatcherSpendMakerPayment, ToldInv
  <2>2. SpendOk("MakerPayment") => SpendSeen("MakerPayment")'
    BY Payment2, TxNames DEF SpendOk, Put, Seen, SpendSeen, RefinementInv, IInv, TypeOK
  <2>3. \/ Unspent("MakerPayment") \/ SpendSeen("MakerPayment") \/ RefundSeen("MakerPayment")
    BY <2>1 DEF Unspent, SpendSeen, RefundSeen, Seen, Mined
  <2>4. tx' = tx /\ SpendSeen("MakerPayment") => SpendSeen("MakerPayment")'
    BY DEF SpendSeen, Seen
  <2> QED
    BY <1>6, <2>2, <2>3, <2>4 DEF WatcherSpendMakerPayment, SpendErr
<1>7. CASE WatcherRefundTakerPayment(tStartedAt)
  BY <1>7 DEF WatcherRefundTakerPayment
<1> QED
  BY <1>1, <1>2, <1>3, <1>4, <1>5, <1>6, <1>7
     DEF WatcherStep, WatcherNext, WatcherHandles, WatcherStop

\* A refund of the maker's payment is late.
LEMMA RefundIsLate ==
    ASSUME RefinementInv, Seen("TakerPayment"), RefundSeen("MakerPayment")
    PROVE  /\ Late /\ ~Mined("MakerPaymentSpend")
           /\ LockTime > 1 => now > taker_payment_lock(tStartedAt) + 1
<1>1. Seen("MakerPaymentRefund") /\ now > maker_payment_lock(mStartedAt)
  BY Payment2 DEF RefundSeen, RefinementInv, DeadlineInv
<1>2. ~Mined("MakerPaymentSpend")
  BY <1>1, TxNames, Views DEF RefinementInv, SwapChainInv, ChainInv, Conflicts
<1> QED
  BY <1>1, <1>2, Deadlines DEF Late

\* Once it is too late, it stays so, and the start times are settled.
LEMMA LateStays ==
    ASSUME RefinementInv, [Next]_vars, Seen("TakerPayment")
    PROVE  /\ tStartedAt' = tStartedAt /\ mStartedAt' = mStartedAt
           /\ Late => Late'
           /\ now' = now => (Late' <=> Late)
<1>1. tStartedAt' = tStartedAt /\ mStartedAt' = mStartedAt
  BY Deadlines, StartsStay DEF RefinementInv, StartsAgree
<1>2. now' = now \/ now' = now + 1
  BY StartsStay DEF RefinementInv
<1> QED
  BY <1>1, <1>2, Deadlines DEF Late, taker_payment_spend_deadline

\* A watcher stops only when it is not needed: at every step.
LEMMA DoneStep ==
    ASSUME RefinementInv, ToldInv, DoneInv, ~RpcErrors, ~WatcherStops, [Next]_vars
    PROVE  DoneInv'
<1> SUFFICES ASSUME wState' \in Done
             PROVE  Late' \/ SpendSeen("MakerPayment")'
  BY DEF DoneInv
<1>1. Seen("TakerPayment")
  <2>1. wState # "idle"
    BY DEF Done, Next, MakerStep, TakerStep, WatcherStep, MineStep, EvictStep, TickStep, Terminating,
       vars, WatcherNext, WatcherHandles, WatcherSpawn, WatcherStop, WatcherValidateTakerFee,
       WatcherValidateTakerPayment, WatcherWaitForTakerPaymentSpend,
       WatcherWaitForMakerPaymentSpend, WatcherSpendMakerPayment, WatcherRefundTakerPayment,
       change_state
  <2> QED
    BY <2>1 DEF ToldInv
<1>2. \/ SpendSeen("MakerPayment")' \/ RefundSeen("MakerPayment")
      \/ Late \/ wState \in Done
  <2>1. CASE WatcherStep
    BY <2>1, WatcherMoves
  <2>2. CASE wState' = wState
    BY <2>2
  <2> QED
    BY <2>1, <2>2 DEF Next, MakerStep, TakerStep, MineStep, EvictStep, TickStep, Terminating, vars
<1>3. SpendSeen("MakerPayment") => SpendSeen("MakerPayment")' \/ RefundSeen("MakerPayment")
  BY SpendStays
<1> QED
  BY <1>1, <1>2, <1>3, RefundIsLate, LateStays DEF DoneInv

\* An attentive watcher answers the spend of the taker's payment, at every step.
LEMMA WatchedStep ==
    ASSUME RefinementInv, ToldInv, FeeInv, DoneInv, WatchedInTime, LockTime > 1,
           ~RpcErrors, ~WatcherStops, [Next]_vars, now' # now => ~WatcherHasWork(tStartedAt)
    PROVE  WatchedInTime'
<1> USE TxNames, Views, ViewsNext
<1> SUFFICES ASSUME mStartedAt' <= tStartedAt', Seen("TakerPaymentSpend")'
             PROVE  /\ Mined("MakerPaymentSpend")' \/ now' <= taker_payment_lock(tStartedAt)' + 1
                    /\ \/ SpendSeen("MakerPayment")'
                       \/ (wState \notin Done /\ (wState \in Answering \/ ~Late))'
  BY DEF WatchedInTime
<1>0. TypeOK /\ ChainInv /\ SwapChainInv /\ TakerLogInv /\ IInv
  BY DEF RefinementInv, IInv, SwapChainInv
<1>1. Seen("TakerPayment")
  <2>1. CASE Seen("TakerPaymentSpend")
    BY <1>0, <2>1 DEF ChainInv, Claim, ParentOf
  <2>2. CASE ~Seen("TakerPaymentSpend")
    BY <2>2, SpendIsMakers DEF ToldInv
  <2> QED
    BY <2>1, <2>2
<1>2. /\ tStartedAt' = tStartedAt /\ mStartedAt' = mStartedAt
      /\ taker_payment_lock(tStartedAt)' = taker_payment_lock(tStartedAt)
      /\ mStartedAt <= tStartedAt
      /\ taker_payment_lock(tStartedAt) \in Nat /\ now \in Nat
  BY <1>1, LateStays, Deadlines DEF taker_payment_lock
<1>3. CASE ~Seen("TakerPaymentSpend")
  <2>1. /\ now' = now /\ now <= taker_payment_spend_deadline(mStartedAt)
        /\ ~SpendSeen("MakerPayment") /\ wState' = wState
    BY <1>3, SpendIsMakers
  <2>2. ~Late /\ now <= taker_payment_lock(tStartedAt)
    BY <1>1, <1>2, <2>1, Deadlines DEF Late
  <2>3. ~Late' /\ wState' \notin Done
    BY <1>1, <2>1, <2>2, LateStays DEF DoneInv
  <2> QED
    BY <1>2, <2>1, <2>2, <2>3
<1>4. CASE Seen("TakerPaymentSpend")
  <2>1. /\ Mined("MakerPaymentSpend") \/ now <= taker_payment_lock(tStartedAt) + 1
        /\ \/ SpendSeen("MakerPayment")
           \/ wState \notin Done /\ (wState \in Answering \/ ~Late)
    BY <1>2, <1>4 DEF WatchedInTime
  <2>2. ~RefundSeen("MakerPayment")
    BY <1>1, <1>2, <2>1, RefundIsLate
  <2>3. /\ SpendSeen("MakerPayment") => SpendSeen("MakerPayment")'
        /\ Mined("MakerPaymentSpend") => Mined("MakerPaymentSpend")'
    BY <1>0, <2>2, SpendStays, ChainStep DEF ChainKeeps
  <2>4. CASE now' = now
    <3>1. ASSUME ~SpendSeen("MakerPayment")', ~SpendSeen("MakerPayment")
          PROVE  (wState \notin Done /\ (wState \in Answering \/ ~Late))'
      <4>1. Late' <=> Late
        BY <1>1, <2>4, LateStays
      <4>2. CASE WatcherStep
        BY <2>1, <2>2, <3>1, <4>1, <4>2, WatcherMoves
      <4>3. CASE wState' = wState
        BY <2>1, <3>1, <4>1, <4>3
      <4> QED
        BY <4>2, <4>3 DEF Next, MakerStep, TakerStep, MineStep, EvictStep, TickStep, Terminating, vars
    <3> QED
      BY <1>2, <2>1, <2>3, <2>4, <3>1
  <2>5. CASE now' # now
    <3>1. /\ now' = now + 1 /\ \A t \in Txs : tx[t] = "none" \/ tx[t] = "mined"
          /\ wState' = wState
      <4>1. now' = now + 1 /\ \A t \in Txs : tx[t] # "mempool"
        BY <1>0, <2>5, StartsStay
      <4>2. wState' = wState
        BY <1>0, <2>5, WatcherLedger DEF Next, MakerStep, TakerStep, WatcherStep, MineStep,
           EvictStep, TickStep, Terminating, vars, TypeOK
      <4> QED
        BY <1>0, <4>1, <4>2 DEF TypeOK, TxStates
    <3>2. CASE SpendSeen("MakerPayment")
      BY <2>3, <3>1, <3>2
    <3>3. CASE ~SpendSeen("MakerPayment")
      <4>1. wState \notin Done /\ ~Mined("MakerPaymentSpend")
        BY <2>1, <3>3
      <4>2. ~WatcherHasWork(tStartedAt)
        BY <2>5
      <4>3. Mined("TakerPayment")
        BY <1>1, <3>1
      <4>4. sent["TakerFee"] > 0
        <5>1. "MakerPaymentReceived" \in tSaved
          <6>1. "MakerPaymentValidatedAndConfirmed" \in tSaved
            BY <1>0, <1>1 DEF SwapChainInv, TakerChainInv
          <6>2. TakerHas("SendTakerPayment", tSaved)
            BY <1>0, <6>1 DEF TakerLogInv, TakerDataInv, TakerGetCommand
          <6> QED
            BY <6>2 DEF TakerHas, TakerNeeds
        <5> QED
          BY <5>1 DEF FeeInv, TakerRemembers
      <4>5. "TakerSwapWatcherMsg" \in net
        BY <1>4 DEF ToldInv
      <4>6. wState = "WaitForMakerPaymentSpend"
        BY <1>0, <1>4, <4>1, <4>2, <4>3, <4>4, <4>5 DEF WatcherHasWork, Received, TypeOK,
           WatcherStates, Done
      <4>7. now <= taker_payment_lock(tStartedAt)
        BY <1>2, <4>2, <4>6 DEF WatcherHasWork, wait_for_maker_payment_spend_deadline,
           taker_payment_lock
      <4> QED
        BY <1>2, <3>1, <4>1, <4>6, <4>7 DEF Answering
    <3> QED
      BY <3>2, <3>3
  <2> QED
    BY <2>4, <2>5
<1> QED
  BY <1>3, <1>4

\* What an attentive watcher keeps true.
AttentiveWatcherInv == "watcher" \in attentive => WatchedInTime

\* An attentive watcher saves a taker that is offline for as long as it likes after it has told
\* the watcher: the maker does not get both coins, as long as it has not started after the taker.
\* The watcher counts its deadlines from the taker's start.  A maker that started later may spend
\* after the watcher has taken the payment for lost.
THEOREM AttentiveWatcherSafe ==
    /\ SafeParameters /\ ~RpcErrors /\ WatchersSupported /\ ~WatcherStops /\ LockTime > 1
    /\ AttentiveSpec
    => []("watcher" \in attentive /\ mStartedAt <= tStartedAt => TakerNeverLoses)
<1> SUFFICES ASSUME ~RpcErrors, WatchersSupported, ~WatcherStops, LockTime > 1
             PROVE  SafeParameters /\ AttentiveSpec
                    => []("watcher" \in attentive /\ mStartedAt <= tStartedAt => TakerNeverLoses)
  OBVIOUS
<1>1. AttentiveInit => ToldInv /\ FeeInv /\ DoneInv /\ AttentiveWatcherInv
  BY TxNames, Views DEF AttentiveInit, Init, LedgerInit, MakerInit, TakerInit, WatcherInit,
     AttentiveWatcherInv, ToldInv, FeeInv, DoneInv, Done, WatchedInTime, MakerRemembers,
     TakerRemembers
<1>2. /\ RefinementInv /\ ToldInv /\ FeeInv /\ DoneInv /\ AttentiveWatcherInv
      /\ [AttentiveNext]_attentiveVars
      => (ToldInv /\ FeeInv /\ DoneInv /\ AttentiveWatcherInv)'
  <2> SUFFICES ASSUME RefinementInv, ToldInv, FeeInv, DoneInv, AttentiveWatcherInv,
                      [AttentiveNext]_attentiveVars
               PROVE  ToldInv' /\ FeeInv' /\ DoneInv' /\ AttentiveWatcherInv'
    OBVIOUS
  <2>1. [Next]_vars /\ attentive' = attentive
    BY DEF AttentiveNext, attentiveVars
  <2>2. "watcher" \in attentive => (now' # now => ~WatcherHasWork(tStartedAt))
    BY <2>1 DEF AttentiveNext, attentiveVars, vars, ledgerVars, NobodyLate
  <2>3. AttentiveWatcherInv'
    BY <2>1, <2>2, WatchedStep DEF AttentiveWatcherInv
  <2> QED
    BY <2>1, <2>3, ToldStep, FeeStep, DoneStep
<1>3. ASSUME RefinementInv, AttentiveWatcherInv, "watcher" \in attentive, mStartedAt <= tStartedAt,
             Mined("TakerPaymentSpend"), Mined("MakerPaymentRefund")
      PROVE  FALSE
  <2>1. SpendSeen("TakerPayment") /\ RefundSeen("MakerPayment")
    BY <1>3, Views, Payment2 DEF RefundSeen
  <2>2. Seen("TakerPayment")
    <3>1. ChainInv /\ Seen("TakerPaymentSpend")
      BY <1>3, <2>1, Views DEF RefinementInv, SwapChainInv
    <3> QED
      BY <3>1, TxNames, Views DEF ChainInv, Claim, ParentOf
  <2>3. Mined("MakerPaymentSpend") \/ now <= taker_payment_lock(tStartedAt) + 1
    BY <1>3, <2>1 DEF AttentiveWatcherInv, WatchedInTime
  <2> QED
    BY <1>3, <2>1, <2>2, <2>3, RefundIsLate, Deadlines
<1>4. RefinementInv /\ AttentiveWatcherInv
      => ("watcher" \in attentive /\ mStartedAt <= tStartedAt => TakerNeverLoses)
  BY <1>3 DEF TakerNeverLoses
<1> QED
  BY <1>1, <1>2, <1>4, AttentiveImplements, RefinementAlways, PTL DEF AttentiveSpec

=============================================================================
