------------------------------- MODULE SwapV2 -------------------------------
(***************************************************************************)
(* A Trading Protocol Upgrade swap: the two state machines over their      *)
(* chains and their topic.  Nodes that run keep up with the clock: their   *)
(* polling intervals (1 to 30 seconds) are small next to lock_duration, so *)
(* the clock moves only when no machine has anything to do and nothing     *)
(* waits to be mined.  Messages get lost; nodes die, and stay down for as  *)
(* long as they like.                                                      *)
(***************************************************************************)
EXTENDS MakerSwapV2, TakerSwapV2

vars == <<ledgerVars, makerVars, takerVars>>

\* Every variable of the chains and of both machines holds what its declaration says.
TypeOK == LedgerTypeOK /\ MakerTypeOK /\ TakerTypeOK

Init == LedgerInit /\ MakerInit /\ TakerInit

MakerWorks == MakerHandles(tStartedAt) /\ UNCHANGED takerVars
TakerWorks == TakerHandles(mStartedAt) /\ UNCHANGED makerVars

MakerStep ==
    /\ MakerStoreFails \/ MakerDies \/ MakerKickstart \/ MakerReceives(TakerSends)
    /\ UNCHANGED takerVars

TakerStep ==
    /\ TakerStoreFails \/ TakerDies \/ TakerKickstart \/ TakerReceives(MakerSends)
    /\ UNCHANGED makerVars

MineStep == (\E t \in Txs : Mine(t)) /\ UNCHANGED <<makerVars, takerVars>>

Tick ==
    /\ now < MaxTime
    /\ \A t \in Txs : tx[t] # "mempool"
    /\ now' = now + 1
    /\ UNCHANGED <<tx, forgotten, secrets, skip, reliable, makerVars, takerVars>>

\* What a machine does when no call fails.
MakerProgress == MakerWorks /\ mFaults' = mFaults
TakerProgress == TakerWorks /\ tFaults' = tFaults

\* Nobody is late.  The clock starts with the first of the two machines; the other may start
\* up to MaxStart later.
NobodyLate ==
    /\ mEv # "None" \/ tEv # "None"
    /\ reliable => ~MakerHasMail(TakerSends) /\ ~TakerHasMail(MakerSends)
    /\ MakerHasWork => mEv = "None" /\ mNext = "None" /\ now < MaxStart
    /\ TakerHasWork => tEv = "None" /\ tNext = "None" /\ now < MaxStart

Next ==
    \/ MakerWorks \/ TakerWorks \/ MakerStep \/ TakerStep \/ MineStep
    \/ NobodyLate /\ Tick

Spec == Init /\ [][Next]_vars

\* Machines that run go on; nodes are restarted; blocks and time go on.  Messages arrive if the
\* topic is reliable, and nothing is assumed of them if it is not.
FairSpec ==
    /\ Spec
    /\ WF_vars(MakerProgress) /\ WF_vars(MakerKickstart /\ UNCHANGED takerVars)
    /\ WF_vars(TakerProgress) /\ WF_vars(TakerKickstart /\ UNCHANGED makerVars)
    /\ WF_vars(MineStep) /\ WF_vars(NobodyLate /\ Tick)
    /\ WF_vars(reliable /\ MakerReceives(TakerSends) /\ UNCHANGED takerVars)
    /\ WF_vars(reliable /\ TakerReceives(MakerSends) /\ UNCHANGED makerVars)

-----------------------------------------------------------------------------
\* The maker waits for the taker's payment no longer than the taker waits for its spend, also
\* when the maker started later (MAX_STARTED_AT_DIFF is 60 seconds, LockTime 7800 or more).
DeadlinesApart == MaxStartedAtDiff + (LockTime * 2) \div 3 <= LockTime

MakerPaymentBack == Mined("MakerPaymentRefund") \/ Mined("MakerPaymentSecretRefund")

\* A taker whose node neither died nor failed a call does not lose both coins: the maker
\* never has the taker's payment (sign_and_broadcast_taker_payment_spend) and its own back,
\* whenever the maker's node dies.  The preimage must not come late: the maker looks at the
\* clock before it waits for the preimage, and not again before it spends.
TakerNeverLoses ==
    tFaults = 0 /\ (skip \/ reliable) => ~(Mined("TakerPaymentSpend") /\ MakerPaymentBack)

\* The taker's preimage is there when the maker starts to wait for it, or is not needed.
PreimageInTime == skip \/ (reliable /\ tFaults = 0)

\* The taker never has the maker's payment and its own coins back, whichever calls of the maker
\* fail and whenever it dies: its secret comes out so early that the block with its spend
\* leaves nothing to refund (taker_payment_conf_timeout against taker_payment_locktime).  A
\* preimage that comes late does lose the maker's coins: nothing looks at the clock after it,
\* and a taker that sees the spend in a mempool claims the maker's payment and refunds its own.
MakerNeverLoses ==
    PreimageInTime =>
        ~(Mined("MakerPaymentSpend") /\ (Mined("TakerPaymentRefund") \/ Mined("FundingRefund")))

\* A maker that takes its payment back with the taker's secret has not claimed the taker's
\* payment and never does, whatever fails.  Nor is there a payment, unless a call of the taker
\* failed: then the funding spend and the funding refund may be under way together
\* (sign_and_send_taker_funding_spend, refund_taker_funding_secret).
SecretRefundMeansNoPayment ==
    Mined("MakerPaymentSecretRefund") =>
        /\ ~Mined("TakerPaymentSpend")
        /\ tFaults = 0 => ~Mined("TakerPayment")

\* The funding is only turned into the taker's payment when the maker's payment cannot be
\* replaced any more (the policy of swap_v2_common.rs), and the maker's secret becomes public
\* only when the taker's payment cannot be.
PaidAgainstConfirmed ==
    /\ Seen("TakerPayment") => Mined("MakerPayment")
    /\ Seen("TakerPaymentSpend") => Mined("TakerPayment")

\* Whenever a machine runs, its amount is locked until the payment is sent and not longer, in
\* the first run and after every restart (on_event, on_kickstart_event).
LockedUntilSent ==
    /\ mUp /\ ~mDone /\ mNext = "None" /\ mEv \notin MakerLastStates =>
           (mLocked <=> mEv \in {"Initialized", "WaitingForTakerFunding", "TakerFundingReceived"})
    /\ tUp /\ ~tDone /\ tNext = "None" /\ tEv \notin TakerLastStates =>
           (tLocked <=> tEv \in {"Initialized", "Negotiated"})

\* A payment is only sent twice when its sender's node died, or could not store the event,
\* after it was sent.
ForgottenOnlyAfterFault ==
    forgotten["MakerPayment"] <= mFaults /\ forgotten["TakerFunding"] <= tFaults

\* "Swap has been aborted before maker payment was sent", "before taker payment was sent": so
\* it is for a machine none of whose calls failed and which was never restarted, as long as
\* the preimage is not late.  An aborted swap is never taken up again, so what it leaves on
\* chain stays there.
AbortedBeforePayment ==
    /\ mEv = "Aborted" /\ mFaults = 0 /\ PreimageInTime => ~Seen("MakerPayment")
    /\ tEv = "Aborted" /\ tFaults = 0 /\ (skip \/ reliable) => ~Seen("TakerPayment")

\* The state of the two parties' coins in SwapV2Contract.
mpState ==
    IF Mined("MakerPaymentSpend") THEN "claimed"
    ELSE IF Mined("MakerPaymentRefund") THEN "refunded"
    ELSE IF Mined("MakerPaymentSecretRefund") THEN "returned"
    ELSE IF Mined("MakerPayment") THEN "locked"
    ELSE IF Seen("MakerPayment") THEN "sent"
    ELSE "none"

tpState ==
    IF Mined("TakerPaymentSpend") THEN "claimed"
    ELSE IF Mined("TakerPaymentRefund") THEN "refunded"
    ELSE IF Mined("FundingRefund") THEN "reclaimed"
    ELSE IF Mined("TakerPayment") THEN "locked"
    ELSE IF Seen("TakerPayment") THEN "paid"
    ELSE IF Seen("TakerFunding") THEN "funded"
    ELSE "none"

Contract == INSTANCE SwapV2Contract WITH mp <- mpState, tp <- tpState

\* The two machines together implement SwapV2Contract: whichever calls fail, whenever the nodes
\* die and whatever a restarted machine does again (recreate_machine, kickstart).
ImplementsContract == Contract!Spec

TakerCoinsSettled ==
    \/ Mined("FundingRefund") \/ Mined("TakerPaymentSpend") \/ Mined("TakerPaymentRefund")

MakerCoinsSettled == Mined("MakerPaymentSpend") \/ MakerPaymentBack

\* A taker whose node neither dies nor fails a call gets its coins out of the swap, whatever
\* the maker does and whatever messages are lost.
TakerCoinsReturn == Mined("TakerFunding") ~> (TakerCoinsSettled \/ tFaults > 0)

\* Neither does the maker's payment stay behind when no node fails, provided that the taker's
\* preimage comes in time or is not needed.
MakerCoinsReturn ==
    Mined("MakerPayment") ~> (MakerCoinsSettled \/ mFaults > 0 \/ ~(reliable \/ skip))

\* A maker that "DidNotGetTakerPaymentSpendPreimage" has a MakerPaymentRefundReason: it takes its
\* payment back, as long as its node neither dies nor fails a call.
MakerRefundsInTheEnd == Mined("MakerPayment") ~> (MakerCoinsSettled \/ mFaults > 0)

=============================================================================
