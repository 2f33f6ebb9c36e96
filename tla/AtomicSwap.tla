----------------------------- MODULE AtomicSwap -----------------------------
(***************************************************************************)
(* One legacy swap: the maker, the taker and a watcher, over the same two  *)
(* chains, the same clock and the same P2P topic.                          *)
(***************************************************************************)
EXTENDS MakerSwap, TakerSwap, SwapWatcher

vars == <<ledgerVars, makerVars, takerVars, wState>>

Init == LedgerInit /\ MakerInit /\ TakerInit /\ WatcherInit

MakerStep   == MakerNext(tStartedAt) /\ UNCHANGED <<takerVars, wState>>
TakerStep   == TakerNext(mStartedAt) /\ UNCHANGED <<makerVars, wState>>
WatcherStep == WatcherNext(tStartedAt) /\ UNCHANGED <<makerVars, takerVars>>
MineStep    == (\E t \in Txs : Mine(t)) /\ UNCHANGED <<makerVars, takerVars, wState>>
EvictStep   == (\E t \in Txs : Evict(t)) /\ UNCHANGED <<makerVars, takerVars, wState>>
TickStep    == Tick /\ UNCHANGED <<makerVars, takerVars, wState>>

\* Nobody has anything left to do for this swap.
SwapOver ==
    /\ mUp /\ mQueue = <<>> /\ mCmd \in {"None", "Start"}
    /\ tUp /\ tQueue = <<>> /\ tCmd \in Stuck \cup {"None", "Start"}

Terminating == SwapOver /\ now = MaxTime /\ UNCHANGED vars

Next ==
    \/ MakerStep \/ TakerStep \/ WatcherStep
    \/ MineStep \/ EvictStep \/ TickStep
    \/ Terminating

Spec == Init /\ [][Next]_vars

-----------------------------------------------------------------------------
(* Safety.                                                                 *)

\* Every variable of the three parties and of the ledger holds what its declaration says.
TypeOK == LedgerTypeOK /\ MakerTypeOK /\ TakerTypeOK /\ WatcherTypeOK

\* The maker never ends up without both coins: the taker, or its watcher, never has both the
\* maker's payment (spend_maker_payment) and its own back (refund_taker_payment).  This is
\* what the order of the deadlines of lp_swap.rs is for.
MakerNeverLoses == ~(Mined("MakerPaymentSpend") /\ Mined("TakerPaymentRefund"))

\* The maker reveals the secret (spend_taker_payment) only once the taker's payment has
\* confirmed, across restarts and whatever the mempool drops.
SecretAfterConfirmation == SpendSeen("TakerPayment") => Mined("TakerPayment")

\* The taker sends its payment only once the maker's has confirmed.
TakerPaysAfterConfirmation == sent["TakerPayment"] > 0 => Mined("MakerPayment")

\* A node that dies after it sent a payment and before it saved MakerPaymentSent or
\* TakerPaymentSent does not pay a second time when it is restarted.
PaymentsSentOnce == \A p \in Payments : sent[p] <= 1

\* What a maker that kept running does next is what MakerSavedEvent::get_command would make
\* it do after a restart at this point.
MakerRestoreAgrees ==
    mUp /\ mQueue = <<>> /\ "Started" \in mSaved => mCmd = MakerGetCommand(mLast)

\* Whatever interrupted the swap, the events that a maker's handler unwraps data of have been
\* applied when the handler runs.
MakerHasDataForCommand ==
    mUp /\ mQueue = <<>> =>
        /\ mCmd \in {"WaitForTakerPayment", "RefundMakerPayment"} => "MakerPaymentSent" \in mSaved
        /\ mCmd \in {"ValidateTakerPayment", "SpendTakerPayment"}
               => "TakerPaymentReceived" \in mSaved
        /\ mCmd = "ConfirmTakerPaymentSpend" => "TakerPaymentSpent" \in mSaved

\* The same for the taker, whose commands may also come from taker_restart.rs; in
\* particular the secret is in memory whenever the maker's payment is to be spent.
TakerHasDataForCommand ==
    tUp /\ tQueue = <<>> =>
        /\ tCmd \in {"WaitForTakerPaymentSpend", "RefundTakerPayment"}
               => "TakerPaymentSent" \in tSaved
        /\ tCmd \in {"SendTakerPayment", "SpendMakerPayment"}
               => "MakerPaymentReceived" \in tSaved
        /\ tCmd = "SpendMakerPayment" => tSecret
        /\ tCmd = "ConfirmMakerPaymentSpend"
               => tSaved \cap {"MakerPaymentSpent", "MakerPaymentSpentByWatcher"} # {}

\* A maker's swap that is over, with the maker's payment still locked and nothing received,
\* can be recovered: recover_funds does not refuse it, and is_recoverable says so.
MakerFundsRecoverable ==
    (/\ mUp /\ mQueue = <<>> /\ mCmd = "None" /\ "Started" \in mSaved
     /\ Mined("MakerPayment") /\ ~SpendSeen("MakerPayment") /\ ~RefundSeen("MakerPayment")
     /\ ~SpendSeen("TakerPayment"))
        => ~MakerNotRecoverable /\ MakerIsRecoverable

\* The same for a taker's swap that is over with the taker's payment still locked.
TakerFundsRecoverable ==
    (/\ tUp /\ tQueue = <<>> /\ tCmd = "None" /\ "Started" \in tSaved
     /\ Mined("TakerPayment") /\ ~SpendSeen("TakerPayment") /\ ~RefundSeen("TakerPayment"))
        => ~TakerNotRecoverable /\ TakerIsRecoverable

\* run_taker_swap "Panics in case of command or event apply fails ... possible only if there's
\* developer error": no handler panics, whenever the node is stopped and restarted.
TakerNeverPanics == tCmd # "Panicked"

-----------------------------------------------------------------------------
(* The swap as SwapContract sees it.  The secret is public as soon as the  *)
(* spend of the taker's payment is broadcast.                              *)

mpState ==
    IF Mined("MakerPaymentSpend") THEN "claimed"
    ELSE IF Mined("MakerPaymentRefund") THEN "refunded"
    ELSE IF Mined("MakerPayment") THEN "locked"
    ELSE "none"

tpState ==
    IF SpendSeen("TakerPayment") THEN "claimed"
    ELSE IF Mined("TakerPaymentRefund") THEN "refunded"
    ELSE IF Mined("TakerPayment") THEN "locked"
    ELSE "none"

Contract == INSTANCE SwapContract WITH mp <- mpState, tp <- tpState

\* The three programs together implement SwapContract.
ImplementsContract == Contract!Spec

-----------------------------------------------------------------------------
(* The inductive invariant behind MakerNeverLoses.                         *)

\* Blocks come faster than deadlines, and the margin between the maker's last moment to
\* spend and the taker's first to refund is at least the accepted difference of clocks.
SafeParameters ==
    /\ PromptChain
    /\ MaxStartedAtDiff + (LockTime * 4) \div 5 <= LockTime

MakerRemembers(e) == e \in mSaved \/ \E i \in 1..Len(mQueue) : mQueue[i] = e
TakerRemembers(e) == e \in tSaved \/ \E i \in 1..Len(tQueue) : tQueue[i] = e

\* Commands that only run once negotiation has succeeded, and the events they resume from.
PostCommands == MakerSwapCommand \ {"Start", "Negotiate", "Finish"}
PostEvents   == {e \in MakerSwapEvent : MakerGetCommand(e) \in PostCommands}

\* The start times are settled and close to each other.
StartsAgree ==
    /\ AbsDiff(mStartedAt, tStartedAt) <= MaxStartedAtDiff
    /\ mCmd # "Start" /\ tCmd # "Start"

InvNegotiated ==
    /\ mCmd \in PostCommands => StartsAgree
    /\ \A e \in PostEvents : MakerRemembers(e) => StartsAgree
    /\ mLast # "None" => mLast \in mSaved

InvTakerStarted ==
    (\/ tSaved # {} \/ tQueue # <<>> \/ wState # "idle"
     \/ "NegotiationReply" \in net \/ "TakerSwapWatcherMsg" \in net)
        => tCmd # "Start"

InvConfirmed ==
    /\ mCmd = "SpendTakerPayment" => Mined("TakerPayment")
    /\ MakerRemembers("TakerPaymentValidatedAndConfirmed") => Mined("TakerPayment")
    /\ SecretAfterConfirmation

\* Nobody but the maker knows the secret before TakerPaymentSpend is broadcast.
InvSecret ==
    (\/ tSecret \/ TakerRemembers("TakerPaymentSpent")
     \/ wState \in {"WaitForMakerPaymentSpend", "SpendMakerPayment"}
     \/ SpendSeen("MakerPayment"))
        => SpendSeen("TakerPayment")

\* Spend and refund of the taker's payment never compete.
InvTiming ==
    /\ tx["TakerPaymentSpend"] = "mempool"
           => tCmd # "Start" /\ now <= taker_payment_lock(tStartedAt)
    /\ Seen("TakerPaymentRefund")
           => tCmd # "Start" /\ now > taker_payment_lock(tStartedAt)
    /\ Mined("TakerPaymentSpend") => ~Seen("TakerPaymentRefund")

IInv ==
    /\ TypeOK /\ SafeParameters
    /\ InvNegotiated /\ InvTakerStarted /\ InvConfirmed /\ InvSecret /\ InvTiming

\* The inductive invariant behind MakerRestoreAgrees: the command a handler returns is the one
\* its last event resumes from.
RestoreInv ==
    /\ mUp /\ mQueue # <<>> => mCmd = MakerGetCommand(mQueue[Len(mQueue)])
    /\ mUp /\ mQueue = <<>> /\ "Started" \in mSaved => mCmd = MakerGetCommand(mLast)
    /\ ~mUp => mQueue = <<>>

=============================================================================
