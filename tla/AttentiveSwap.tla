--------------------------- MODULE AttentiveSwap ----------------------------
(***************************************************************************)
(* The swap under assumptions on how promptly nodes run.  An attentive     *)
(* party takes every step it can take before the clock moves: its polling  *)
(* intervals (10 to 600 seconds) are small next to the lock time.  The     *)
(* others run at any speed.  An attentive party that died is restarted     *)
(* before the clock moves.                                                 *)
(***************************************************************************)
EXTENDS AtomicSwap

CONSTANT AttentiveChoices
ASSUME AttentiveAssumption == AttentiveChoices \subseteq SUBSET {"taker", "watcher"}

VARIABLE attentive  \* who is attentive, fixed

attentiveVars == <<vars, attentive>>

NobodyLate ==
    /\ "taker" \in attentive => ~TakerHasWork
    /\ "watcher" \in attentive => ~WatcherHasWork(tStartedAt)

AttentiveInit == Init /\ attentive \in AttentiveChoices

AttentiveNext == Next /\ (now' # now => NobodyLate) /\ UNCHANGED attentive

AttentiveSpec == AttentiveInit /\ [][AttentiveNext]_attentiveVars

\* Nodes that run, or are restarted after they died, keep running; blocks keep coming and
\* time keeps passing.
FairSpec ==
    /\ AttentiveSpec
    /\ WF_vars((MakerSaveEvent \/ MakerHandles(tStartedAt)) /\ UNCHANGED <<takerVars, wState>>)
    /\ WF_vars(MakerRestart /\ UNCHANGED <<takerVars, wState>>)
    /\ WF_vars((TakerSaveEvent \/ TakerHandles(mStartedAt)) /\ UNCHANGED <<makerVars, wState>>)
    /\ WF_vars(TakerRestart /\ UNCHANGED <<makerVars, wState>>)
    /\ WF_vars(MineStep)
    /\ WF_vars(TickStep)

-----------------------------------------------------------------------------
\* The taker never ends up without both coins: the maker never has both the taker's payment
\* (spend_taker_payment) and its own back (refund_maker_payment).  It takes a maker that
\* died between sending the spend and saving TakerPaymentSpent, and a taker, or a watcher,
\* that finds the secret before the maker's payment can be refunded.
TakerNeverLoses == ~(Mined("TakerPaymentSpend") /\ Mined("MakerPaymentRefund"))

\* No coin stays locked: every payment is in the end spent or refunded, with no call of
\* recover_funds, however often the nodes die.
PaymentsResolved ==
    \A p \in Payments : Mined(p) ~> (Mined(SpendOf(p)) \/ Mined(RefundOf(p)))

\* run_maker_swap drives a swap that it has saved to completion.
MakerFinishes == "Started" \in mSaved ~> "Finished" \in mSaved

=============================================================================
