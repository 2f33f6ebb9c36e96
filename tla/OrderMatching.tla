---------------------------- MODULE OrderMatching ---------------------------
(***************************************************************************)
(* Makers and takers of one pair: every interleaving of their handlers,    *)
(* late and lost messages, and nodes that die and are started again.       *)
(***************************************************************************)
EXTENDS MakerOrders, TakerOrders

vars == <<makerVars, takerVars, netVars>>

Init == NetInit /\ MakerInit /\ TakerInit

MatchStep(r, o) ==
    \/ TakerRequestArrives(r, o) \/ process_taker_request(r, o, taker[r])
    \/ TakerConnectArrives(r, o) \/ process_taker_connect(r, o)

LoopStep(o) ==
    \/ TimeoutsDue(o) \/ handle_timed_out_maker_matches(o)
    \/ check_balance_for_maker_orders(o)
    \/ drop_expired_entries(o) \/ AnnounceCancels(o) \/ RemovedOrderDeleted(o)
    \/ \E v \in Balances : Announce(o, v)

StorageStep(o) == update_active_maker_order(o) \/ UpdateSaved(o) \/ delete_my_maker_order(o)

UserStep(o) ==
    \/ create_maker_order(o)
    \/ UpdateBegins(o) \/ UpdateLooksUpAgain(o) \/ update_maker_order(o)
    \/ cancel_order(o) \/ cancel_previous_maker_orders(o)
    \/ cancel_orders_by(o) \/ CancelByRemoves(o) \/ CancelByDeletes(o)

NodeStep(o) ==
    \/ lp_connect_start_bob(o)
    \/ disable_coin(o) \/ DisableCancels(o) \/ remove_coin(o)
    \/ MakerRestarts(o) \/ MakerActivatesCoins(o)

MakerStep ==
    /\ \E o \in Orders :
          \/ \E r \in Requests : MatchStep(r, o)
          \/ LoopStep(o) \/ StorageStep(o) \/ UserStep(o) \/ NodeStep(o)
          \/ \E v \in Balances : balance_updated(o, v)
    /\ UNCHANGED takerVars

TakerStep == (\E r \in Requests : TakerHandles(r)) /\ UNCHANGED makerVars

Next == MakerStep \/ TakerStep

Spec == Init /\ [][Next]_vars

\* The loops of both nodes go on, files are written, a handler that waits for a mutex gets it.
\* Nothing is assumed of messages and users.
FairSpec ==
    /\ Spec
    /\ \A o \in Orders :
          /\ WF_vars(StorageStep(o) /\ UNCHANGED takerVars)
          /\ WF_vars(TimeoutsDue(o) /\ UNCHANGED takerVars)
          /\ SF_vars(handle_timed_out_maker_matches(o) /\ order'[o] # order[o] /\ UNCHANGED takerVars)
          /\ SF_vars(check_balance_for_maker_orders(o) /\ UNCHANGED takerVars)
    /\ \A r \in Requests :
          /\ WF_vars(TakerOrderSaved(r) /\ UNCHANGED makerVars)
          /\ WF_vars(handle_timed_out_taker_orders(r) /\ UNCHANGED makerVars)

-----------------------------------------------------------------------------
\* Every variable of both sides and of the network holds what its declaration says.
TypeOK == NetTypeOK /\ MakerTypeOK /\ TakerTypeOK

StartedAmount(o) == MapThenSumSet(LAMBDA s : s.base, {s \in makerSwaps : s.o = o})

\* An order is never sold twice: the swaps it has started and the amounts it has reserved fit
\* into max_base_vol, whatever times out and however max_base_vol changes, unless the node
\* died before it had saved a match.
NotOversold ==
    \A o \in Orders : inMap[o] =>
        /\ reserved_amount(order[o]) <= order[o].max
        /\ mCrashes[o] = 0 => StartedAmount(o) <= reserved_amount(order[o])

\* The node of o has neither died nor lost a coin to disable_coin.
Steady(o) == mCrashes[o] = 0 /\ ~mDisabled[o]

\* A taker never starts a swap that its maker has not started, and both start it with the
\* same amounts, which satisfy the request, whatever has changed in the order since.  A maker
\* that says "connected" may find no coins and start nothing only if its node was restarted,
\* or disable_coin removed them: it may have passed over a match made after its check.
SidesAgree ==
    /\ \A s \in takerSwaps : s \in makerSwaps \/ ~Steady(s.o)
    /\ \A s \in takerSwaps : match_reserved(taker[s.r], s)

\* A request starts one swap, whoever answers it and whenever; a second maker may start one
\* only because the taker died before it had saved its choice.
OneSwapPerRequest ==
    \A r \in Requests :
        /\ Cardinality({s \in takerSwaps : s.r = r}) <= 1
        /\ Cardinality({s \in makerSwaps : s.r = r}) <= 1 + tCrashes[r]

\* "only one instance will stay running ... and processes all pending MakerReserved messages":
\* no answer to an order is put aside with nobody left to look at it, unless the node was
\* restarted or disable_coin removed a coin of the pair: the handler then leaves them there.
PendingIsProcessed ==
    \A r \in Requests :
        taker[r].st = "active" /\ pending[r] # {} /\ tCrashes[r] = 0 /\ ~tDisabled[r]
            => sleeping[r]

\* An order that cancel_order reported as cancelled does not come back, not even after a
\* restart, if no handler was waiting for its mutex.
CancelledForGood ==
    \A o \in Orders : cancelled[o] = "idle" => ~inMap[o] /\ file[o] = NoOrder

\* What a maker has reserved for a taker is sold or released, whatever becomes of the taker.
ReservedIsReleased ==
    \A o \in Orders, r \in Requests :
        (inMap[o] /\ order[o].matches[r].st = "reserved")
            ~> ~(inMap[o] /\ order[o].matches[r].st = "reserved")

\* A taker's order ends, also when the maker it chose never answers.
TakerOrderEnds == \A r \in Requests : taker[r].st = "active" ~> taker[r].st # "active"

=============================================================================
