---------------------------- MODULE TakerOrders -----------------------------
(***************************************************************************)
(* The takers' side of order matching: lp_auto_buy, the answers of the     *)
(* makers, and the end of a taker's order.  The mutex of my_taker_orders   *)
(* is held while an order is saved.                                        *)
(***************************************************************************)
EXTENDS OrderMessages

VARIABLES
    taker,     \* taker[r]: the TakerOrder and its match
    tFile,     \* tFile[r]: the order as saved
    tSaving,   \* tSaving[r]: the order has changed and is being saved
    pending,   \* pending[r]: pending_maker_reserved
    sleeping,  \* sleeping[r]: a handler waits 3 seconds before it looks at pending[r]
    coins,      \* coins[r]: the coins of the pair are active
    tDisabling, \* tDisabling[r]: what a call of disable_coin has still to do
    tDisabled,  \* tDisabled[r]: a coin was disabled while the node ran
    tStarting,  \* swaps for which lp_connected_alice was spawned and has not run yet
    tCrashes

tNodeVars == <<coins, tDisabling, tDisabled, tStarting, tCrashes>>
takerVars == <<taker, tFile, tSaving, pending, sleeping, tNodeVars>>

NoTakerOrder == [st |-> "none", action |-> "Buy", base |-> 0, rel |-> 0, match |-> {}]

TakerTypeOK ==
    /\ \A r \in Requests : DOMAIN taker[r] = DOMAIN NoTakerOrder
    /\ \A r \in Requests : taker[r].st \in {"none", "active", "gone"} /\ taker[r].match \subseteq Swaps
    /\ {tSaving, sleeping, coins} \subseteq [Requests -> BOOLEAN]
    /\ \A r \in Requests : \A m \in pending[r] : m.type = "reserved" /\ m.r = r
    /\ tDisabling \in [Requests -> {"no", "cancels", "removes"}]
    /\ tDisabled \in [Requests -> BOOLEAN] /\ tStarting \subseteq takerSwaps
    /\ tCrashes \in [Requests -> 0..MaxDisturbances]

TakerInit ==
    /\ taker = [r \in Requests |-> NoTakerOrder] /\ tFile = taker
    /\ tSaving = [r \in Requests |-> FALSE] /\ sleeping = tSaving
    /\ pending = [r \in Requests |-> {}] /\ coins = [r \in Requests |-> TRUE]
    /\ tDisabling = [r \in Requests |-> "no"] /\ tDisabled = [r \in Requests |-> FALSE]
    /\ tStarting = {} /\ tCrashes = [r \in Requests |-> 0]

-----------------------------------------------------------------------------
\* The mutex of my_taker_orders is free and holds the order.
Active(r) == taker[r].st = "active" /\ ~tSaving[r]

Saves(r) == tSaving' = [tSaving EXCEPT ![r] = TRUE]

\* The request is sent before the order is saved: without an order, when that fails.
lp_auto_buy(r) ==
    /\ r \in cast.who /\ taker[r].st = "none" /\ coins[r]
    /\ \E want \in Wants \cap cast.wants, st \in {"active", "gone"} :
          taker' = [taker EXCEPT ![r] = [st |-> st, action |-> want.action,
                                         base |-> want.base, rel |-> want.rel, match |-> {}]]
    /\ Broadcast({TakerRequest(r, o) : o \in Orders \cap cast.who})
    /\ tFile' = [tFile EXCEPT ![r] = taker'[r]]
    /\ UNCHANGED <<tSaving, pending, sleeping, tNodeVars, cast, disturbances, makerSwaps, takerSwaps>>

\* The first answer starts a handler that waits for others; they are only put aside.
MakerReservedArrives(r) ==
    /\ ~tSaving[r]
    /\ \E m \in net :
          /\ m.type = "reserved" /\ m.r = r /\ Receive(m)
          /\ IF taker[r].st = "active"
             THEN /\ pending' = [pending EXCEPT ![r] = @ \cup {m}]
                  /\ sleeping' = [sleeping EXCEPT ![r] = @ \/ pending[r] = {}]
             ELSE UNCHANGED <<pending, sleeping>>
    /\ UNCHANGED <<taker, tFile, tSaving, tNodeVars, cast, disturbances, makerSwaps, takerSwaps>>

\* match_by is Any.
match_reserved(ord, m) ==
    IF ord.action = "Buy" THEN ord.base = m.base /\ m.rel <= ord.rel
                          ELSE ord.base = m.rel /\ ord.rel <= m.base

\* The messages in pending[r] that come first when they are sorted by price.
Cheapest(msgs) == {m \in msgs : \A n \in msgs : m.rel * n.base <= n.rel * m.base}

\* Slip: an order that is matched already is matched again.
Answerable_again(r) == {m \in pending[r] : match_reserved(taker[r], m)}

Answerable(r) == {m \in pending[r] : match_reserved(taker[r], m) /\ taker[r].match = {}}

\* Slip: the messages are taken out only when one of them fits.
Processed_if_matched(r) == IF Answerable(r) = {} THEN pending[r] ELSE {}

Processed(r) == {}

\* The handler wakes up.  If the order is gone, or a coin is not active, it leaves the
\* messages where they are.
process_maker_reserved(r) ==
    /\ sleeping[r] /\ ~tSaving[r]
    /\ sleeping' = [sleeping EXCEPT ![r] = FALSE]
    /\ \/ /\ ~Active(r) \/ ~coins[r]
          /\ UNCHANGED <<taker, tSaving, pending, net>>
       \/ /\ Active(r) /\ coins[r]
          /\ pending' = [pending EXCEPT ![r] = Processed(r)]
          /\ \/ \E m \in Cheapest(Answerable(r)) :
                   /\ taker' = [taker EXCEPT ![r].match = @ \cup {Swap(r, m.o, m.base, m.rel)}]
                   /\ Broadcast({TakerConnect(r, m.o)})
                   /\ Saves(r)
             \/ Answerable(r) = {} /\ UNCHANGED <<taker, tSaving, net>>
    /\ UNCHANGED <<tFile, tNodeVars, cast, disturbances, makerSwaps, takerSwaps>>

\* Slip: the answer is not compared with the maker that was chosen.
AnyChosenSwap(r, o) == taker[r].match

ChosenSwap(r, o) == {s \in taker[r].match : s.o = o}

\* A task of its own looks the coins up, later; without them it ends and there is no swap.
lp_connected_alice(r) ==
    /\ \E s \in tStarting :
          /\ s.r = r
          /\ tStarting' = tStarting \ {s}
          /\ takerSwaps' = IF coins[r] THEN takerSwaps ELSE takerSwaps \ {s}
    /\ UNCHANGED <<taker, tFile, tSaving, pending, sleeping, coins, tDisabling, tDisabled, tCrashes,
                   cast, net, makerSwaps, disturbances>>

\* The task of the swap is spawned and the order removed, if the maker is the chosen one.
process_maker_connected(r) ==
    /\ ~tSaving[r]
    /\ \E o \in Orders :
          /\ Receive(MakerConnected(r, o))
          /\ \/ /\ Active(r) /\ ChosenSwap(r, o) # {}
                /\ tStarting' = tStarting \cup ChosenSwap(r, o)
                /\ takerSwaps' = takerSwaps \cup ChosenSwap(r, o)
                /\ taker' = [taker EXCEPT ![r].st = "gone"]
                /\ Saves(r)
             \/ /\ ~Active(r) \/ ChosenSwap(r, o) = {}
                /\ UNCHANGED <<taker, tSaving, tStarting, takerSwaps>>
    /\ UNCHANGED <<tFile, pending, sleeping, coins, tDisabling, tDisabled, tCrashes,
                   cast, disturbances, makerSwaps>>

\* Slip: an order that has chosen a maker waits for it.
unmatched_taker_orders_time_out(r) ==
    /\ Active(r) /\ taker[r].match = {}
    /\ taker' = [taker EXCEPT ![r].st = "gone"] /\ Saves(r)
    /\ UNCHANGED <<tFile, pending, sleeping, tNodeVars, netVars>>

\* A timed out order is deleted, or becomes a maker order of the reversed pair.
handle_timed_out_taker_orders(r) ==
    /\ Active(r)
    /\ taker' = [taker EXCEPT ![r].st = "gone"] /\ Saves(r)
    /\ UNCHANGED <<tFile, pending, sleeping, tNodeVars, netVars>>

CancelTakerOrder(r) ==
    /\ Active(r) /\ taker[r].match = {}
    /\ taker' = [taker EXCEPT ![r].st = "gone"] /\ Saves(r)
    /\ UNCHANGED <<tFile, pending, sleeping, tNodeVars, netVars>>

\* update_active_taker_order or delete_my_taker_order ends.
TakerOrderSaved(r) ==
    /\ tSaving[r]
    /\ tFile' = [tFile EXCEPT ![r] = taker[r]]
    /\ tSaving' = [tSaving EXCEPT ![r] = FALSE]
    /\ UNCHANGED <<taker, pending, sleeping, tNodeVars, netVars>>

\* orders_kick_start runs before the user activates any coin.
TakerRestarts(r) ==
    /\ taker[r].st # "none"
    /\ Disturbed(r) /\ tCrashes' = [tCrashes EXCEPT ![r] = @ + 1]
    /\ taker' = [taker EXCEPT ![r] = tFile[r]]
    /\ tSaving' = [tSaving EXCEPT ![r] = FALSE]
    /\ pending' = [pending EXCEPT ![r] = {}] /\ sleeping' = [sleeping EXCEPT ![r] = FALSE]
    /\ coins' = [coins EXCEPT ![r] = FALSE] /\ tDisabling' = [tDisabling EXCEPT ![r] = "no"]
    /\ tStarting' = {s \in tStarting : s.r # r}
    /\ takerSwaps' = {s \in takerSwaps : s.r = r => s \notin tStarting}
    /\ UNCHANGED <<tFile, tDisabled, cast, net, makerSwaps>>

TakerActivatesCoins(r) ==
    /\ ~coins[r] /\ coins' = [coins EXCEPT ![r] = TRUE]
    /\ UNCHANGED <<taker, tFile, tSaving, pending, sleeping, tDisabling, tDisabled, tStarting, tCrashes,
                   netVars>>

\* disable_coin begins with a check: no order with a match, and no active swap (that of the
\* order may be over by then, and one that has not looked up its coins is not active yet).
TakerDisablesCoin(r) ==
    /\ Disturbed(r)
    /\ coins[r] /\ tDisabling[r] = "no"
    /\ ~tSaving[r] /\ (taker[r].st = "active" => taker[r].match = {})
    /\ tDisabling' = [tDisabling EXCEPT ![r] = "cancels"]
    /\ UNCHANGED <<taker, tFile, tSaving, pending, sleeping, coins, tDisabled, tStarting, tCrashes,
                   messageVars>>

\* It calls cancel_orders_by, which passes over an order that was matched since.
TakerDisableCancels(r) ==
    /\ tDisabling[r] = "cancels" /\ ~tSaving[r]
    /\ tDisabling' = [tDisabling EXCEPT ![r] = "removes"]
    /\ \/ Active(r) /\ taker[r].match = {} /\ taker' = [taker EXCEPT ![r].st = "gone"] /\ Saves(r)
       \/ ~(Active(r) /\ taker[r].match = {}) /\ UNCHANGED <<taker, tSaving>>
    /\ UNCHANGED <<tFile, pending, sleeping, coins, tDisabled, tStarting, tCrashes, netVars>>

\* It removes the coin once the order's file is deleted.
TakerRemovesCoin(r) ==
    /\ tDisabling[r] = "removes" /\ ~tSaving[r]
    /\ tDisabling' = [tDisabling EXCEPT ![r] = "no"]
    /\ coins' = [coins EXCEPT ![r] = FALSE] /\ tDisabled' = [tDisabled EXCEPT ![r] = TRUE]
    /\ UNCHANGED <<taker, tFile, tSaving, pending, sleeping, tStarting, tCrashes, netVars>>

TakerHandles(r) ==
    \/ lp_auto_buy(r) \/ MakerReservedArrives(r) \/ process_maker_reserved(r)
    \/ process_maker_connected(r) \/ lp_connected_alice(r) \/ handle_timed_out_taker_orders(r) \/ CancelTakerOrder(r)
    \/ TakerOrderSaved(r) \/ TakerRestarts(r) \/ TakerActivatesCoins(r)
    \/ TakerDisablesCoin(r) \/ TakerDisableCancels(r) \/ TakerRemovesCoin(r)

=============================================================================
