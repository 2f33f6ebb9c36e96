---------------------------- MODULE MakerOrders -----------------------------
(***************************************************************************)
(* The makers' side of order matching: lp_ordermatch.rs and                *)
(* my_orders_storage.rs.  A handler looks its order up in the map          *)
(* (maker_orders_ctx) and waits for the order's own mutex; meanwhile the   *)
(* order may be removed from the map, which does not stop the handler.     *)
(* The mutex is held while the order's file is written or deleted.         *)
(*                                                                         *)
(* ORDER_MATCH_TIMEOUT is long next to a step: a match that is not         *)
(* connected may count as old at any later time.                           *)
(***************************************************************************)
EXTENDS OrderMessages

VARIABLES
    inMap,      \* inMap[o]: o is in MakerOrdersContext::orders
    order,      \* order[o]: the MakerOrder behind the mutex
    mutex,      \* mutex[o]: "free", or what its holder waits for
    waiting,    \* waiting[o]: handlers that have o and wait for its mutex
    before,     \* before[o]: update_maker_order's order_before_update
    file,       \* file[o]: the order as saved
    advert,     \* advert[o]: the volume in the order book, 0 when the order is not there
    cancelled,  \* cancelled[o]: "idle" or "raced" when cancel_order has succeeded
    mCoins,     \* mCoins[o]: the coins of the pair are active at the node of o
    mDisabling, \* mDisabling[o]: what a call of disable_coin has still to do
    mDisabled,  \* mDisabled[o]: a coin was disabled while the node ran
    mStarting,  \* swaps for which lp_connect_start_bob was spawned and has not run yet
    mCrashes    \* mCrashes[o]: how often that node died

nodeVars  == <<mCoins, mDisabling, mDisabled, mStarting, mCrashes>>
makerVars == <<inMap, order, mutex, waiting, before, file, advert, cancelled, nodeVars>>

NoMatch == [st |-> "none", base |-> 0, rel |-> 0]
NoOrder == [max |-> 0, price |-> 0, matches |-> [r \in Requests |-> NoMatch]]

MakerMatches == [st : {"none", "reserved", "connected"}, base : Nat, rel : Nat]
MakerOrder   == [max : Nat, price : Nat, matches : [Requests -> MakerMatches]]

Handlers ==
    [kind : {"request", "connect"}, r : Requests]
        \cup [kind : {"timeout", "checks", "update", "cancel_by", "delete", "to_cancel", "removed"}]

MakerTypeOK ==
    /\ inMap \in [Orders -> BOOLEAN]
    /\ order \in [Orders -> MakerOrder] /\ before \in [Orders -> MakerOrder]
    /\ file \in [Orders -> MakerOrder]
    /\ mutex \in [Orders -> {"free", "save", "update", "delete", "cancel"}]
    /\ \A o \in Orders : waiting[o] \subseteq Handlers
    /\ advert \in [Orders -> Nat]
    /\ cancelled \in [Orders -> {"no", "idle", "raced"}]
    /\ mCoins \in [Orders -> BOOLEAN] /\ mCrashes \in [Orders -> 0..MaxDisturbances]
    /\ mDisabling \in [Orders -> {"no", "cancels", "removes"}]
    /\ mDisabled \in [Orders -> BOOLEAN] /\ mStarting \subseteq makerSwaps

MakerInit ==
    /\ inMap = [o \in Orders |-> FALSE] /\ order = [o \in Orders |-> NoOrder]
    /\ mutex = [o \in Orders |-> "free"] /\ waiting = [o \in Orders |-> {}]
    /\ before = [o \in Orders |-> NoOrder] /\ file = [o \in Orders |-> NoOrder]
    /\ advert = [o \in Orders |-> 0] /\ cancelled = [o \in Orders |-> "no"]
    /\ mCoins = [o \in Orders |-> TRUE] /\ mCrashes = [o \in Orders |-> 0]
    /\ mDisabling = [o \in Orders |-> "no"] /\ mDisabled = [o \in Orders |-> FALSE]
    /\ mStarting = {}

-----------------------------------------------------------------------------
Matched(ord, st) == {r \in Requests : ord.matches[r].st \in st}

reserved_amount(ord) ==
    MapThenSumSet(LAMBDA r : ord.matches[r].base, Matched(ord, {"reserved", "connected"}))

available_amount(ord) == ord.max - reserved_amount(ord)

has_ongoing_matches(ord) == Matched(ord, {"reserved"}) # {}

\* What the request gets: the taker's amount at the maker's price.
MatchedAmounts(ord, req) ==
    IF req.action = "Buy"
    THEN [base |-> req.base, rel |-> req.base * ord.price]
    ELSE [base |-> req.base \div ord.price, rel |-> req.base]

\* Slip: the amounts of earlier matches are not set aside.
match_with_whole_volume(ord, req) ==
    LET m == MatchedAmounts(ord, req) IN
    /\ m.base <= ord.max /\ m.base >= MinVolume
    /\ IF req.action = "Buy" THEN req.rel >= ord.price * req.base
                             ELSE req.base >= ord.price * req.rel

\* The taker's price is at least the maker's, compared without division.
match_with_request(ord, req) ==
    LET m == MatchedAmounts(ord, req) IN
    /\ m.base <= available_amount(ord) /\ m.base >= MinVolume
    /\ IF req.action = "Buy" THEN req.rel >= ord.price * req.base
                             ELSE req.base >= ord.price * req.rel

-----------------------------------------------------------------------------
\* o leaves the map and the order book; its file is deleted under the mutex.
RemoveOrder(o, holder) ==
    /\ inMap' = [inMap EXCEPT ![o] = FALSE]
    /\ advert' = [advert EXCEPT ![o] = 0]
    /\ mutex' = [mutex EXCEPT ![o] = holder]

\* The order book is told the volume of an order that it holds.
Advertise(o, ord) ==
    advert' = [advert EXCEPT ![o] = IF @ = 0 THEN 0 ELSE available_amount(ord)]

create_maker_order(o) ==
    /\ o \in cast.who /\ order[o] = NoOrder /\ mCoins[o]
    /\ \E offer \in Offers \cap cast.offers :
          /\ offer.max >= MinVolume
          /\ LET ord == [NoOrder EXCEPT !.max = offer.max, !.price = offer.price] IN
             /\ file' = [file EXCEPT ![o] = ord]
             /\ order' = [order EXCEPT ![o] = ord]
             /\ advert' = [advert EXCEPT ![o] = ord.max]
    /\ inMap' = [inMap EXCEPT ![o] = TRUE]
    /\ UNCHANGED <<mutex, waiting, before, cancelled, nodeVars, netVars>>

\* Slip: an order that was removed is still found.
EntersRemoved(o, h) ==
    /\ order[o] # NoOrder
    /\ waiting' = [waiting EXCEPT ![o] = @ \cup {h}]

\* A handler gets the order out of the map.
Enters(o, h) ==
    /\ inMap[o]
    /\ waiting' = [waiting EXCEPT ![o] = @ \cup {h}]

\* ... and has waited for its mutex.
Locks(o, h) ==
    /\ mutex[o] = "free" /\ h \in waiting[o]
    /\ waiting' = [waiting EXCEPT ![o] = @ \ {h}]

TakerRequestArrives(r, o) ==
    /\ Receive(TakerRequest(r, o))
    /\ \/ Enters(o, [kind |-> "request", r |-> r])
       \/ ~inMap[o] /\ UNCHANGED waiting
    /\ UNCHANGED <<inMap, order, mutex, before, file, advert, cancelled, nodeVars,
                   cast, disturbances, makerSwaps, takerSwaps>>

\* A request that fits, has not been matched before, and finds the coins active.
Reservable(r, o, req) ==
    match_with_request(order[o], req) /\ order[o].matches[r] = NoMatch /\ mCoins[o]

\* The request is answered and its amount reserved, before anything is saved.
process_taker_request(r, o, req) ==
    /\ Locks(o, [kind |-> "request", r |-> r])
    /\ \/ /\ Reservable(r, o, req)
          /\ LET m == MatchedAmounts(order[o], req) IN
             /\ order' = [order EXCEPT ![o].matches[r] =
                                [st |-> "reserved", base |-> m.base, rel |-> m.rel]]
             /\ Broadcast({MakerReserved(r, o, m.base, m.rel)})
          /\ mutex' = [mutex EXCEPT ![o] = "save"]
       \/ /\ ~Reservable(r, o, req)
          /\ UNCHANGED <<order, mutex, net>>
    /\ UNCHANGED <<inMap, before, file, advert, cancelled, nodeVars,
                   cast, disturbances, makerSwaps, takerSwaps>>

TakerConnectArrives(r, o) ==
    /\ Receive(TakerConnect(r, o))
    /\ \/ Enters(o, [kind |-> "connect", r |-> r])
       \/ ~inMap[o] /\ UNCHANGED waiting
    /\ UNCHANGED <<inMap, order, mutex, before, file, advert, cancelled, nodeVars,
                   cast, disturbances, makerSwaps, takerSwaps>>

\* A task of its own looks the coins up, later; without them it ends and there is no swap.
lp_connect_start_bob(o) ==
    /\ \E s \in mStarting :
          /\ s.o = o
          /\ mStarting' = mStarting \ {s}
          /\ makerSwaps' = IF mCoins[o] THEN makerSwaps ELSE makerSwaps \ {s}
    /\ UNCHANGED <<inMap, order, mutex, waiting, before, file, advert, cancelled, mCoins,
                   mDisabling, mDisabled, mCrashes, cast, net, takerSwaps, disturbances>>

\* The task of the swap is spawned, with the amounts that were reserved, and the taker is told
\* that its maker has started.  A volume below the minimum is not told to the order book: the
\* order will be cancelled a bit later.
process_taker_connect(r, o) ==
    /\ Locks(o, [kind |-> "connect", r |-> r])
    /\ LET m == order[o].matches[r]
           ord == [order[o] EXCEPT !.matches[r].st = "connected"] IN
       \/ /\ m.st = "reserved"
          /\ order' = [order EXCEPT ![o] = ord]
          /\ mStarting' = mStarting \cup {Swap(r, o, m.base, m.rel)}
          /\ makerSwaps' = makerSwaps \cup {Swap(r, o, m.base, m.rel)}
          /\ Broadcast({MakerConnected(r, o)})
          /\ IF available_amount(ord) >= MinVolume THEN Advertise(o, ord) ELSE UNCHANGED advert
          /\ mutex' = [mutex EXCEPT ![o] = "save"]
       \/ m.st # "reserved" /\ UNCHANGED <<order, makerSwaps, mStarting, net, advert, mutex>>
    /\ UNCHANGED <<inMap, before, file, cancelled, mCoins, mDisabling, mDisabled, mCrashes,
                   cast, disturbances, takerSwaps>>

\* Every 0.777 seconds lp_ordermatch_loop begins with the orders of the map.
TimeoutsDue(o) ==
    /\ has_ongoing_matches(order[o]) /\ Enters(o, [kind |-> "timeout"])
    /\ UNCHANGED <<inMap, order, mutex, before, file, advert, cancelled, nodeVars, netVars>>

\* Slip: an order with nothing left to sell is skipped.
timed_out_matches_unless_full(o) ==
    IF available_amount(order[o]) < MinVolume THEN {} ELSE Matched(order[o], {"reserved"})

timed_out_matches(o) == Matched(order[o], {"reserved"})

handle_timed_out_maker_matches(o) ==
    /\ Locks(o, [kind |-> "timeout"])
    /\ \E old \in SUBSET timed_out_matches(o) :
          /\ order' = [order EXCEPT ![o].matches =
                            [r \in Requests |-> IF r \in old THEN NoMatch ELSE @[r]]]
          /\ mutex' = [mutex EXCEPT ![o] = IF old = {} THEN "free" ELSE "save"]
    /\ UNCHANGED <<inMap, before, file, advert, cancelled, nodeVars, netVars>>

-----------------------------------------------------------------------------
(* Storage.                                                                *)

update_active_maker_order(o) ==
    /\ mutex[o] = "save"
    /\ file' = [file EXCEPT ![o] = order[o]]
    /\ mutex' = [mutex EXCEPT ![o] = "free"]
    /\ UNCHANGED <<inMap, order, waiting, before, advert, cancelled, nodeVars, netVars>>

\* update_maker_order tells the order book once the order is saved, or takes the change back;
\* the file may hold it when only its copy in the history has failed.
UpdateSaved(o) ==
    /\ mutex[o] = "update"
    /\ mutex' = [mutex EXCEPT ![o] = "free"] /\ before' = [before EXCEPT ![o] = NoOrder]
    /\ \/ /\ file' = [file EXCEPT ![o] = order[o]]
          /\ Advertise(o, order[o])
          /\ UNCHANGED order
       \/ /\ \E saved \in {file[o], order[o]} : file' = [file EXCEPT ![o] = saved]
          /\ order' = [order EXCEPT ![o] = before[o]]
          /\ UNCHANGED advert
    /\ UNCHANGED <<inMap, waiting, cancelled, nodeVars, netVars>>

\* cancel_order replies once the file is gone.
delete_my_maker_order(o) ==
    /\ mutex[o] \in {"delete", "cancel"}
    /\ file' = [file EXCEPT ![o] = NoOrder]
    /\ mutex' = [mutex EXCEPT ![o] = "free"]
    /\ cancelled' = [cancelled EXCEPT ![o] =
                         IF mutex[o] # "cancel" THEN @
                         ELSE IF waiting[o] = {} THEN "idle" ELSE "raced"]
    /\ UNCHANGED <<inMap, order, waiting, before, advert, nodeVars, netVars>>

-----------------------------------------------------------------------------
(* What removes an order.                                                  *)

cancel_order(o) ==
    /\ Disturbed(o)
    /\ inMap[o] /\ mutex[o] = "free" /\ ~has_ongoing_matches(order[o])
    /\ RemoveOrder(o, "cancel")
    /\ UNCHANGED <<order, waiting, before, file, cancelled, nodeVars, messageVars>>

\* Only the mutex and the map are looked at, not the matches.
cancel_previous_maker_orders(o) ==
    /\ Disturbed(o)
    /\ inMap[o] /\ mutex[o] = "free"
    /\ RemoveOrder(o, "delete")
    /\ UNCHANGED <<order, waiting, before, file, cancelled, nodeVars, messageVars>>

check_balance_for_maker_orders(o) ==
    /\ inMap[o] /\ mutex[o] = "free"
    /\ available_amount(order[o]) < MinVolume /\ ~has_ongoing_matches(order[o])
    /\ RemoveOrder(o, "delete")
    /\ UNCHANGED <<order, waiting, before, file, cancelled, nodeVars, netVars>>

\* The loop takes an expired order out of the map before it takes the mutex.
drop_expired_entries(o) ==
    /\ Disturbed(o)
    /\ Enters(o, [kind |-> "removed"])
    /\ inMap' = [inMap EXCEPT ![o] = FALSE]
    /\ UNCHANGED <<order, mutex, before, file, advert, cancelled, nodeVars, messageVars>>

\* An order that the loop has taken out of the map: the order book is told, the file deleted.
RemovedOrderDeleted(o) ==
    /\ Locks(o, [kind |-> "removed"])
    /\ RemoveOrder(o, "delete")
    /\ UNCHANGED <<order, before, file, cancelled, nodeVars, netVars>>

\* The mutex is released after the check, the order removed later; last, the order book is
\* told and the file deleted.
cancel_orders_by(o) ==
    /\ Disturbed(o)
    /\ mutex[o] = "free" /\ ~has_ongoing_matches(order[o])
    /\ Enters(o, [kind |-> "cancel_by"])
    /\ UNCHANGED <<inMap, order, mutex, before, file, advert, cancelled, nodeVars, messageVars>>

CancelByRemoves(o) ==
    /\ [kind |-> "cancel_by"] \in waiting[o]
    /\ waiting' = [waiting EXCEPT ![o] = (@ \ {[kind |-> "cancel_by"]}) \cup {[kind |-> "delete"]}]
    /\ inMap' = [inMap EXCEPT ![o] = FALSE]
    /\ UNCHANGED <<order, mutex, before, file, advert, cancelled, nodeVars, netVars>>

CancelByDeletes(o) ==
    /\ [kind |-> "delete"] \in waiting[o]
    /\ waiting' = [waiting EXCEPT ![o] = @ \ {[kind |-> "delete"]}]
    /\ file' = [file EXCEPT ![o] = NoOrder] /\ advert' = [advert EXCEPT ![o] = 0]
    /\ UNCHANGED <<inMap, order, mutex, before, cancelled, nodeVars, netVars>>

-----------------------------------------------------------------------------
(* What changes an order.                                                  *)

\* The first half: no ongoing matches, and the order is copied.  Bound: one update at a time.
UpdateBegins(o) ==
    /\ Disturbed(o)
    /\ mCoins[o] /\ mutex[o] = "free" /\ ~has_ongoing_matches(order[o])
    /\ {[kind |-> "checks"], [kind |-> "update"]} \cap waiting[o] = {}
    /\ Enters(o, [kind |-> "checks"])
    /\ before' = [before EXCEPT ![o] = order[o]]
    /\ UNCHANGED <<inMap, order, mutex, file, advert, cancelled, nodeVars, messageVars>>

\* Balances were checked against the copy; the order is looked up again.
UpdateLooksUpAgain(o) ==
    /\ [kind |-> "checks"] \in waiting[o]
    /\ waiting' = [waiting EXCEPT ![o] =
          (@ \ {[kind |-> "checks"]}) \cup (IF inMap[o] THEN {[kind |-> "update"]} ELSE {})]
    /\ UNCHANGED <<inMap, order, mutex, before, file, advert, cancelled, nodeVars, netVars>>

\* Slip: the volume is compared with the minimum only.
NewVolumeAboveMinimum(o, offer) == offer.max >= MinVolume

NewVolumeAllowed(o, offer) == offer.max > reserved_amount(order[o])

\* The second half: the copy must still be the order.
update_maker_order(o) ==
    /\ Locks(o, [kind |-> "update"])
    /\ \/ /\ order[o] = before[o]
          /\ \E offer \in Offers \cap cast.offers :
                /\ NewVolumeAllowed(o, offer)
                /\ order' = [order EXCEPT ![o] =
                                 [@ EXCEPT !.max = offer.max, !.price = offer.price]]
          /\ mutex' = [mutex EXCEPT ![o] = "update"]
          /\ UNCHANGED before
       \/ /\ order[o] # before[o]
          /\ before' = [before EXCEPT ![o] = NoOrder]
          /\ UNCHANGED <<order, mutex>>
    /\ UNCHANGED <<inMap, file, advert, cancelled, nodeVars, netVars>>

\* The balance loop: a lower balance shrinks the order, or removes it whatever its matches.
balance_updated(o, v) ==
    /\ Disturbed(o)
    /\ inMap[o] /\ mCoins[o] /\ mutex[o] = "free"
    /\ LET ord == [order[o] EXCEPT !.max = reserved_amount(order[o]) + v] IN
       \/ v < MinVolume /\ RemoveOrder(o, "delete") /\ UNCHANGED order
       \/ /\ v >= MinVolume /\ v < available_amount(order[o])
          /\ order' = [order EXCEPT ![o] = ord]
          /\ Advertise(o, ord)
          /\ UNCHANGED <<inMap, mutex>>
    /\ UNCHANGED <<waiting, before, file, cancelled, nodeVars, messageVars>>

-----------------------------------------------------------------------------
(* A node dies and is started again: orders_kick_start loads the files;    *)
(* the user activates the coins afterwards.                                *)

MakerRestarts(o) ==
    /\ order[o] # NoOrder
    /\ Disturbed(o) /\ mCrashes' = [mCrashes EXCEPT ![o] = @ + 1]
    /\ mCoins' = [mCoins EXCEPT ![o] = FALSE] /\ mDisabling' = [mDisabling EXCEPT ![o] = "no"]
    /\ mStarting' = {s \in mStarting : s.o # o}
    /\ makerSwaps' = {s \in makerSwaps : s.o = o => s \notin mStarting}
    /\ order' = [order EXCEPT ![o] = IF file[o] = NoOrder THEN @ ELSE file[o]]
    /\ inMap' = [inMap EXCEPT ![o] = file[o] # NoOrder]
    /\ mutex' = [mutex EXCEPT ![o] = "free"]
    /\ waiting' = [waiting EXCEPT ![o] = {}]
    /\ before' = [before EXCEPT ![o] = NoOrder]
    /\ advert' = [advert EXCEPT ![o] = 0]
    /\ UNCHANGED <<file, cancelled, mDisabled, cast, net, takerSwaps>>

MakerActivatesCoins(o) ==
    /\ ~mCoins[o] /\ mCoins' = [mCoins EXCEPT ![o] = TRUE]
    /\ UNCHANGED <<inMap, order, mutex, waiting, before, file, advert, cancelled,
                   mDisabling, mDisabled, mStarting, mCrashes, netVars>>

\* disable_coin begins with a check: no ongoing match, and no active swap (those of the order
\* may be over by then, and one that has not looked up its coins is not active yet).
disable_coin(o) ==
    /\ Disturbed(o)
    /\ mCoins[o] /\ mDisabling[o] = "no"
    /\ inMap[o] => mutex[o] = "free" /\ ~has_ongoing_matches(order[o])
    /\ mDisabling' = [mDisabling EXCEPT ![o] = "cancels"]
    /\ UNCHANGED <<inMap, order, mutex, waiting, before, file, advert, cancelled,
                   mCoins, mDisabled, mStarting, mCrashes, messageVars>>

\* It calls cancel_orders_by, which passes over an order that was matched since.
DisableCancels(o) ==
    /\ mDisabling[o] = "cancels" /\ (inMap[o] => mutex[o] = "free")
    /\ mDisabling' = [mDisabling EXCEPT ![o] = "removes"]
    /\ waiting' = [waiting EXCEPT ![o] =
          IF inMap[o] /\ ~has_ongoing_matches(order[o]) THEN @ \cup {[kind |-> "cancel_by"]} ELSE @]
    /\ UNCHANGED <<inMap, order, mutex, before, file, advert, cancelled,
                   mCoins, mDisabled, mStarting, mCrashes, netVars>>

\* It removes the coin, or makes it passive: lp_coinfind finds neither.
remove_coin(o) ==
    /\ mDisabling[o] = "removes" /\ {[kind |-> "cancel_by"], [kind |-> "delete"]} \cap waiting[o] = {}
    /\ mDisabling' = [mDisabling EXCEPT ![o] = "no"]
    /\ mCoins' = [mCoins EXCEPT ![o] = FALSE] /\ mDisabled' = [mDisabled EXCEPT ![o] = TRUE]
    /\ UNCHANGED <<inMap, order, mutex, waiting, before, file, advert, cancelled,
                   mStarting, mCrashes, netVars>>

\* lp_ordermatch_loop announces an order that is not in the order book, as far as the balance
\* allows.  Without a sufficient balance, or any answer about it, the order is kept for the
\* end of the round.
Announce(o, v) ==
    /\ inMap[o] /\ mCoins[o] /\ advert[o] = 0 /\ mutex[o] = "free"
    /\ [kind |-> "to_cancel"] \notin waiting[o]
    /\ LET ord == [order[o] EXCEPT !.max = IF v < available_amount(order[o])
                                           THEN reserved_amount(order[o]) + v ELSE @] IN
       \/ /\ order' = [order EXCEPT ![o] = ord]
          /\ \/ /\ available_amount(ord) >= MinVolume
                /\ advert' = [advert EXCEPT ![o] = available_amount(ord)]
                /\ UNCHANGED waiting
             \/ /\ available_amount(ord) < MinVolume
                /\ Enters(o, [kind |-> "to_cancel"])
                /\ UNCHANGED advert
       \/ Enters(o, [kind |-> "to_cancel"]) /\ UNCHANGED <<order, advert>>
    /\ UNCHANGED <<inMap, mutex, before, file, cancelled, nodeVars, netVars>>

\* The end of the round: the order leaves the map whatever was matched since.
AnnounceCancels(o) ==
    /\ [kind |-> "to_cancel"] \in waiting[o]
    /\ waiting' = [waiting EXCEPT ![o] =
          (@ \ {[kind |-> "to_cancel"]}) \cup (IF inMap[o] THEN {[kind |-> "removed"]} ELSE {})]
    /\ inMap' = [inMap EXCEPT ![o] = FALSE]
    /\ UNCHANGED <<order, mutex, before, file, advert, cancelled, nodeVars, netVars>>

=============================================================================
