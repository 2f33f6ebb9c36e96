------------------------ MODULE OrderMatchingProofs -------------------------
(***************************************************************************)
(* Proofs about OrderMatching for any number of orders and requests, any   *)
(* amounts, and any number of updates, cancellations, expiries, balance    *)
(* changes and restarts.                                                   *)
(***************************************************************************)
EXTENDS OrderMatching, TLAPS

-----------------------------------------------------------------------------
(* An order that was created has a price, whatever happens to it later.    *)

HasPrice(ord) ==
    \E m, p, x : p \in Nat \ {0} /\ ord = [max |-> m, price |-> p, matches |-> x]

\* NoOrder has none.
LEMMA NoOrderHasNoPrice == \A ord : HasPrice(ord) => ord # NoOrder
BY DEF HasPrice, NoOrder

\* Changing the matches or the volume keeps it, and so does another price.
LEMMA PriceKept ==
    ASSUME NEW ord, HasPrice(ord)
    PROVE  /\ \A y : HasPrice([ord EXCEPT !.matches = y])
           /\ \A y : HasPrice([ord EXCEPT !.max = y])
           /\ \A y, q : q \in Nat \ {0} => HasPrice([ord EXCEPT !.max = y, !.price = q])
           /\ \A r, y : HasPrice([ord EXCEPT !.matches[r] = y])
           /\ \A r, y : HasPrice([ord EXCEPT !.matches[r].st = y])
<1>1. PICK m, p, x : p \in Nat \ {0} /\ ord = [max |-> m, price |-> p, matches |-> x]
    BY DEF HasPrice
<1>2. ASSUME NEW y PROVE HasPrice([ord EXCEPT !.matches = y])
  <2>1. [ord EXCEPT !.matches = y] = [max |-> m, price |-> p, matches |-> y]
    BY <1>1
  <2>. QED
    BY <1>1, <2>1 DEF HasPrice
<1>3. ASSUME NEW y PROVE HasPrice([ord EXCEPT !.max = y])
  <2>1. [ord EXCEPT !.max = y] = [max |-> y, price |-> p, matches |-> x]
    BY <1>1
  <2>. QED
    BY <1>1, <2>1 DEF HasPrice
<1>4. ASSUME NEW y, NEW q \in Nat \ {0} PROVE HasPrice([ord EXCEPT !.max = y, !.price = q])
  <2>1. [ord EXCEPT !.max = y, !.price = q] = [max |-> y, price |-> q, matches |-> x]
    <3>1. [ord EXCEPT !.max = y, !.price = q] = [[ord EXCEPT !.max = y] EXCEPT !.price = q]
      OBVIOUS
    <3>2. [ord EXCEPT !.max = y] = [max |-> y, price |-> p, matches |-> x]
      BY <1>1
    <3>3. [[max |-> y, price |-> p, matches |-> x] EXCEPT !.price = q]
              = [max |-> y, price |-> q, matches |-> x]
      OBVIOUS
    <3>. QED
      BY <3>1, <3>2, <3>3, Zenon
  <2>. QED
    BY <2>1 DEF HasPrice
<1>5. ASSUME NEW r, NEW y PROVE HasPrice([ord EXCEPT !.matches[r] = y])
  <2>1. [ord EXCEPT !.matches[r] = y]
            = [max |-> m, price |-> p, matches |-> [x EXCEPT ![r] = y]]
    BY <1>1
  <2>. QED
    BY <1>1, <2>1 DEF HasPrice
<1>6. ASSUME NEW r, NEW y PROVE HasPrice([ord EXCEPT !.matches[r].st = y])
  <2>1. [ord EXCEPT !.matches[r].st = y]
            = [max |-> m, price |-> p, matches |-> [x EXCEPT ![r].st = y]]
    BY <1>1
  <2>. QED
    BY <1>1, <2>1 DEF HasPrice
<1>. QED
    BY <1>2, <1>3, <1>4, <1>5, <1>6

-----------------------------------------------------------------------------
(* The inductive invariant behind CancelledForGood.                        *)

IsMap(f) == f = [o \in Orders |-> f[o]]

Maps ==
    /\ IsMap(inMap) /\ IsMap(order) /\ IsMap(mutex) /\ IsMap(before)
    /\ IsMap(waiting) /\ IsMap(file) /\ IsMap(cancelled)

\* What holds of one order.  Whoever has it, or holds its mutex, or waits for it, has an order
\* that was created; a cancelled one is out of the map, and out of everybody's hands.
OrderInv(o) ==
    /\ order[o] = NoOrder \/ HasPrice(order[o])
    /\ file[o] = NoOrder \/ HasPrice(file[o])
    /\ inMap[o] \/ mutex[o] # "free" \/ waiting[o] # {} \/ file[o] # NoOrder => HasPrice(order[o])
    /\ mutex[o] = "cancel" => ~inMap[o]
    /\ mutex[o] = "update" => HasPrice(before[o])
    /\ cancelled[o] = "idle" =>
           /\ ~inMap[o] /\ file[o] = NoOrder
           /\ waiting[o] = {} /\ mutex[o] = "free" /\ HasPrice(order[o])

CancelInv == Maps /\ \A o \in Orders : OrderInv(o)

\* g is f but for its value at o.
Upd(f, g, o) == IsMap(g) /\ \A u \in Orders \ {o} : g[u] = f[u]

\* A step that concerns only order o.
StepOf(o) ==
    /\ Upd(inMap, inMap', o) /\ Upd(order, order', o) /\ Upd(mutex, mutex', o)
    /\ Upd(before, before', o)
    /\ Upd(waiting, waiting', o) /\ Upd(file, file', o) /\ Upd(cancelled, cancelled', o)

\* A change of one entry of a map, and no change.
LEMMA Updated ==
    ASSUME NEW f, IsMap(f), NEW o \in Orders
    PROVE  /\ \A v : Upd(f, [f EXCEPT ![o] = v], o) /\ [f EXCEPT ![o] = v][o] = v
           /\ Upd(f, f, o)
BY DEF IsMap, Upd

\* The initial states have the invariant.
LEMMA CancelInvInit == Init => CancelInv
BY DEF Init, MakerInit, CancelInv, Maps, IsMap, OrderInv

\* A step that leaves the makers' orders alone keeps the invariant.
LEMMA UnchangedKeeps ==
    ASSUME CancelInv, UNCHANGED <<inMap, order, mutex, before, waiting, file, cancelled>>
    PROVE  CancelInv'
BY DEF CancelInv, Maps, OrderInv

\* A step that concerns one order keeps it if it keeps what holds of that order.
LEMMA StepOfKeeps ==
    ASSUME CancelInv, NEW o \in Orders, StepOf(o), OrderInv(o)'
    PROVE  CancelInv'
<1>1. Maps'
    BY DEF StepOf, Upd, Maps
<1>2. ASSUME NEW u \in Orders \ {o} PROVE OrderInv(u)'
    BY <1>2 DEF CancelInv, StepOf, Upd, OrderInv
<1>. QED
    BY <1>1, <1>2 DEF CancelInv

\* A handler that found the order in the map, or had it before, or holds its mutex: the order
\* is not a cancelled one.
LEMMA HandlerKeeps ==
    ASSUME CancelInv, NEW o \in Orders, StepOf(o),
           inMap[o] \/ waiting[o] # {} \/ mutex[o] # "free",
           HasPrice(order[o]) => HasPrice(order'[o]),
           file'[o] \in {NoOrder, file[o], order[o]},
           mutex'[o] = "cancel" => ~inMap'[o],
           mutex'[o] = "update" => HasPrice(before'[o]) \/ UNCHANGED <<before[o], mutex[o]>>,
           cancelled'[o] = cancelled[o]
    PROVE  CancelInv'
<1>1. OrderInv(o)
    BY DEF CancelInv
<1>2. HasPrice(order[o]) /\ cancelled[o] # "idle"
    BY <1>1 DEF OrderInv
<1>3. OrderInv(o)'
    BY <1>1, <1>2 DEF OrderInv
<1>. QED
    BY <1>3, StepOfKeeps

\* The handlers of the messages.
LEMMA MatchStepKeeps ==
    ASSUME CancelInv, NEW o \in Orders, NEW r \in Requests, MatchStep(r, o)
    PROVE  CancelInv'
<1>0. Maps
    BY DEF CancelInv
<1>1. CASE TakerRequestArrives(r, o) \/ TakerConnectArrives(r, o)
  <2>1. CASE inMap[o]
    <3>1. StepOf(o)
      BY <1>0, <1>1, <2>1, Updated
         DEF TakerRequestArrives, TakerConnectArrives, Enters, StepOf, Maps
    <3>. QED
      BY <1>1, <2>1, <3>1, HandlerKeeps
         DEF TakerRequestArrives, TakerConnectArrives, CancelInv, OrderInv
  <2>2. CASE ~inMap[o]
    BY <1>1, <2>2, UnchangedKeeps DEF TakerRequestArrives, TakerConnectArrives, Enters
  <2>. QED
    BY <2>1, <2>2
<1>2. CASE process_taker_request(r, o, taker[r])
  <2>1. StepOf(o) /\ (HasPrice(order[o]) => HasPrice(order'[o])) /\ mutex'[o] \notin {"cancel", "update"}
    <3>1. CASE Reservable(r, o, taker[r])
      <4>1. PICK y : order' = [order EXCEPT ![o].matches[r] = y]
        BY <1>2, <3>1 DEF process_taker_request
      <4>2. Upd(order, order', o) /\ order'[o] = [order[o] EXCEPT !.matches[r] = y]
        BY <1>0, <4>1, Updated DEF Maps
      <4>3. mutex' = [mutex EXCEPT ![o] = "save"]
        BY <1>2, <3>1 DEF process_taker_request
      <4>4. StepOf(o) /\ mutex'[o] = "save"
        BY <1>0, <1>2, <4>2, <4>3, Updated DEF process_taker_request, Locks, StepOf, Maps
      <4>5. HasPrice(order[o]) => HasPrice([order[o] EXCEPT !.matches[r] = y])
        BY PriceKept, Zenon
      <4>. QED
        BY <4>2, <4>4, <4>5, Zenon
    <3>2. CASE ~Reservable(r, o, taker[r])
      BY <1>0, <1>2, <3>2, Updated DEF process_taker_request, Locks, StepOf, Maps
    <3>. QED
      BY <3>1, <3>2
  <2>. QED
    BY <1>2, <2>1, HandlerKeeps DEF process_taker_request, Locks
<1>3. CASE process_taker_connect(r, o)
  <2>1. StepOf(o) /\ (HasPrice(order[o]) => HasPrice(order'[o])) /\ mutex'[o] \notin {"cancel", "update"}
    <3>1. CASE order[o].matches[r].st = "reserved"
      <4>1. order' = [order EXCEPT ![o] = [order[o] EXCEPT !.matches[r].st = "connected"]]
        BY <1>3, <3>1 DEF process_taker_connect
      <4>2. Upd(order, order', o) /\ order'[o] = [order[o] EXCEPT !.matches[r].st = "connected"]
        BY <1>0, <4>1, Updated DEF Maps
      <4>3. mutex' = [mutex EXCEPT ![o] = "save"]
        BY <1>3, <3>1 DEF process_taker_connect
      <4>4. StepOf(o) /\ mutex'[o] = "save"
        BY <1>0, <1>3, <4>2, <4>3, Updated DEF process_taker_connect, Locks, StepOf, Maps
      <4>5. HasPrice(order[o]) => HasPrice([order[o] EXCEPT !.matches[r].st = "connected"])
        BY PriceKept, Zenon
      <4>. QED
        BY <4>2, <4>4, <4>5
    <3>2. CASE order[o].matches[r].st # "reserved"
      BY <1>0, <1>3, <3>2, Updated DEF process_taker_connect, Locks, StepOf, Maps
    <3>. QED
      BY <3>1, <3>2
  <2>. QED
    BY <1>3, <2>1, HandlerKeeps DEF process_taker_connect, Locks
<1>. QED
    BY <1>1, <1>2, <1>3 DEF MatchStep

\* The steps of the loops.
LEMMA LoopStepKeeps ==
    ASSUME CancelInv, NEW o \in Orders, LoopStep(o)
    PROVE  CancelInv'
<1>0. Maps /\ OrderInv(o)
    BY DEF CancelInv
<1>1. CASE TimeoutsDue(o)
  <2>1. StepOf(o)
    BY <1>0, <1>1, Updated DEF TimeoutsDue, Enters, StepOf, Maps
  <2>. QED
    BY <1>0, <1>1, <2>1, HandlerKeeps DEF TimeoutsDue, Enters, OrderInv
<1>2. CASE handle_timed_out_maker_matches(o)
  <2>1. PICK old, y : /\ order' = [order EXCEPT ![o].matches = y]
                      /\ mutex' = [mutex EXCEPT ![o] = IF old = {} THEN "free" ELSE "save"]
    BY <1>2 DEF handle_timed_out_maker_matches
  <2>2. Upd(order, order', o) /\ order'[o] = [order[o] EXCEPT !.matches = y]
    BY <1>0, <2>1, Updated DEF Maps
  <2>3. HasPrice(order[o]) => HasPrice([order[o] EXCEPT !.matches = y])
    BY PriceKept, Zenon
  <2>4. StepOf(o) /\ mutex'[o] \notin {"cancel", "update"}
    BY <1>0, <1>2, <2>1, <2>2, Updated DEF handle_timed_out_maker_matches, Locks, StepOf, Maps
  <2>. QED
    BY <1>2, <2>2, <2>3, <2>4, HandlerKeeps DEF handle_timed_out_maker_matches, Locks
<1>3. CASE check_balance_for_maker_orders(o)
  <2>1. StepOf(o) /\ mutex'[o] = "delete"
    BY <1>0, <1>3, Updated DEF check_balance_for_maker_orders, RemoveOrder, StepOf, Maps
  <2>. QED
    BY <1>3, <2>1, HandlerKeeps DEF check_balance_for_maker_orders
<1>4. CASE drop_expired_entries(o)
  <2>1. StepOf(o) /\ ~inMap'[o]
    BY <1>0, <1>4, Updated DEF drop_expired_entries, Enters, StepOf, Maps
  <2>. QED
    BY <1>4, <2>1, HandlerKeeps DEF drop_expired_entries, Enters
<1>5. CASE AnnounceCancels(o)
  <2>1. StepOf(o) /\ ~inMap'[o]
    BY <1>0, <1>5, Updated DEF AnnounceCancels, StepOf, Maps
  <2>. QED
    BY <1>5, <2>1, HandlerKeeps DEF AnnounceCancels
<1>6. CASE RemovedOrderDeleted(o)
  <2>1. StepOf(o) /\ mutex'[o] = "delete"
    BY <1>0, <1>6, Updated DEF RemovedOrderDeleted, Locks, RemoveOrder, StepOf, Maps
  <2>. QED
    BY <1>6, <2>1, HandlerKeeps DEF RemovedOrderDeleted, Locks
<1>7. ASSUME NEW v, Announce(o, v) PROVE CancelInv'
  <2>1. Upd(order, order', o) /\ (HasPrice(order[o]) => HasPrice(order'[o]))
    <3>1. CASE UNCHANGED order
      BY <1>0, <3>1, Updated DEF Maps
    <3>2. CASE order' # order
      <4>1. PICK y : order' = [order EXCEPT ![o] = [order[o] EXCEPT !.max = y]]
        BY <1>7, <3>2 DEF Announce
      <4>2. Upd(order, order', o) /\ order'[o] = [order[o] EXCEPT !.max = y]
        BY <1>0, <4>1, Updated DEF Maps
      <4>3. HasPrice(order[o]) => HasPrice([order[o] EXCEPT !.max = y])
        BY PriceKept, Zenon
      <4>. QED
        BY <4>2, <4>3
    <3>. QED
      BY <3>1, <3>2
  <2>2. Upd(waiting, waiting', o)
    BY <1>0, <1>7, Updated DEF Announce, Enters, Maps
  <2>3. StepOf(o)
    BY <1>0, <1>7, <2>1, <2>2, Updated DEF Announce, StepOf, Maps
  <2>. QED
    BY <1>7, <2>1, <2>3, HandlerKeeps DEF Announce
<1>. QED
    BY <1>1, <1>2, <1>3, <1>4, <1>5, <1>6, <1>7 DEF LoopStep

\* Files are written and deleted; cancel_order replies.
LEMMA StorageStepKeeps ==
    ASSUME CancelInv, NEW o \in Orders, StorageStep(o)
    PROVE  CancelInv'
<1>0. Maps /\ OrderInv(o)
    BY DEF CancelInv
<1>1. CASE update_active_maker_order(o)
  <2>1. StepOf(o) /\ mutex'[o] = "free" /\ file'[o] = order[o]
    BY <1>0, <1>1, Updated DEF update_active_maker_order, StepOf, Maps
  <2>. QED
    BY <1>1, <2>1, HandlerKeeps DEF update_active_maker_order
<1>2. CASE delete_my_maker_order(o)
  <2>1. StepOf(o) /\ mutex'[o] = "free" /\ file'[o] = NoOrder
    BY <1>0, <1>2, Updated DEF delete_my_maker_order, StepOf, Maps
  <2>2. cancelled'[o] = "idle" => mutex[o] = "cancel" /\ waiting[o] = {}
    BY <1>0, <1>2, Updated DEF delete_my_maker_order, Maps, OrderInv
  <2>3. OrderInv(o)'
    BY <1>0, <1>2, <2>1, <2>2 DEF delete_my_maker_order, OrderInv
  <2>. QED
    BY <2>1, <2>3, StepOfKeeps
<1>3. CASE UpdateSaved(o)
  <2>1. HasPrice(before[o]) /\ HasPrice(order[o])
    BY <1>0, <1>3 DEF UpdateSaved, OrderInv
  <2>2. /\ Upd(order, order', o) /\ order'[o] \in {order[o], before[o]}
        /\ Upd(file, file', o) /\ file'[o] \in {file[o], order[o]}
    <3>1. CASE UNCHANGED order
      <4>1. PICK f : file' = [file EXCEPT ![o] = f] /\ f \in {file[o], order[o]}
        BY <1>3 DEF UpdateSaved
      <4>. QED
        BY <1>0, <3>1, <4>1, Updated DEF Maps
    <3>2. CASE order' # order
      <4>1. PICK saved \in {file[o], order[o]} : /\ file' = [file EXCEPT ![o] = saved]
                                                /\ order' = [order EXCEPT ![o] = before[o]]
        BY <1>3, <3>2 DEF UpdateSaved
      <4>. QED
        BY <1>0, <4>1, Updated DEF Maps
    <3>. QED
      BY <3>1, <3>2
  <2>3. StepOf(o) /\ mutex'[o] = "free"
    BY <1>0, <1>3, <2>2, Updated DEF UpdateSaved, StepOf, Maps
  <2>. QED
    BY <1>3, <2>1, <2>2, <2>3, HandlerKeeps DEF UpdateSaved
<1>. QED
    BY <1>1, <1>2, <1>3 DEF StorageStep

\* The calls of the user.
LEMMA UserStepKeeps ==
    ASSUME CancelInv, NEW o \in Orders, UserStep(o)
    PROVE  CancelInv'
<1>0. Maps /\ OrderInv(o)
    BY DEF CancelInv
<1>1. CASE create_maker_order(o)
  <2>1. PICK offer \in Offers :
           /\ file' = [file EXCEPT ![o] = [NoOrder EXCEPT !.max = offer.max, !.price = offer.price]]
           /\ order' = [order EXCEPT ![o] = [NoOrder EXCEPT !.max = offer.max, !.price = offer.price]]
    BY <1>1 DEF create_maker_order
  <2>2. offer.price \in Nat \ {0}
    BY AmountsAssumption
  <2>3. HasPrice([NoOrder EXCEPT !.max = offer.max, !.price = offer.price])
    <3>1. [NoOrder EXCEPT !.max = offer.max, !.price = offer.price]
            = [max |-> offer.max, price |-> offer.price, matches |-> [r \in Requests |-> NoMatch]]
      <4>1. [NoOrder EXCEPT !.max = offer.max, !.price = offer.price]
                = [[NoOrder EXCEPT !.max = offer.max] EXCEPT !.price = offer.price]
        OBVIOUS
      <4>2. [NoOrder EXCEPT !.max = offer.max]
                = [max |-> offer.max, price |-> 0, matches |-> [r \in Requests |-> NoMatch]]
        BY DEF NoOrder
      <4>3. [[max |-> offer.max, price |-> 0, matches |-> [r \in Requests |-> NoMatch]]
                EXCEPT !.price = offer.price]
                = [max |-> offer.max, price |-> offer.price,
                   matches |-> [r \in Requests |-> NoMatch]]
        OBVIOUS
      <4>. QED
        BY <4>1, <4>2, <4>3, Zenon
    <3>. QED
      BY <2>2, <3>1 DEF HasPrice
  <2>4. StepOf(o) /\ order'[o] = file'[o] /\ HasPrice(order'[o])
    <3>. DEFINE new == [NoOrder EXCEPT !.max = offer.max, !.price = offer.price]
    <3>1. Upd(order, order', o) /\ order'[o] = new
      BY <1>0, <2>1, Updated, Zenon DEF Maps
    <3>2. Upd(file, file', o) /\ file'[o] = new
      BY <1>0, <2>1, Updated, Zenon DEF Maps
    <3>3. HasPrice(new)
      BY <2>3
    <3>. HIDE DEF new
    <3>4. StepOf(o)
      BY <1>0, <1>1, <3>1, <3>2, Updated DEF create_maker_order, StepOf, Maps
    <3>. QED
      BY <3>1, <3>2, <3>3, <3>4
  <2>5. cancelled[o] # "idle" /\ mutex[o] = "free"
    BY <1>0, <1>1, NoOrderHasNoPrice DEF create_maker_order, OrderInv
  <2>6. OrderInv(o)'
    BY <1>0, <1>1, <2>4, <2>5 DEF create_maker_order, OrderInv
  <2>. QED
    BY <2>4, <2>6, StepOfKeeps
<1>2. CASE UpdateBegins(o)
  <2>1. StepOf(o)
    BY <1>0, <1>2, Updated DEF UpdateBegins, Enters, StepOf, Maps
  <2>. QED
    BY <1>2, <2>1, HandlerKeeps DEF UpdateBegins, Enters
<1>3. CASE UpdateLooksUpAgain(o)
  <2>1. StepOf(o)
    BY <1>0, <1>3, Updated DEF UpdateLooksUpAgain, StepOf, Maps
  <2>. QED
    BY <1>0, <1>3, <2>1, HandlerKeeps DEF UpdateLooksUpAgain, OrderInv
<1>4. CASE update_maker_order(o)
  <2>1. CASE order[o] = before[o]
    <3>1. PICK offer \in Offers :
             order' = [order EXCEPT ![o] = [order[o] EXCEPT !.max = offer.max, !.price = offer.price]]
      BY <1>4, <2>1 DEF update_maker_order
    <3>2. offer.price \in Nat \ {0}
      BY AmountsAssumption
    <3>3. HasPrice(order[o]) =>
              HasPrice([order[o] EXCEPT !.max = offer.max, !.price = offer.price])
      BY <3>2, PriceKept, Zenon
    <3>4. mutex' = [mutex EXCEPT ![o] = "update"] /\ UNCHANGED before
      BY <1>4, <2>1 DEF update_maker_order
    <3>5. Upd(order, order', o) /\ (HasPrice(order[o]) => HasPrice(order'[o]))
      BY <1>0, <3>1, <3>3, Updated DEF Maps
    <3>6. StepOf(o) /\ mutex'[o] = "update"
      BY <1>0, <1>4, <3>4, <3>5, Updated DEF update_maker_order, Locks, StepOf, Maps
    <3>7. HasPrice(before'[o])
      BY <1>0, <1>4, <2>1, <3>4 DEF update_maker_order, Locks, OrderInv
    <3>. QED
      BY <1>4, <3>5, <3>6, <3>7, HandlerKeeps DEF update_maker_order, Locks
  <2>2. CASE order[o] # before[o]
    <3>1. /\ UNCHANGED <<order, mutex>> /\ mutex[o] = "free"
          /\ before' = [before EXCEPT ![o] = NoOrder]
      BY <1>4, <2>2 DEF update_maker_order, Locks
    <3>2. StepOf(o)
      BY <1>0, <1>4, <2>2, <3>1, Updated DEF update_maker_order, Locks, StepOf, Maps
    <3>. QED
      BY <1>4, <3>1, <3>2, HandlerKeeps DEF update_maker_order, Locks
  <2>. QED
    BY <2>1, <2>2
<1>5. CASE cancel_order(o) \/ cancel_previous_maker_orders(o)
  <2>1. StepOf(o) /\ ~inMap'[o] /\ mutex'[o] \in {"cancel", "delete"}
    BY <1>0, <1>5, Updated DEF cancel_order, cancel_previous_maker_orders, RemoveOrder, StepOf, Maps
  <2>. QED
    BY <1>5, <2>1, HandlerKeeps DEF cancel_order, cancel_previous_maker_orders
<1>6. CASE cancel_orders_by(o)
  <2>1. StepOf(o)
    BY <1>0, <1>6, Updated DEF cancel_orders_by, Enters, StepOf, Maps
  <2>. QED
    BY <1>6, <2>1, HandlerKeeps DEF cancel_orders_by, Enters
<1>7. CASE CancelByRemoves(o)
  <2>1. StepOf(o) /\ ~inMap'[o]
    BY <1>0, <1>7, Updated DEF CancelByRemoves, RemoveOrder, StepOf, Maps
  <2>. QED
    BY <1>7, <2>1, HandlerKeeps DEF CancelByRemoves
<1>8. CASE CancelByDeletes(o)
  <2>1. StepOf(o) /\ file'[o] = NoOrder
    BY <1>0, <1>8, Updated DEF CancelByDeletes, StepOf, Maps
  <2>. QED
    BY <1>0, <1>8, <2>1, HandlerKeeps DEF CancelByDeletes, OrderInv
<1>. QED
    BY <1>1, <1>2, <1>3, <1>4, <1>5, <1>6, <1>7, <1>8 DEF UserStep

\* A change of the balance, and a restart, which loads what was saved.
LEMMA NodeStepKeeps ==
    ASSUME CancelInv, NEW o \in Orders, NEW v,
           balance_updated(o, v) \/ NodeStep(o)
    PROVE  CancelInv'
<1>0. Maps /\ OrderInv(o)
    BY DEF CancelInv
<1>1. CASE balance_updated(o, v)
  <2>1. CASE RemoveOrder(o, "delete") /\ UNCHANGED order
    <3>1. StepOf(o) /\ mutex'[o] = "delete"
      BY <1>0, <1>1, <2>1, Updated DEF balance_updated, RemoveOrder, StepOf, Maps
    <3>. QED
      BY <1>1, <2>1, <3>1, HandlerKeeps DEF balance_updated
  <2>2. CASE ~(RemoveOrder(o, "delete") /\ UNCHANGED order)
    <3>1. PICK y : order' = [order EXCEPT ![o] = [order[o] EXCEPT !.max = y]]
      BY <1>1, <2>2 DEF balance_updated
    <3>2. HasPrice(order[o]) => HasPrice([order[o] EXCEPT !.max = y])
      BY PriceKept, Zenon
    <3>3. UNCHANGED <<inMap, mutex, before, waiting, file, cancelled>> /\ inMap[o] /\ mutex[o] = "free"
      BY <1>1, <2>2 DEF balance_updated
    <3>4. StepOf(o) /\ (HasPrice(order[o]) => HasPrice(order'[o]))
      BY <1>0, <3>1, <3>2, <3>3, Updated DEF StepOf, Maps
    <3>. QED
      BY <3>3, <3>4, HandlerKeeps
  <2>. QED
    BY <2>1, <2>2
<1>2. CASE MakerRestarts(o)
  <2>1. /\ StepOf(o) /\ (inMap'[o] <=> file[o] # NoOrder) /\ mutex'[o] = "free" /\ waiting'[o] = {}
        /\ order'[o] = IF file[o] = NoOrder THEN order[o] ELSE file[o]
    BY <1>0, <1>2, Updated DEF MakerRestarts, StepOf, Maps
  <2>2. OrderInv(o)'
    BY <1>0, <1>2, <2>1 DEF MakerRestarts, OrderInv
  <2>. QED
    BY <2>1, <2>2, StepOfKeeps
<1>3. CASE lp_connect_start_bob(o) \/ MakerActivatesCoins(o) \/ disable_coin(o) \/ remove_coin(o)
    BY <1>3, UnchangedKeeps
       DEF lp_connect_start_bob, MakerActivatesCoins, disable_coin, remove_coin
<1>4. CASE DisableCancels(o)
  <2>1. CASE inMap[o]
    <3>1. StepOf(o)
      BY <1>0, <1>4, Updated DEF DisableCancels, StepOf, Maps
    <3>. QED
      BY <1>4, <2>1, <3>1, HandlerKeeps DEF DisableCancels
  <2>2. CASE ~inMap[o]
    BY <1>0, <1>4, <2>2, UnchangedKeeps DEF DisableCancels, Maps, IsMap
  <2>. QED
    BY <2>1, <2>2
<1>. QED
    BY <1>1, <1>2, <1>3, <1>4 DEF NodeStep

\* Every step keeps the invariant.
LEMMA CancelInvNext == CancelInv /\ [Next]_vars => CancelInv'
<1>. SUFFICES ASSUME CancelInv, [Next]_vars PROVE CancelInv'
    OBVIOUS
<1>1. CASE MakerStep
    BY <1>1, MatchStepKeeps, LoopStepKeeps, StorageStepKeeps, UserStepKeeps, NodeStepKeeps
       DEF MakerStep
<1>2. CASE TakerStep \/ UNCHANGED vars
    BY <1>2, UnchangedKeeps DEF TakerStep, vars, makerVars
<1>. QED
    BY <1>1, <1>2 DEF Next

\* An order that cancel_order reported as cancelled, with nobody waiting for its mutex, stays
\* out of the map and has no file: no handler, loop or restart brings it back.
THEOREM CancelledStaysCancelled == Spec => []CancelledForGood
<1>1. CancelInv => CancelledForGood
    BY DEF CancelInv, OrderInv, CancelledForGood
<1>. QED
    BY <1>1, CancelInvInit, CancelInvNext, PTL DEF Spec

=============================================================================
