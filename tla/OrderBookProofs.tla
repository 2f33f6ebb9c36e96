--------------------------- MODULE OrderBookProofs --------------------------
(***************************************************************************)
(* Proofs about OrderMatching that are about amounts and counts: an order  *)
(* is not oversold, both sides start the same swap, and a request starts   *)
(* one.  For any number of orders and requests, any amounts, and any       *)
(* number of updates, expiries, balance changes and restarts.              *)
(***************************************************************************)
EXTENDS OrderMatchingProofs, SumProofs

-----------------------------------------------------------------------------
(* The inductive invariant.                                                *)

Taken(ord) == Matched(ord, {"reserved", "connected"})

\* An order that is not oversold, with finitely many matches.
Sound(ord) == ord \in MakerOrder /\ IsFiniteSet(Taken(ord)) /\ reserved_amount(ord) <= ord.max

\* An update that fails to be saved can be taken back.
Reversible(o) ==
    mutex[o] = "update" => Sound(before[o]) /\ before[o].matches = order[o].matches

\* What holds of one order at its node.
MakerOwn(o) ==
    /\ Sound(order[o]) /\ Sound(file[o]) /\ before[o] \in MakerOrder
    /\ inMap[o] \in BOOLEAN /\ mutex[o] \in {"free", "save", "update", "delete", "cancel"}
    /\ waiting[o] \subseteq Handlers /\ advert[o] \in Nat
    /\ cancelled[o] \in {"no", "idle", "raced"}
    /\ mCoins[o] \in BOOLEAN /\ mCrashes[o] \in 0..disturbances
    /\ mDisabling[o] \in {"no", "cancels", "removes"} /\ mDisabled[o] \in BOOLEAN
    /\ Reversible(o)

MakerBook ==
    /\ IsMap(before) /\ IsMap(advert) /\ IsMap(mCoins) /\ IsMap(mCrashes)
    /\ IsMap(mDisabling) /\ IsMap(mDisabled)
    /\ \A o \in Orders : MakerOwn(o)

TakerOrder ==
    [st : {"none", "active", "gone"}, action : {"Buy", "Sell"}, base : Nat, rel : Nat,
     match : SUBSET Swaps]

\* A match, at most one, that suits the order, and is the swap if one was started.
MatchOf(r, match) ==
    /\ \A s, u \in match : s = u
    /\ \A s \in match : s \in Swaps /\ s.r = r /\ match_reserved(taker[r], s)
    /\ \A s \in takerSwaps : s.r = r => s \in match

\* What holds of one request at its node.  What is saved is the order itself, or the order
\* before its last change.
TakerOwn(r) ==
    /\ taker[r] \in TakerOrder /\ tFile[r] \in TakerOrder
    /\ pending[r] \subseteq [type : {"reserved"}, r : {r}, o : Orders, base : Nat, rel : Nat]
    /\ tSaving[r] \in BOOLEAN /\ sleeping[r] \in BOOLEAN /\ coins[r] \in BOOLEAN
    /\ tDisabling[r] \in {"no", "cancels", "removes"} /\ tDisabled[r] \in BOOLEAN
    /\ tCrashes[r] \in 0..disturbances
    /\ taker[r].st = "none" => taker[r] = NoTakerOrder /\ pending[r] = {}
    /\ tFile[r].st = "none" => taker[r].st = "none"
    /\ \A f \in {"action", "base", "rel"} : tFile[r][f] = taker[r][f]
    /\ ~tSaving[r] => tFile[r] = taker[r]
    /\ MatchOf(r, taker[r].match) /\ MatchOf(r, tFile[r].match)
    /\ tCrashes[r] = 0 /\ ~tDisabled[r] => coins[r]
    /\ taker[r].st = "active" /\ pending[r] # {} /\ tCrashes[r] = 0 /\ ~tDisabled[r]
           => sleeping[r]

IsTakerMap(f) == f = [r \in Requests |-> f[r]]

TakerBook ==
    /\ IsTakerMap(taker) /\ IsTakerMap(tFile) /\ IsTakerMap(tSaving) /\ IsTakerMap(pending)
    /\ IsTakerMap(sleeping) /\ IsTakerMap(coins) /\ IsTakerMap(tCrashes)
    /\ IsTakerMap(tDisabling) /\ IsTakerMap(tDisabled)
    /\ \A r \in Requests : TakerOwn(r)

Requesting(r) == [kind |-> "request", r |-> r]
Connecting(r) == [kind |-> "connect", r |-> r]

\* The request of r is on its way to o, or waits for the order.
Requested(r, o) == TakerRequest(r, o) \in net \/ Requesting(r) \in waiting[o]

\* The same for the message that says that the taker chose o.
Chooses(r, o) == TakerConnect(r, o) \in net \/ Connecting(r) \in waiting[o]

Amounts == [base : Nat, rel : Nat]

\* Somebody knows of a match of r and o with these amounts.
MatchedWith(m, d) == m.st # "none" /\ m.base = d.base /\ m.rel = d.rel

Deals(r, o) ==
    {d \in Amounts :
        \/ MakerReserved(r, o, d.base, d.rel) \in net \cup pending[r]
        \/ MatchedWith(order[o].matches[r], d) \/ MatchedWith(file[o].matches[r], d)
        \/ Swap(r, o, d.base, d.rel) \in makerSwaps \cup taker[r].match \cup tFile[r].match}

Started(r, o) == \E s \in makerSwaps : s.r = r /\ s.o = o

\* A request reaches an order once, so that everybody who knows of a match knows the same.
OneDeal(r, o) ==
    /\ \A d, e \in Deals(r, o) : d = e
    /\ Requested(r, o) \/ taker[r].st = "none" => Deals(r, o) = {}
    /\ taker[r].st = "none" => ~Requested(r, o) /\ ~Chooses(r, o)
    /\ ~(TakerRequest(r, o) \in net /\ Requesting(r) \in waiting[o])
    /\ MakerConnected(r, o) \in net /\ Steady(o) => Started(r, o)

\* The orders that the taker of r chose.
Chosen(r) == {o \in Orders : Chooses(r, o) \/ Started(r, o)}

FewChosen(r) ==
    /\ IsFiniteSet(Chosen(r))
    /\ Cardinality(Chosen(r)) <= tCrashes[r] + (IF taker[r].match = {} THEN 0 ELSE 1)

\* Swaps that were started are matches of the order, as long as the node did not die; their
\* coins are there, unless disable_coin removed them.
Backed(o) ==
    /\ Steady(o) => mCoins[o]
    /\ mCrashes[o] = 0 =>
          \A s \in makerSwaps : s.o = o =>
              order[o].matches[s.r] = [st |-> "connected", base |-> s.base, rel |-> s.rel]

BothStarted(s) == s \in makerSwaps \/ ~Steady(s.o)

\* The tasks that have not looked up the coins.
Spawned == mStarting \subseteq makerSwaps /\ tStarting \subseteq takerSwaps

BookInv ==
    /\ CancelInv /\ NetTypeOK /\ MakerBook /\ TakerBook
    /\ \A r \in Requests, o \in Orders : OneDeal(r, o)
    /\ \A r \in Requests : FewChosen(r)
    /\ \A o \in Orders : Backed(o)
    /\ \A s \in takerSwaps : BothStarted(s)
    /\ IsFiniteSet(makerSwaps) /\ Spawned

-----------------------------------------------------------------------------
(* Sound orders.                                                           *)

\* A match takes what it says, and the order is well typed.
LEMMA OrderFacts ==
    ASSUME NEW ord \in MakerOrder
    PROVE  /\ ord.max \in Nat /\ ord.price \in Nat
           /\ ord.matches \in [Requests -> MakerMatches]
           /\ \A r \in Requests : ord.matches[r].base \in Nat /\ ord.matches[r].rel \in Nat
           /\ Taken(ord) \subseteq Requests
           /\ \A r \in Requests : r \in Taken(ord) <=> ord.matches[r].st # "none"
BY DEF MakerOrder, MakerMatches, Taken, Matched

Bases(ord) == [r \in Requests |-> ord.matches[r].base]

\* reserved_amount is the sum of what the matches take.
LEMMA ReservedIsSum ==
    ASSUME NEW ord \in MakerOrder, IsFiniteSet(Taken(ord))
    PROVE  /\ reserved_amount(ord) = Sum(Bases(ord), Taken(ord))
           /\ reserved_amount(ord) \in Nat
<1>. DEFINE w == ord.matches
            S == Taken(ord)
            v == [r \in S |-> w[r].base]
<1>1. reserved_amount(ord) = MapThenSumSet(LAMBDA r : w[r].base, S)
    BY Zenon DEF reserved_amount, Taken
<1>. HIDE DEF w, S
<1>2. MapThenSumSet(LAMBDA r : w[r].base, S) = Sum(v, S)
    BY SumOfBases, Zenon DEF S
<1>3. \A r \in S : r \in Requests /\ v[r] = Bases(ord)[r] /\ v[r] \in Nat
    BY OrderFacts DEF S, w, Bases
<1>. HIDE DEF v
<1>4. Sum(v, S) = Sum(Bases(ord), S) /\ Sum(v, S) \in Nat
    BY <1>3, SumSame, SumNat DEF S
<1>. QED
    BY <1>1, <1>2, <1>4 DEF S

\* The order nobody has created.
LEMMA NoOrderSound == Sound(NoOrder) /\ reserved_amount(NoOrder) = 0
<1>1. NoOrder \in MakerOrder /\ Taken(NoOrder) = {} /\ NoOrder.max = 0
    BY DEF NoOrder, NoMatch, MakerOrder, MakerMatches, Taken, Matched
<1>2. IsFiniteSet({})
    BY FS_EmptySet
<1>3. Sum(Bases(NoOrder), {}) = 0
    BY <1>2, SumStep
<1>. QED
    BY <1>1, <1>2, <1>3, ReservedIsSum DEF Sound

\* Orders with the same matches have the same amount reserved.
LEMMA SameMatches ==
    ASSUME NEW a \in MakerOrder, NEW b \in MakerOrder, a.matches = b.matches,
           IsFiniteSet(Taken(a))
    PROVE  reserved_amount(b) = reserved_amount(a) /\ IsFiniteSet(Taken(b))
<1>1. Taken(b) = Taken(a) /\ Bases(b) = Bases(a)
    BY DEF Taken, Matched, Bases
<1>. QED
    BY <1>1, ReservedIsSum

\* a is the order with another volume, and perhaps another price.
Resized(ord, a, m, p) ==
    a = [ord EXCEPT !.max = m] \/ a = [ord EXCEPT !.max = m, !.price = p]

\* A volume that covers what is reserved keeps an order sound.
LEMMA SoundVolume ==
    ASSUME NEW ord, Sound(ord), NEW m \in Nat, reserved_amount(ord) <= m, NEW p \in Nat,
           NEW a, Resized(ord, a, m, p)
    PROVE  Sound(a) /\ a.matches = ord.matches
<1>0. ord \in MakerOrder /\ IsFiniteSet(Taken(ord))
    BY DEF Sound
<1>1. a \in MakerOrder /\ a.matches = ord.matches /\ a.max = m
    BY <1>0 DEF MakerOrder, Resized
<1>2. reserved_amount(a) = reserved_amount(ord) /\ IsFiniteSet(Taken(a))
    BY <1>0, <1>1, SameMatches
<1>. QED
    BY <1>1, <1>2 DEF Sound

\* A request that fits into what is available is reserved.
LEMMA SoundReserve ==
    ASSUME NEW ord, Sound(ord), NEW r \in Requests, ord.matches[r] = NoMatch,
           NEW b \in Nat, NEW q \in Nat, b <= available_amount(ord)
    PROVE  Sound([ord EXCEPT !.matches[r] = [st |-> "reserved", base |-> b, rel |-> q]])
<1>. DEFINE m == [st |-> "reserved", base |-> b, rel |-> q]
            a == [ord EXCEPT !.matches[r] = m]
<1>0. ord \in MakerOrder /\ IsFiniteSet(Taken(ord)) /\ reserved_amount(ord) <= ord.max
    BY DEF Sound
<1>1. m \in MakerMatches /\ m.st = "reserved" /\ m.base = b
    BY DEF MakerMatches
<1>. HIDE DEF m
<1>2. /\ a \in MakerOrder /\ a.max = ord.max
      /\ a.matches = [ord.matches EXCEPT ![r] = m]
    BY <1>0, <1>1 DEF MakerOrder
<1>. HIDE DEF a
<1>3. a.matches[r] = m /\ \A u \in Requests \ {r} : a.matches[u] = ord.matches[u]
    BY <1>0, <1>2, OrderFacts
<1>4. Taken(a) = Taken(ord) \cup {r} /\ r \notin Taken(ord)
    BY <1>0, <1>1, <1>2, <1>3, OrderFacts DEF NoMatch
<1>5. IsFiniteSet(Taken(a))
    BY <1>0, <1>4, FS_AddElement
<1>6. Bases(a)[r] = b /\ \A u \in Taken(ord) : Bases(a)[u] = Bases(ord)[u]
    BY <1>0, <1>1, <1>3, <1>4, OrderFacts DEF Bases
<1>7. \A u \in Taken(a) : Bases(a)[u] \in Nat
    BY <1>2, OrderFacts DEF Bases
<1>8. Sum(Bases(a), Taken(a)) = Sum(Bases(a), Taken(ord)) + b
    BY <1>0, <1>4, <1>6, <1>7, SumAdd
<1>9. Sum(Bases(a), Taken(ord)) = Sum(Bases(ord), Taken(ord))
    BY <1>0, <1>6, SumSame
<1>10. reserved_amount(a) = reserved_amount(ord) + b /\ reserved_amount(ord) \in Nat
    BY <1>0, <1>2, <1>5, <1>8, <1>9, ReservedIsSum
<1>11. reserved_amount(a) <= a.max
    BY <1>0, <1>2, <1>10, OrderFacts DEF available_amount
<1>12. Sound(a)
    BY <1>2, <1>5, <1>11 DEF Sound
<1>. QED
    BY <1>12 DEF a, m

\* A reserved match is connected.
LEMMA SoundConnect ==
    ASSUME NEW ord, Sound(ord), NEW r \in Requests, ord.matches[r].st = "reserved"
    PROVE  LET a == [ord EXCEPT !.matches[r].st = "connected"] IN
           /\ Sound(a)
           /\ a.matches[r] = [st |-> "connected", base |-> ord.matches[r].base,
                              rel |-> ord.matches[r].rel]
           /\ \A u \in Requests \ {r} : a.matches[u] = ord.matches[u]
           /\ available_amount(a) = available_amount(ord)
<1>. DEFINE a == [ord EXCEPT !.matches[r].st = "connected"]
            m == [ord.matches[r] EXCEPT !.st = "connected"]
<1>0. ord \in MakerOrder /\ IsFiniteSet(Taken(ord)) /\ reserved_amount(ord) <= ord.max
    BY DEF Sound
<1>1. /\ m \in MakerMatches /\ m.st = "connected" /\ m.base = ord.matches[r].base
      /\ m = [st |-> "connected", base |-> ord.matches[r].base, rel |-> ord.matches[r].rel]
    BY <1>0, OrderFacts DEF MakerMatches
<1>2. a = [ord EXCEPT !.matches[r] = m]
    BY <1>0 DEF MakerOrder
<1>. HIDE DEF m
<1>3. /\ a \in MakerOrder /\ a.max = ord.max
      /\ a.matches = [ord.matches EXCEPT ![r] = m]
    BY <1>0, <1>1, <1>2 DEF MakerOrder
<1>. HIDE DEF a
<1>4. a.matches[r] = m /\ \A u \in Requests \ {r} : a.matches[u] = ord.matches[u]
    BY <1>0, <1>3, OrderFacts
<1>5. Taken(a) = Taken(ord) /\ Bases(a) = Bases(ord)
  <2>1. \A u \in Requests : a.matches[u].base = ord.matches[u].base
    BY <1>1, <1>4
  <2>2. \A u \in Requests : a.matches[u].st # "none" <=> ord.matches[u].st # "none"
    BY <1>1, <1>4
  <2>3. Taken(a) = Taken(ord)
    BY <1>0, <1>3, <2>2, OrderFacts
  <2>. QED
    BY <2>1, <2>3 DEF Bases
<1>6. reserved_amount(a) = reserved_amount(ord)
    BY <1>0, <1>3, <1>5, ReservedIsSum
<1>7. Sound(a) /\ available_amount(a) = available_amount(ord)
    BY <1>0, <1>3, <1>5, <1>6 DEF Sound, available_amount
<1>. QED
    BY <1>1, <1>4, <1>7 DEF a

\* Matches are released.
LEMMA SoundRelease ==
    ASSUME NEW ord, Sound(ord), NEW old \in SUBSET Requests
    PROVE  LET y == [r \in Requests |-> IF r \in old THEN NoMatch ELSE ord.matches[r]]
               a == [ord EXCEPT !.matches = y] IN
           Sound(a) /\ a.matches = y
<1>. DEFINE y == [r \in Requests |-> IF r \in old THEN NoMatch ELSE ord.matches[r]]
            a == [ord EXCEPT !.matches = y]
<1>0. ord \in MakerOrder /\ IsFiniteSet(Taken(ord)) /\ reserved_amount(ord) <= ord.max
    BY DEF Sound
<1>1. y \in [Requests -> MakerMatches]
    BY <1>0, OrderFacts DEF NoMatch, MakerMatches
<1>2. a \in MakerOrder /\ a.max = ord.max /\ a.matches = y
    BY <1>0, <1>1 DEF MakerOrder
<1>3. \A u \in Requests : y[u] = IF u \in old THEN NoMatch ELSE ord.matches[u]
    OBVIOUS
<1>. HIDE DEF a, y
<1>4. Taken(a) \subseteq Taken(ord) /\ \A u \in Taken(a) : Bases(a)[u] = Bases(ord)[u]
    BY <1>0, <1>2, <1>3, OrderFacts DEF NoMatch, Bases
<1>5. IsFiniteSet(Taken(a))
    BY <1>0, <1>4, FS_Subset
<1>6. Sum(Bases(a), Taken(a)) = Sum(Bases(ord), Taken(a))
    BY <1>4, <1>5, SumSame
<1>7. \A u \in Taken(ord) : Bases(ord)[u] \in Nat
    BY <1>0, OrderFacts DEF Bases
<1>8. Sum(Bases(ord), Taken(a)) <= Sum(Bases(ord), Taken(ord))
    BY <1>0, <1>4, <1>7, SumMonotone
<1>9. /\ reserved_amount(a) <= reserved_amount(ord)
      /\ reserved_amount(a) \in Nat /\ reserved_amount(ord) \in Nat
    BY <1>0, <1>2, <1>5, <1>6, <1>8, ReservedIsSum
<1>10. Sound(a)
    BY <1>0, <1>2, <1>5, <1>9, OrderFacts DEF Sound
<1>. QED
    BY <1>2, <1>10 DEF a, y

-----------------------------------------------------------------------------
(* The steps of the makers that send nothing and take no message.          *)

Loops == [kind : {"timeout", "checks", "update", "cancel_by", "delete", "to_cancel", "removed"}]

\* The handlers that wait for an order can be told apart.
LEMMA HandlerFacts ==
    /\ Loops \subseteq Handlers
    /\ \A r \in Requests : Requesting(r) \in Handlers /\ Connecting(r) \in Handlers
    /\ \A r : Requesting(r) \notin Loops /\ Connecting(r) \notin Loops
    /\ \A r, u : Requesting(r) # Connecting(u)
    /\ \A r, u : Requesting(r) = Requesting(u) => r = u
    /\ \A r, u : Connecting(r) = Connecting(u) => r = u
    /\ \A k \in {"timeout", "checks", "update", "cancel_by", "delete", "to_cancel", "removed"} :
          [kind |-> k] \in Loops
BY DEF Loops, Handlers, Requesting, Connecting

\* A step of the node of o.
MakerStepOf(o) ==
    /\ StepOf(o) /\ Upd(before, before', o) /\ Upd(advert, advert', o)
    /\ Upd(mCoins, mCoins', o) /\ Upd(mCrashes, mCrashes', o)
    /\ Upd(mDisabling, mDisabling', o) /\ Upd(mDisabled, mDisabled', o)

\* What such a step does to the matches and the handlers of its order: it may release a match
\* that was only reserved, save, or, when the node dies, load what was saved.
Kept(o) ==
    /\ \A r \in Requests :
          LET known == {NoMatch, order[o].matches[r], file[o].matches[r]} IN
          order'[o].matches[r] \in known /\ file'[o].matches[r] \in known
    /\ mCrashes[o] <= mCrashes'[o]
    /\ mDisabled[o] => mDisabled'[o]
    /\ Steady(o)' /\ mCoins[o] => mCoins'[o]
    /\ mCrashes'[o] = 0 =>
          \A r \in Requests : order[o].matches[r].st = "connected" =>
              order'[o].matches[r] = order[o].matches[r]
    /\ waiting'[o] \subseteq waiting[o] \cup Loops

Later == disturbances \in Nat /\ disturbances' \in disturbances..MaxDisturbances

\* A swap that was spawned may still find no coins, or not survive the node.
SomeFail(o) ==
    /\ makerSwaps' \subseteq makerSwaps /\ mStarting' \subseteq makerSwaps'
    /\ \A s \in makerSwaps \ makerSwaps' : s.o = o /\ ~Steady(o)'

Quiet(o) ==
    /\ MakerStepOf(o) /\ UNCHANGED <<cast, net, takerSwaps>> /\ SomeFail(o) /\ Later
    /\ MakerOwn(o)' /\ Kept(o)

\* ... most of which leave the order as it is.
Plain(o) ==
    /\ MakerStepOf(o) /\ UNCHANGED messageVars /\ Later
    /\ order'[o] = order[o] /\ file'[o] \in {NoOrder, file[o], order[o]}
    /\ before'[o] \in {NoOrder, before[o], order[o]}
    /\ advert'[o] \in {0, advert[o]} /\ waiting'[o] \subseteq waiting[o] \cup Loops
    /\ inMap'[o] \in BOOLEAN /\ cancelled'[o] \in {"no", "idle", "raced"}
    /\ \/ mutex'[o] \in {"free", "save", "delete", "cancel"}
       \/ mutex'[o] = mutex[o] /\ before'[o] = before[o]
    /\ mStarting' = mStarting /\ mDisabling'[o] \in {"no", "cancels", "removes"}
    /\ \/ mCoins'[o] \in {TRUE, mCoins[o]} /\ mDisabled'[o] = mDisabled[o]
       \/ mCoins'[o] = FALSE /\ mDisabled'[o] = TRUE
    /\ mCrashes'[o] = mCrashes[o]

\* They are quiet.
LEMMA PlainIsQuiet ==
    ASSUME BookInv, NEW o \in Orders, MakerOwn(o), Plain(o)
    PROVE  Quiet(o)
<1>1. MakerOwn(o)'
  <2>1. Sound(order'[o]) /\ Sound(file'[o]) /\ before'[o] \in MakerOrder
    BY NoOrderSound DEF MakerOwn, Plain, Sound
  <2>2. waiting'[o] \subseteq Handlers
    BY HandlerFacts DEF MakerOwn, Plain
  <2>3. mCrashes'[o] \in 0..disturbances' /\ advert'[o] \in Nat
    BY DEF MakerOwn, Plain, Later
  <2>4. mCoins'[o] \in BOOLEAN /\ mDisabled'[o] \in BOOLEAN
    BY Zenon DEF MakerOwn, Plain
  <2>5. Reversible(o)'
    BY DEF MakerOwn, Plain, Reversible
  <2>6. mutex'[o] \in {"free", "save", "update", "delete", "cancel"}
    BY DEF MakerOwn, Plain
  <2>. QED
    BY <2>1, <2>2, <2>3, <2>4, <2>5, <2>6, Zenon DEF MakerOwn, Plain
<1>2. Kept(o)
  <2>1. \A r \in Requests : NoOrder.matches[r] = NoMatch
    BY DEF NoOrder
  <2>2. mCrashes[o] <= mCrashes'[o]
    BY DEF MakerOwn, Plain, Later
  <2>3. (mDisabled[o] => mDisabled'[o]) /\ (Steady(o)' /\ mCoins[o] => mCoins'[o])
    BY Zenon DEF MakerOwn, Plain, Steady
  <2>. QED
    BY <2>1, <2>2, <2>3 DEF MakerOwn, Plain, Kept
<1>. QED
    BY <1>1, <1>2 DEF Plain, Quiet, SomeFail, messageVars, BookInv, Spawned

\* The rest of the maker's variables change in one place at most.
LEMMA MapsOfMaker ==
    ASSUME BookInv
    PROVE  /\ IsMap(inMap) /\ IsMap(order) /\ IsMap(mutex) /\ IsMap(waiting) /\ IsMap(before)
           /\ IsMap(file) /\ IsMap(advert) /\ IsMap(cancelled) /\ IsMap(mCoins) /\ IsMap(mCrashes)
           /\ IsMap(mDisabling) /\ IsMap(mDisabled)
           /\ disturbances \in 0..MaxDisturbances /\ MaxDisturbances \in Nat
           /\ \A o \in Orders : MakerOwn(o)
BY AmountsAssumption DEF BookInv, CancelInv, Maps, MakerBook, NetTypeOK

\* The steps of the loops and the storage, and the calls of the user, that leave the order as
\* it is.
LEMMA PlainSteps ==
    ASSUME BookInv, NEW o \in Orders,
           \/ TimeoutsDue(o) \/ check_balance_for_maker_orders(o) \/ drop_expired_entries(o)
           \/ AnnounceCancels(o) \/ RemovedOrderDeleted(o)
           \/ update_active_maker_order(o) \/ delete_my_maker_order(o)
           \/ UpdateBegins(o) \/ UpdateLooksUpAgain(o)
           \/ cancel_order(o) \/ cancel_previous_maker_orders(o)
           \/ cancel_orders_by(o) \/ CancelByRemoves(o) \/ CancelByDeletes(o)
           \/ MakerActivatesCoins(o)
           \/ disable_coin(o) \/ DisableCancels(o) \/ remove_coin(o)
    PROVE  Quiet(o)
<1>0. MakerOwn(o)
    BY MapsOfMaker
<1>. SUFFICES Plain(o)
    BY <1>0, PlainIsQuiet
<1>. USE DEF netVars, messageVars, nodeVars
<1>1. CASE TimeoutsDue(o)
  <2>1. MakerStepOf(o)
    BY <1>1, MapsOfMaker, Updated DEF TimeoutsDue, Enters, MakerStepOf, StepOf
  <2>2. UNCHANGED messageVars /\ Later
    BY <1>1, MapsOfMaker DEF TimeoutsDue, Later
  <2>. QED
    BY <1>0, <1>1, <2>1, <2>2, MapsOfMaker, Updated, HandlerFacts
       DEF TimeoutsDue, Enters, MakerOwn, Plain
<1>2. CASE check_balance_for_maker_orders(o)
  <2>1. MakerStepOf(o)
    BY <1>2, MapsOfMaker, Updated DEF check_balance_for_maker_orders, RemoveOrder, MakerStepOf, StepOf
  <2>2. UNCHANGED messageVars /\ Later
    BY <1>2, MapsOfMaker DEF check_balance_for_maker_orders, Later
  <2>3. inMap'[o] = FALSE /\ mutex'[o] = "delete" /\ advert'[o] = 0
    BY <1>2, MapsOfMaker, Updated DEF check_balance_for_maker_orders, RemoveOrder
  <2>. QED
    BY <1>0, <1>2, <2>1, <2>2, <2>3 DEF check_balance_for_maker_orders, MakerOwn, Plain
<1>3. CASE drop_expired_entries(o)
  <2>1. MakerStepOf(o)
    BY <1>3, MapsOfMaker, Updated DEF drop_expired_entries, Enters, Disturbed, MakerStepOf, StepOf
  <2>2. UNCHANGED messageVars /\ Later
    BY <1>3, MapsOfMaker DEF drop_expired_entries, Disturbed, Later
  <2>3. waiting'[o] \subseteq waiting[o] \cup Loops
    BY <1>3, MapsOfMaker, Updated, HandlerFacts DEF drop_expired_entries, Enters
  <2>4. inMap'[o] = FALSE /\ mutex'[o] = mutex[o] /\ advert'[o] = advert[o]
    BY <1>3, MapsOfMaker, Updated DEF drop_expired_entries, Enters
  <2>. QED
    BY <1>0, <1>3, <2>1, <2>2, <2>3, <2>4 DEF drop_expired_entries, MakerOwn, Plain
<1>4. CASE AnnounceCancels(o)
  <2>1. MakerStepOf(o)
    BY <1>4, MapsOfMaker, Updated DEF AnnounceCancels, MakerStepOf, StepOf
  <2>2. UNCHANGED messageVars /\ Later
    BY <1>4, MapsOfMaker DEF AnnounceCancels, Later
  <2>3. waiting'[o] \subseteq waiting[o] \cup Loops
    BY <1>4, MapsOfMaker, Updated, HandlerFacts DEF AnnounceCancels
  <2>4. inMap'[o] = FALSE
    BY <1>4, MapsOfMaker, Updated DEF AnnounceCancels
  <2>. QED
    BY <1>0, <1>4, <2>1, <2>2, <2>3, <2>4 DEF AnnounceCancels, MakerOwn, Plain
<1>5. CASE RemovedOrderDeleted(o)
  <2>1. MakerStepOf(o)
    BY <1>5, MapsOfMaker, Updated DEF RemovedOrderDeleted, Locks, RemoveOrder, MakerStepOf, StepOf
  <2>2. UNCHANGED messageVars /\ Later
    BY <1>5, MapsOfMaker DEF RemovedOrderDeleted, Later
  <2>3. waiting'[o] \subseteq waiting[o] \cup Loops
    BY <1>5, MapsOfMaker, Updated, HandlerFacts DEF RemovedOrderDeleted, Locks, RemoveOrder
  <2>4. inMap'[o] = FALSE /\ mutex'[o] = "delete" /\ advert'[o] = 0
    BY <1>5, MapsOfMaker, Updated DEF RemovedOrderDeleted, Locks, RemoveOrder
  <2>. QED
    BY <1>0, <1>5, <2>1, <2>2, <2>3, <2>4 DEF RemovedOrderDeleted, MakerOwn, Plain
<1>6. CASE update_active_maker_order(o)
  <2>1. MakerStepOf(o)
    BY <1>6, MapsOfMaker, Updated DEF update_active_maker_order, MakerStepOf, StepOf
  <2>2. UNCHANGED messageVars /\ Later
    BY <1>6, MapsOfMaker DEF update_active_maker_order, Later
  <2>. QED
    BY <1>0, <1>6, <2>1, <2>2, MapsOfMaker, Updated, HandlerFacts
       DEF update_active_maker_order, MakerOwn, Plain
<1>7. CASE delete_my_maker_order(o)
  <2>1. MakerStepOf(o)
    BY <1>7, MapsOfMaker, Updated DEF delete_my_maker_order, MakerStepOf, StepOf
  <2>2. UNCHANGED messageVars /\ Later
    BY <1>7, MapsOfMaker DEF delete_my_maker_order, Later
  <2>. QED
    BY <1>0, <1>7, <2>1, <2>2, MapsOfMaker, Updated, HandlerFacts
       DEF delete_my_maker_order, MakerOwn, Plain
<1>8. CASE UpdateBegins(o)
  <2>1. MakerStepOf(o)
    BY <1>8, MapsOfMaker, Updated DEF UpdateBegins, Enters, Disturbed, MakerStepOf, StepOf
  <2>2. UNCHANGED messageVars /\ Later
    BY <1>8, MapsOfMaker DEF UpdateBegins, Disturbed, Later
  <2>3. waiting'[o] \subseteq waiting[o] \cup Loops
    BY <1>8, MapsOfMaker, Updated, HandlerFacts DEF UpdateBegins, Enters
  <2>4. before'[o] = order[o] /\ mutex'[o] = "free"
    BY <1>8, MapsOfMaker, Updated DEF UpdateBegins
  <2>. QED
    BY <1>0, <1>8, <2>1, <2>2, <2>3, <2>4 DEF UpdateBegins, MakerOwn, Plain
<1>9. CASE UpdateLooksUpAgain(o)
  <2>1. MakerStepOf(o)
    BY <1>9, MapsOfMaker, Updated DEF UpdateLooksUpAgain, MakerStepOf, StepOf
  <2>2. UNCHANGED messageVars /\ Later
    BY <1>9, MapsOfMaker DEF UpdateLooksUpAgain, Later
  <2>. QED
    BY <1>0, <1>9, <2>1, <2>2, MapsOfMaker, Updated, HandlerFacts
       DEF UpdateLooksUpAgain, MakerOwn, Plain
<1>10. CASE cancel_order(o)
  <2>1. MakerStepOf(o)
    BY <1>10, MapsOfMaker, Updated DEF cancel_order, RemoveOrder, Disturbed, MakerStepOf, StepOf
  <2>2. UNCHANGED messageVars /\ Later
    BY <1>10, MapsOfMaker DEF cancel_order, Disturbed, Later
  <2>3. inMap'[o] = FALSE /\ mutex'[o] = "cancel" /\ advert'[o] = 0
    BY <1>10, MapsOfMaker, Updated DEF cancel_order, RemoveOrder
  <2>. QED
    BY <1>0, <1>10, <2>1, <2>2, <2>3 DEF cancel_order, MakerOwn, Plain
<1>11. CASE cancel_previous_maker_orders(o)
  <2>1. MakerStepOf(o)
    BY <1>11, MapsOfMaker, Updated DEF cancel_previous_maker_orders, RemoveOrder, Disturbed, MakerStepOf, StepOf
  <2>2. UNCHANGED messageVars /\ Later
    BY <1>11, MapsOfMaker DEF cancel_previous_maker_orders, Disturbed, Later
  <2>3. inMap'[o] = FALSE /\ mutex'[o] = "delete" /\ advert'[o] = 0
    BY <1>11, MapsOfMaker, Updated DEF cancel_previous_maker_orders, RemoveOrder
  <2>. QED
    BY <1>0, <1>11, <2>1, <2>2, <2>3 DEF cancel_previous_maker_orders, MakerOwn, Plain
<1>12. CASE cancel_orders_by(o)
  <2>1. MakerStepOf(o)
    BY <1>12, MapsOfMaker, Updated DEF cancel_orders_by, Enters, Disturbed, MakerStepOf, StepOf
  <2>2. UNCHANGED messageVars /\ Later
    BY <1>12, MapsOfMaker DEF cancel_orders_by, Disturbed, Later
  <2>. QED
    BY <1>0, <1>12, <2>1, <2>2, MapsOfMaker, Updated, HandlerFacts
       DEF cancel_orders_by, Enters, MakerOwn, Plain
<1>13. CASE CancelByRemoves(o)
  <2>1. MakerStepOf(o)
    BY <1>13, MapsOfMaker, Updated DEF CancelByRemoves, MakerStepOf, StepOf
  <2>2. UNCHANGED messageVars /\ Later
    BY <1>13, MapsOfMaker DEF CancelByRemoves, Later
  <2>3. waiting'[o] \subseteq waiting[o] \cup Loops
    BY <1>13, MapsOfMaker, Updated, HandlerFacts DEF CancelByRemoves
  <2>4. inMap'[o] = FALSE /\ mutex'[o] = mutex[o] /\ advert'[o] = advert[o]
    BY <1>13, MapsOfMaker, Updated DEF CancelByRemoves
  <2>. QED
    BY <1>0, <1>13, <2>1, <2>2, <2>3, <2>4 DEF CancelByRemoves, MakerOwn, Plain
<1>14. CASE CancelByDeletes(o)
  <2>1. MakerStepOf(o)
    BY <1>14, MapsOfMaker, Updated DEF CancelByDeletes, MakerStepOf, StepOf
  <2>2. UNCHANGED messageVars /\ Later
    BY <1>14, MapsOfMaker DEF CancelByDeletes, Later
  <2>. QED
    BY <1>0, <1>14, <2>1, <2>2, MapsOfMaker, Updated, HandlerFacts
       DEF CancelByDeletes, MakerOwn, Plain
<1>15. CASE MakerActivatesCoins(o)
  <2>1. MakerStepOf(o)
    BY <1>15, MapsOfMaker, Updated DEF MakerActivatesCoins, MakerStepOf, StepOf
  <2>2. UNCHANGED messageVars /\ Later
    BY <1>15, MapsOfMaker DEF MakerActivatesCoins, Later
  <2>. QED
    BY <1>0, <1>15, <2>1, <2>2, MapsOfMaker, Updated, HandlerFacts
       DEF MakerActivatesCoins, MakerOwn, Plain
<1>16. CASE disable_coin(o)
  <2>1. MakerStepOf(o)
    BY <1>16, MapsOfMaker, Updated DEF disable_coin, MakerStepOf, StepOf
  <2>2. UNCHANGED messageVars /\ Later
    BY <1>16, MapsOfMaker DEF disable_coin, Disturbed, Later
  <2>3. mDisabling'[o] = "cancels"
    BY <1>16, MapsOfMaker, Updated DEF disable_coin
  <2>. QED
    BY <1>0, <1>16, <2>1, <2>2, <2>3 DEF disable_coin, MakerOwn, Plain
<1>17. CASE DisableCancels(o)
  <2>1. MakerStepOf(o)
    BY <1>17, MapsOfMaker, Updated DEF DisableCancels, MakerStepOf, StepOf
  <2>2. UNCHANGED messageVars /\ Later
    BY <1>17, MapsOfMaker DEF DisableCancels, Later
  <2>3. waiting'[o] \subseteq waiting[o] \cup Loops
    BY <1>17, MapsOfMaker, Updated, HandlerFacts DEF DisableCancels
  <2>4. mDisabling'[o] = "removes"
    BY <1>17, MapsOfMaker, Updated DEF DisableCancels
  <2>. QED
    BY <1>0, <1>17, <2>1, <2>2, <2>3, <2>4 DEF DisableCancels, MakerOwn, Plain
<1>18. CASE remove_coin(o)
  <2>1. MakerStepOf(o)
    BY <1>18, MapsOfMaker, Updated DEF remove_coin, MakerStepOf, StepOf
  <2>2. UNCHANGED messageVars /\ Later
    BY <1>18, MapsOfMaker DEF remove_coin, Later
  <2>3. mCoins'[o] = FALSE /\ mDisabled'[o] = TRUE /\ mDisabling'[o] = "no"
    BY <1>18, MapsOfMaker, Updated DEF remove_coin
  <2>. QED
    BY <1>0, <1>18, <2>1, <2>2, <2>3 DEF remove_coin, MakerOwn, Plain
<1>. QED
    BY <1>1, <1>2, <1>3, <1>4, <1>5, <1>6, <1>7, <1>8, <1>9, <1>10, <1>11, <1>12, <1>13, <1>14,
       <1>15, <1>16, <1>17, <1>18

\* What a sound order has left is a natural number.
LEMMA SoundAvailable ==
    ASSUME NEW ord, Sound(ord)
    PROVE  /\ ord \in MakerOrder /\ ord.max \in Nat /\ reserved_amount(ord) \in Nat
           /\ available_amount(ord) \in Nat /\ available_amount(ord) <= ord.max
           /\ reserved_amount(ord) + available_amount(ord) = ord.max
<1>1. ord \in MakerOrder /\ IsFiniteSet(Taken(ord)) /\ reserved_amount(ord) <= ord.max
    BY DEF Sound
<1>2. reserved_amount(ord) \in Nat /\ ord.max \in Nat
    BY <1>1, ReservedIsSum, OrderFacts
<1>. QED
    BY <1>1, <1>2 DEF available_amount

\* A step that changes the order, keeps it sound and releases reserved matches only.
Changes(o) ==
    /\ MakerStepOf(o) /\ UNCHANGED messageVars /\ Later
    /\ Sound(order'[o]) /\ file'[o] = file[o] /\ before'[o] \in {NoOrder, before[o]}
    /\ \A r \in Requests :
          \/ order'[o].matches[r] = order[o].matches[r]
          \/ order[o].matches[r].st = "reserved" /\ order'[o].matches[r] = NoMatch
    /\ advert'[o] \in Nat /\ waiting'[o] \subseteq waiting[o] \cup Loops
    /\ inMap'[o] \in BOOLEAN /\ mutex'[o] \in {"free", "save", "update", "delete", "cancel"}
    /\ Reversible(o)'
    /\ cancelled'[o] = cancelled[o] /\ UNCHANGED nodeVars

\* It is quiet.
LEMMA ChangeIsQuiet ==
    ASSUME BookInv, NEW o \in Orders, MakerOwn(o), Changes(o)
    PROVE  Quiet(o)
<1>1. MakerOwn(o)'
  <2>1. before'[o] \in MakerOrder
    BY NoOrderSound DEF MakerOwn, Changes, Sound
  <2>2. waiting'[o] \subseteq Handlers
    BY HandlerFacts DEF MakerOwn, Changes
  <2>3. mCrashes'[o] \in 0..disturbances'
    BY DEF MakerOwn, Changes, Later, nodeVars
  <2>. QED
    BY <2>1, <2>2, <2>3, Zenon DEF MakerOwn, Changes, nodeVars
<1>2. Kept(o)
  <2>1. mCrashes[o] <= mCrashes'[o]
    BY DEF MakerOwn, Changes, Later, nodeVars
  <2>. QED
    BY <2>1 DEF Changes, Kept, nodeVars
<1>. QED
    BY <1>1, <1>2 DEF Changes, Quiet, SomeFail, messageVars, nodeVars, BookInv, Spawned

\* Old matches are released.
LEMMA TimeoutQuiet ==
    ASSUME BookInv, NEW o \in Orders, handle_timed_out_maker_matches(o)
    PROVE  Quiet(o)
<1>0. MakerOwn(o)
    BY MapsOfMaker
<1>1. PICK old \in SUBSET timed_out_matches(o) :
         /\ order' = [order EXCEPT ![o].matches =
                           [r \in Requests |-> IF r \in old THEN NoMatch ELSE @[r]]]
         /\ mutex' = [mutex EXCEPT ![o] = IF old = {} THEN "free" ELSE "save"]
    BY DEF handle_timed_out_maker_matches
<1>. DEFINE y == [r \in Requests |-> IF r \in old THEN NoMatch ELSE order[o].matches[r]]
<1>2. Upd(order, order', o) /\ order'[o] = [order[o] EXCEPT !.matches = y]
    BY <1>1, MapsOfMaker, Updated
<1>3. old \in SUBSET Requests /\ \A r \in old : order[o].matches[r].st = "reserved"
    BY <1>1 DEF timed_out_matches, Matched
<1>4. \A r \in Requests : y[r] = IF r \in old THEN NoMatch ELSE order[o].matches[r]
    OBVIOUS
<1>5. Sound(order'[o]) /\ order'[o].matches = y
    BY <1>0, <1>2, <1>3, SoundRelease DEF MakerOwn
<1>. HIDE DEF y
<1>6. MakerStepOf(o)
    BY <1>1, <1>2, MapsOfMaker, Updated
       DEF handle_timed_out_maker_matches, Locks, MakerStepOf, StepOf, nodeVars
<1>7. waiting'[o] \subseteq waiting[o] /\ mutex'[o] \in {"free", "save"}
    BY <1>1, MapsOfMaker, Updated DEF handle_timed_out_maker_matches, Locks
<1>8. /\ UNCHANGED <<inMap, before, file, advert, cancelled, nodeVars, messageVars>> /\ Later
    BY MapsOfMaker DEF handle_timed_out_maker_matches, Later, netVars
<1>9. \A r \in Requests :
          \/ order'[o].matches[r] = order[o].matches[r]
          \/ order[o].matches[r].st = "reserved" /\ order'[o].matches[r] = NoMatch
    BY <1>3, <1>4, <1>5
<1>10. Changes(o)
    BY <1>0, <1>5, <1>6, <1>7, <1>8, <1>9 DEF Changes, MakerOwn, Reversible
<1>. QED
    BY <1>0, <1>10, ChangeIsQuiet

\* The volume of an order is advertised.
LEMMA Advertised ==
    ASSUME BookInv, NEW o \in Orders, NEW ord, available_amount(ord) \in Nat, Advertise(o, ord)
    PROVE  Upd(advert, advert', o) /\ advert'[o] \in Nat
<1>. DEFINE v == IF advert[o] = 0 THEN 0 ELSE available_amount(ord)
<1>1. advert' = [advert EXCEPT ![o] = v] /\ v \in Nat
    BY DEF Advertise
<1>. HIDE DEF v
<1>. QED
    BY <1>1, MapsOfMaker, Updated

\* The mutex is released after a save, of this order or of the one before it.
LEMMA SavedIsQuiet ==
    ASSUME BookInv, NEW o \in Orders, MakerOwn(o),
           UNCHANGED <<inMap, waiting, cancelled, nodeVars, messageVars>>, Later,
           Upd(mutex, mutex', o), mutex'[o] = "free", Upd(before, before', o), before'[o] = NoOrder,
           Upd(order, order', o), Sound(order'[o]), order'[o].matches = order[o].matches,
           Upd(file, file', o), file'[o] \in {file[o], order[o]},
           Upd(advert, advert', o), advert'[o] \in Nat
    PROVE  Quiet(o)
<1>1. MakerStepOf(o)
    BY MapsOfMaker, Updated DEF MakerStepOf, StepOf, nodeVars
<1>2. MakerOwn(o)'
  <2>1. Sound(file'[o]) /\ before'[o] \in MakerOrder /\ Reversible(o)'
    BY NoOrderSound DEF MakerOwn, Sound, Reversible
  <2>2. mCrashes'[o] \in 0..disturbances'
    BY DEF MakerOwn, Later, nodeVars
  <2>. QED
    BY <2>1, <2>2, Zenon DEF MakerOwn, nodeVars
<1>3. Kept(o)
  <2>1. mCrashes[o] <= mCrashes'[o]
    BY DEF MakerOwn, Later, nodeVars
  <2>. QED
    BY <2>1 DEF Kept, nodeVars
<1>. QED
    BY <1>1, <1>2, <1>3 DEF Quiet, SomeFail, messageVars, nodeVars, BookInv, Spawned

\* update_maker_order, if the new volume covers what is reserved; the order before the update
\* is kept.
LEMMA UpdateQuiet ==
    ASSUME BookInv, NEW o \in Orders, update_maker_order(o)
    PROVE  Quiet(o)
<1>0. MakerOwn(o)
    BY MapsOfMaker
<1>a. UNCHANGED <<inMap, file, advert, cancelled, nodeVars, netVars>> /\ Locks(o, [kind |-> "update"])
    BY Zenon DEF update_maker_order
<1>1. UNCHANGED <<inMap, file, advert, cancelled, nodeVars, messageVars>> /\ Later
    BY <1>a, MapsOfMaker DEF Later, netVars
<1>2. Upd(waiting, waiting', o) /\ waiting'[o] \subseteq waiting[o] /\ mutex[o] = "free"
    BY <1>a, MapsOfMaker, Updated DEF Locks
<1>3. CASE UNCHANGED <<order, mutex>> /\ before' = [before EXCEPT ![o] = NoOrder]
  <2>1. MakerStepOf(o) /\ before'[o] = NoOrder
    BY <1>1, <1>2, <1>3, MapsOfMaker, Updated DEF MakerStepOf, StepOf, nodeVars
  <2>2. Plain(o)
    BY <1>0, <1>1, <1>2, <1>3, <2>1 DEF Plain, MakerOwn, nodeVars
  <2>. QED
    BY <1>0, <2>2, PlainIsQuiet
<1>4. CASE /\ order[o] = before[o] /\ UNCHANGED before
           /\ \E offer \in Offers \cap cast.offers :
                 /\ NewVolumeAllowed(o, offer)
                 /\ order' = [order EXCEPT ![o] =
                                  [@ EXCEPT !.max = offer.max, !.price = offer.price]]
           /\ mutex' = [mutex EXCEPT ![o] = "update"]
  <2>1. PICK offer \in Offers :
           LET ord == [order[o] EXCEPT !.max = offer.max, !.price = offer.price] IN
           NewVolumeAllowed(o, offer) /\ order' = [order EXCEPT ![o] = ord]
    BY <1>4, Zenon
  <2>. DEFINE ord == [order[o] EXCEPT !.max = offer.max, !.price = offer.price]
  <2>2. offer.max \in Nat /\ offer.price \in Nat
    BY AmountsAssumption
  <2>3. reserved_amount(order[o]) <= offer.max
    BY <1>0, <2>1, <2>2, SoundAvailable DEF NewVolumeAllowed, MakerOwn
  <2>4. order' = [order EXCEPT ![o] = ord]
    BY <2>1
  <2>5. Resized(order[o], ord, offer.max, offer.price)
    BY Zenon DEF Resized
  <2>. HIDE DEF ord
  <2>6. Sound(ord) /\ ord.matches = order[o].matches
    BY <1>0, <2>2, <2>3, <2>5, SoundVolume DEF MakerOwn
  <2>7. Upd(order, order', o) /\ order'[o] = ord
    BY <2>4, MapsOfMaker, Updated
  <2>8. Upd(mutex, mutex', o) /\ mutex'[o] = "update" /\ before'[o] = before[o]
    BY <1>4, MapsOfMaker, Updated
  <2>9. MakerStepOf(o)
    BY <1>1, <1>2, <1>4, <2>7, <2>8, MapsOfMaker, Updated DEF MakerStepOf, StepOf, nodeVars
  <2>10. Reversible(o)'
    BY <1>0, <1>4, <2>6, <2>7, <2>8 DEF Reversible, MakerOwn
  <2>11. Changes(o)
    BY <1>0, <1>1, <1>2, <2>6, <2>7, <2>8, <2>9, <2>10 DEF Changes, MakerOwn
  <2>. QED
    BY <1>0, <2>11, ChangeIsQuiet
<1>. QED
    BY <1>3, <1>4, Zenon DEF update_maker_order

\* The update is saved, or taken back.
LEMMA UpdateSavedQuiet ==
    ASSUME BookInv, NEW o \in Orders, UpdateSaved(o)
    PROVE  Quiet(o)
<1>0. MakerOwn(o) /\ mutex[o] = "update"
    BY MapsOfMaker DEF UpdateSaved
<1>1. UNCHANGED <<inMap, waiting, cancelled, nodeVars, messageVars>> /\ Later
    BY MapsOfMaker DEF UpdateSaved, Later, netVars
<1>2. /\ Upd(mutex, mutex', o) /\ mutex'[o] = "free"
      /\ Upd(before, before', o) /\ before'[o] = NoOrder
    BY MapsOfMaker, Updated DEF UpdateSaved
<1>3. /\ Sound(order[o]) /\ Sound(file[o]) /\ Sound(before[o])
      /\ before[o].matches = order[o].matches
    BY <1>0 DEF MakerOwn, Reversible
<1>4. CASE file' = [file EXCEPT ![o] = order[o]] /\ Advertise(o, order[o]) /\ UNCHANGED order
  <2>1. Upd(file, file', o) /\ file'[o] = order[o] /\ Upd(order, order', o)
    BY <1>4, MapsOfMaker, Updated
  <2>2. Upd(advert, advert', o) /\ advert'[o] \in Nat
    BY <1>3, <1>4, SoundAvailable, Advertised
  <2>. QED
    BY <1>0, <1>1, <1>2, <1>3, <1>4, <2>1, <2>2, SavedIsQuiet
<1>5. CASE /\ \E saved \in {file[o], order[o]} : file' = [file EXCEPT ![o] = saved]
           /\ order' = [order EXCEPT ![o] = before[o]]
           /\ UNCHANGED advert
  <2>1. Upd(file, file', o) /\ file'[o] \in {file[o], order[o]}
    <3>1. PICK saved \in {file[o], order[o]} : file' = [file EXCEPT ![o] = saved]
      BY <1>5
    <3>2. Upd(file, file', o) /\ file'[o] = saved
      BY <3>1, MapsOfMaker, Updated
    <3>. QED
      BY <3>2
  <2>2. Upd(order, order', o) /\ order'[o] = before[o]
    BY <1>5, MapsOfMaker, Updated
  <2>3. Upd(advert, advert', o) /\ advert'[o] \in Nat
    BY <1>0, <1>5, MapsOfMaker, Updated DEF MakerOwn
  <2>. QED
    BY <1>0, <1>1, <1>2, <1>3, <2>1, <2>2, <2>3, SavedIsQuiet
<1>. QED
    BY <1>4, <1>5, Zenon DEF UpdateSaved

\* balance_updated: the order shrinks to what it has reserved and the balance, or is removed.
LEMMA BalanceQuiet ==
    ASSUME BookInv, NEW o \in Orders, NEW v \in Balances, balance_updated(o, v)
    PROVE  Quiet(o)
<1>0. MakerOwn(o)
    BY MapsOfMaker
<1>1. UNCHANGED <<waiting, before, file, cancelled, nodeVars, messageVars>> /\ Later
    BY MapsOfMaker DEF balance_updated, Disturbed, Later
<1>2. CASE RemoveOrder(o, "delete") /\ UNCHANGED order
  <2>1. inMap'[o] = FALSE /\ mutex'[o] = "delete" /\ advert'[o] = 0 /\ MakerStepOf(o)
    BY <1>1, <1>2, MapsOfMaker, Updated DEF RemoveOrder, MakerStepOf, StepOf, nodeVars
  <2>2. Plain(o)
    BY <1>0, <1>1, <1>2, <2>1 DEF Plain, MakerOwn, nodeVars
  <2>. QED
    BY <1>0, <2>2, PlainIsQuiet
<1>3. CASE ~(RemoveOrder(o, "delete") /\ UNCHANGED order)
  <2>. DEFINE m   == reserved_amount(order[o]) + v
              ord == [order[o] EXCEPT !.max = m]
  <2>1. order' = [order EXCEPT ![o] = ord] /\ Advertise(o, ord) /\ UNCHANGED <<inMap, mutex>>
    BY <1>3, Zenon DEF balance_updated
  <2>2. m \in Nat /\ reserved_amount(order[o]) <= m
    BY <1>0, SoundAvailable, AmountsAssumption DEF MakerOwn
  <2>3. Resized(order[o], ord, m, 0)
    BY Zenon DEF Resized
  <2>. HIDE DEF ord, m
  <2>4. /\ Upd(order, order', o) /\ order'[o] = ord /\ Sound(ord) /\ available_amount(ord) \in Nat
        /\ \A r \in Requests : order'[o].matches[r] = order[o].matches[r]
    <3>1. Sound(ord) /\ ord.matches = order[o].matches
      BY <1>0, <2>2, <2>3, SoundVolume DEF MakerOwn
    <3>2. available_amount(ord) \in Nat
      BY <3>1, SoundAvailable
    <3>3. Upd(order, order', o) /\ order'[o] = ord
      BY <2>1, MapsOfMaker, Updated
    <3>. QED
      BY <3>1, <3>2, <3>3
  <2>5. Upd(advert, advert', o) /\ advert'[o] \in Nat
    BY <2>1, <2>4, Advertised
  <2>6. MakerStepOf(o)
    BY <1>1, <2>1, <2>4, <2>5, MapsOfMaker, Updated DEF MakerStepOf, StepOf, nodeVars
  <2>7. mutex[o] = "free"
    BY DEF balance_updated
  <2>8. Changes(o)
    BY <1>0, <1>1, <2>1, <2>4, <2>5, <2>6, <2>7 DEF Changes, MakerOwn, Reversible
  <2>. QED
    BY <1>0, <2>8, ChangeIsQuiet
<1>. QED
    BY <1>2, <1>3

\* The loop announces an order, as far as the balance allows.
LEMMA AnnounceQuiet ==
    ASSUME BookInv, NEW o \in Orders, NEW v \in Balances, Announce(o, v)
    PROVE  Quiet(o)
<1>0. MakerOwn(o)
    BY MapsOfMaker
<1>1. UNCHANGED <<inMap, mutex, before, file, cancelled, nodeVars, messageVars>> /\ Later
    BY MapsOfMaker DEF Announce, Later, netVars
<1>. DEFINE m   == IF v < available_amount(order[o]) THEN reserved_amount(order[o]) + v
                   ELSE order[o].max
            ord == [order[o] EXCEPT !.max = m]
<1>2. /\ order' = [order EXCEPT ![o] = ord] \/ UNCHANGED order
      /\ \/ /\ order' = [order EXCEPT ![o] = ord]
            /\ advert' = [advert EXCEPT ![o] = available_amount(ord)] /\ UNCHANGED waiting
         \/ Enters(o, [kind |-> "to_cancel"]) /\ UNCHANGED advert
    BY Zenon DEF Announce
<1>3. m \in Nat /\ reserved_amount(order[o]) <= m
  <2>1. /\ reserved_amount(order[o]) \in Nat /\ order[o].max \in Nat
        /\ reserved_amount(order[o]) <= order[o].max
    BY <1>0, SoundAvailable DEF MakerOwn, Sound
  <2>. QED
    BY <2>1, AmountsAssumption
<1>4. Resized(order[o], ord, m, 0)
    BY Zenon DEF Resized
<1>. HIDE DEF ord, m
<1>5. Sound(ord) /\ ord.matches = order[o].matches
    BY <1>0, <1>3, <1>4, SoundVolume DEF MakerOwn
<1>6. available_amount(ord) \in Nat
    BY <1>5, SoundAvailable
<1>7. /\ Upd(order, order', o) /\ Sound(order'[o])
      /\ \A r \in Requests : order'[o].matches[r] = order[o].matches[r]
  <2>1. CASE order' = [order EXCEPT ![o] = ord]
    BY <1>5, <2>1, MapsOfMaker, Updated
  <2>2. CASE UNCHANGED order
    BY <1>0, <2>2, MapsOfMaker, Updated DEF MakerOwn
  <2>. QED
    BY <1>2, <2>1, <2>2
<1>8. Upd(advert, advert', o) /\ advert'[o] \in Nat
  <2>1. CASE advert' = [advert EXCEPT ![o] = available_amount(ord)]
    BY <1>6, <2>1, MapsOfMaker, Updated
  <2>2. CASE UNCHANGED advert
    BY <1>0, <2>2, MapsOfMaker, Updated DEF MakerOwn
  <2>. QED
    BY <1>2, <2>1, <2>2
<1>9. Upd(waiting, waiting', o) /\ waiting'[o] \subseteq waiting[o] \cup Loops
  <2>1. CASE Enters(o, [kind |-> "to_cancel"])
    <3>1. Upd(waiting, waiting', o) /\ waiting'[o] = waiting[o] \cup {[kind |-> "to_cancel"]}
      BY <2>1, MapsOfMaker, Updated DEF Enters
    <3>2. [kind |-> "to_cancel"] \in Loops
      BY HandlerFacts
    <3>. QED
      BY <3>1, <3>2
  <2>2. CASE UNCHANGED waiting
    BY <2>2, MapsOfMaker, Updated
  <2>. QED
    BY <1>2, <2>1, <2>2
<1>10. MakerStepOf(o)
    BY <1>1, <1>7, <1>8, <1>9, MapsOfMaker, Updated DEF MakerStepOf, StepOf, nodeVars
<1>11. mutex'[o] = "free"
    BY <1>1 DEF Announce
<1>12. Changes(o)
    BY <1>0, <1>1, <1>7, <1>8, <1>9, <1>10, <1>11 DEF Changes, MakerOwn, Reversible
<1>. QED
    BY <1>0, <1>12, ChangeIsQuiet

\* A new order has no matches.
LEMMA CreateQuiet ==
    ASSUME BookInv, NEW o \in Orders, create_maker_order(o)
    PROVE  Quiet(o)
<1>0. MakerOwn(o) /\ order[o] = NoOrder
    BY MapsOfMaker DEF create_maker_order
<1>1. /\ UNCHANGED <<mutex, waiting, before, cancelled, nodeVars, netVars>>
      /\ inMap' = [inMap EXCEPT ![o] = TRUE]
    BY Zenon DEF create_maker_order
<1>2. PICK offer \in Offers :
         LET ord == [NoOrder EXCEPT !.max = offer.max, !.price = offer.price] IN
         /\ file' = [file EXCEPT ![o] = ord]
         /\ order' = [order EXCEPT ![o] = ord]
         /\ advert' = [advert EXCEPT ![o] = ord.max]
    BY Zenon DEF create_maker_order
<1>. DEFINE ord == [NoOrder EXCEPT !.max = offer.max, !.price = offer.price]
<1>3. /\ file' = [file EXCEPT ![o] = ord] /\ order' = [order EXCEPT ![o] = ord]
      /\ advert' = [advert EXCEPT ![o] = ord.max]
    BY <1>2, Zenon
<1>4. offer.max \in Nat /\ offer.price \in Nat
    BY AmountsAssumption
<1>5. Resized(NoOrder, ord, offer.max, offer.price)
    BY Zenon DEF Resized
<1>. HIDE DEF ord
<1>6. Sound(ord) /\ ord.matches = NoOrder.matches
    BY <1>4, <1>5, NoOrderSound, SoundVolume
<1>7. ord.max \in Nat
    BY <1>6, SoundAvailable
<1>8. Upd(order, order', o) /\ order'[o] = ord /\ Upd(file, file', o) /\ file'[o] = ord
    BY <1>3, MapsOfMaker, Updated
<1>9. /\ Upd(advert, advert', o) /\ advert'[o] = ord.max
      /\ Upd(inMap, inMap', o) /\ inMap'[o] = TRUE
    BY <1>1, <1>3, MapsOfMaker, Updated
<1>10. MakerStepOf(o)
    BY <1>1, <1>8, <1>9, MapsOfMaker, Updated DEF MakerStepOf, StepOf, nodeVars
<1>11. MakerOwn(o)'
  <2>1. Reversible(o)'
    BY <1>0, <1>1, <1>6, <1>8 DEF MakerOwn, Reversible
  <2>. QED
    BY <1>0, <1>1, <1>6, <1>7, <1>8, <1>9, <2>1 DEF MakerOwn, nodeVars, netVars
<1>12. Kept(o)
  <2>1. \A r \in Requests : NoOrder.matches[r] = NoMatch
    BY DEF NoOrder
  <2>2. mCrashes[o] <= mCrashes'[o]
    BY <1>0, <1>1, MapsOfMaker DEF MakerOwn, nodeVars
  <2>. QED
    BY <1>0, <1>1, <1>6, <1>8, <2>1, <2>2 DEF Kept, nodeVars
<1>13. UNCHANGED messageVars /\ Later
    BY <1>1, MapsOfMaker DEF Later, netVars
<1>. QED
    BY <1>1, <1>10, <1>11, <1>12, <1>13
       DEF Quiet, SomeFail, messageVars, nodeVars, BookInv, Spawned

\* A node that dies loads what it saved.
LEMMA RestartQuiet ==
    ASSUME BookInv, NEW o \in Orders, MakerRestarts(o)
    PROVE  Quiet(o)
<1>0. MakerOwn(o)
    BY MapsOfMaker
<1>1. MakerStepOf(o)
    BY MapsOfMaker, Updated DEF MakerRestarts, MakerStepOf, StepOf
<1>2. UNCHANGED <<cast, net, takerSwaps, file, cancelled, mDisabled>> /\ Later
    BY MapsOfMaker DEF MakerRestarts, Disturbed, Later
<1>3. order'[o] \in {order[o], file[o]} /\ before'[o] = NoOrder /\ advert'[o] = 0
    BY MapsOfMaker, Updated DEF MakerRestarts
<1>4. waiting'[o] = {} /\ mutex'[o] = "free" /\ mCrashes'[o] = mCrashes[o] + 1
    BY MapsOfMaker, Updated DEF MakerRestarts
<1>5. inMap'[o] \in BOOLEAN /\ mCoins'[o] = FALSE /\ mDisabling'[o] = "no"
  <2>1. /\ inMap' = [inMap EXCEPT ![o] = file[o] # NoOrder]
        /\ mCoins' = [mCoins EXCEPT ![o] = FALSE]
        /\ mDisabling' = [mDisabling EXCEPT ![o] = "no"]
    BY DEF MakerRestarts
  <2>2. (file[o] # NoOrder) \in BOOLEAN
    OBVIOUS
  <2>. QED
    BY <2>1, <2>2, MapsOfMaker, Updated
<1>6. mCrashes[o] \in 0..disturbances /\ disturbances \in Nat /\ disturbances' = disturbances + 1
    BY <1>0, MapsOfMaker DEF MakerOwn, MakerRestarts, Disturbed
<1>7. MakerOwn(o)'
  <2>1. Sound(order'[o]) /\ Sound(file'[o]) /\ before'[o] \in MakerOrder
    BY <1>0, <1>2, <1>3, NoOrderSound DEF MakerOwn, Sound
  <2>2. mCrashes'[o] \in 0..disturbances'
    BY <1>4, <1>6
  <2>3. waiting'[o] \subseteq Handlers /\ advert'[o] \in Nat
    BY <1>3, <1>4
  <2>5. mCoins'[o] \in BOOLEAN /\ mDisabled'[o] \in BOOLEAN
    BY <1>0, <1>2, <1>5, Zenon DEF MakerOwn
  <2>6. mDisabling'[o] \in {"no", "cancels", "removes"} /\ Reversible(o)'
    BY <1>4, <1>5 DEF Reversible
  <2>4. /\ mutex'[o] \in {"free", "save", "update", "delete", "cancel"}
        /\ cancelled'[o] \in {"no", "idle", "raced"}
    BY <1>0, <1>2, <1>4 DEF MakerOwn
  <2>. QED
    BY <1>5, <2>1, <2>2, <2>3, <2>4, <2>5, <2>6, Zenon DEF MakerOwn
<1>8. ~Steady(o)'
    BY <1>4, <1>6 DEF Steady
<1>9. Kept(o)
    BY <1>2, <1>3, <1>4, <1>6, <1>8 DEF Kept
<1>10. SomeFail(o)
    BY <1>8 DEF MakerRestarts, SomeFail, BookInv, Spawned
<1>. QED
    BY <1>1, <1>2, <1>7, <1>9, <1>10 DEF Quiet

\* A task that was spawned finds the coins, or disable_coin has removed them, or the node was
\* restarted.
LEMMA StartQuiet ==
    ASSUME BookInv, NEW o \in Orders, lp_connect_start_bob(o)
    PROVE  Quiet(o)
<1>0. MakerOwn(o) /\ Backed(o) /\ mStarting \subseteq makerSwaps
    BY MapsOfMaker DEF BookInv, Spawned
<1>1. PICK s \in mStarting :
         /\ s.o = o /\ mStarting' = mStarting \ {s}
         /\ makerSwaps' = IF mCoins[o] THEN makerSwaps ELSE makerSwaps \ {s}
    BY Zenon DEF lp_connect_start_bob
<1>2. UNCHANGED <<inMap, order, mutex, waiting, before, file, advert, cancelled, mCoins,
                  mDisabling, mDisabled, mCrashes, cast, net, takerSwaps, disturbances>>
    BY Zenon DEF lp_connect_start_bob
<1>3. MakerStepOf(o) /\ Later
    BY <1>2, MapsOfMaker, Updated DEF MakerStepOf, StepOf, Later
<1>4. MakerOwn(o)'
    BY <1>0, <1>2 DEF MakerOwn, Reversible
<1>5. Kept(o)
  <2>1. mCrashes[o] <= mCrashes'[o]
    BY <1>0, <1>2, MapsOfMaker DEF MakerOwn
  <2>. QED
    BY <1>2, <2>1 DEF Kept
<1>6. SomeFail(o)
  <2>1. ~mCoins[o] => ~Steady(o)'
    BY <1>0, <1>2 DEF Backed, Steady
  <2>. QED
    BY <1>0, <1>1, <2>1 DEF SomeFail
<1>. QED
    BY <1>2, <1>3, <1>4, <1>5, <1>6 DEF Quiet

-----------------------------------------------------------------------------
(* What a step of a maker keeps.                                           *)

\* What concerns one node only.
LEMMA OwnKept ==
    ASSUME BookInv, NEW o \in Orders, MakerStepOf(o), MakerOwn(o)', Later,
           UNCHANGED takerVars, UNCHANGED takerSwaps
    PROVE  MakerBook' /\ TakerBook'
<1>1. ASSUME NEW u \in Orders \ {o} PROVE MakerOwn(u)'
  <2>1. MakerOwn(u)
    BY MapsOfMaker
  <2>2. /\ inMap'[u] = inMap[u] /\ order'[u] = order[u] /\ mutex'[u] = mutex[u]
        /\ waiting'[u] = waiting[u] /\ file'[u] = file[u] /\ cancelled'[u] = cancelled[u]
        /\ before'[u] = before[u] /\ advert'[u] = advert[u] /\ mCoins'[u] = mCoins[u]
        /\ mDisabling'[u] = mDisabling[u] /\ mDisabled'[u] = mDisabled[u]
        /\ mCrashes'[u] = mCrashes[u]
    BY <1>1 DEF MakerStepOf, StepOf, Upd
  <2>3. mCrashes'[u] \in 0..disturbances'
    BY <2>1, <2>2 DEF MakerOwn, Later
  <2>. QED
    BY <2>1, <2>2, <2>3 DEF MakerOwn, Reversible
<1>2. MakerBook'
    BY <1>1 DEF MakerBook, MakerStepOf, Upd
<1>3. ASSUME NEW r \in Requests PROVE TakerOwn(r)'
  <2>1. TakerOwn(r)
    BY DEF BookInv, TakerBook
  <2>2. tCrashes'[r] \in 0..disturbances'
    BY <2>1 DEF TakerOwn, Later, takerVars, tNodeVars
  <2>3. MatchOf(r, taker[r].match)' /\ MatchOf(r, tFile[r].match)'
    BY <2>1 DEF TakerOwn, MatchOf, takerVars
  <2>. QED
    BY <2>1, <2>2, <2>3 DEF TakerOwn, takerVars, tNodeVars
<1>4. TakerBook'
    BY <1>3 DEF BookInv, TakerBook, takerVars, tNodeVars
<1>. QED
    BY <1>2, <1>4

\* The step leaves another order alone.
LEMMA OthersKept ==
    ASSUME NEW o \in Orders, NEW u \in Orders \ {o}, MakerStepOf(o)
    PROVE  /\ order'[u] = order[u] /\ file'[u] = file[u] /\ waiting'[u] = waiting[u]
           /\ mCoins'[u] = mCoins[u] /\ mDisabled'[u] = mDisabled[u] /\ mCrashes'[u] = mCrashes[u]
BY DEF MakerStepOf, StepOf, Upd

\* A pair whose deals do not become more.
LEMMA DealsKept ==
    ASSUME NEW r \in Requests, NEW o \in Orders, OneDeal(r, o), Deals(r, o)' \subseteq Deals(r, o),
           Requested(r, o)' => Requested(r, o), Chooses(r, o)' => Chooses(r, o),
           taker'[r].st = "none" => taker[r].st = "none",
           ~(TakerRequest(r, o) \in net' /\ Requesting(r) \in waiting'[o]),
           MakerConnected(r, o) \in net' /\ Steady(o)' => Started(r, o)'
    PROVE  OneDeal(r, o)'
BY DEF OneDeal

\* A request for which no more orders are chosen.
LEMMA ChosenKept ==
    ASSUME NEW r \in Requests, FewChosen(r), Chosen(r)' \subseteq Chosen(r), tCrashes[r] \in Nat,
           \/ tCrashes'[r] = tCrashes[r] /\ (taker'[r].match = {} => taker[r].match = {})
           \/ tCrashes'[r] = tCrashes[r] + 1
    PROVE  FewChosen(r)'
<1>1. IsFiniteSet(Chosen(r)) /\ Cardinality(Chosen(r)) \in Nat
    BY FS_CardinalityType DEF FewChosen
<1>2. /\ IsFiniteSet(Chosen(r)') /\ Cardinality(Chosen(r)') <= Cardinality(Chosen(r))
      /\ Cardinality(Chosen(r)') \in Nat
    BY <1>1, FS_Subset, FS_CardinalityType
<1>. QED
    BY <1>1, <1>2 DEF FewChosen

\* A quiet step keeps the invariant.
LEMMA QuietKeeps ==
    ASSUME BookInv, CancelInv', NEW o \in Orders, Quiet(o), UNCHANGED takerVars
    PROVE  BookInv'
<1>0. /\ MakerStepOf(o) /\ MakerOwn(o)' /\ Kept(o) /\ Later
      /\ net' = net /\ takerSwaps' = takerSwaps /\ cast' = cast
      /\ makerSwaps' \subseteq makerSwaps /\ mStarting' \subseteq makerSwaps'
      /\ \A s \in makerSwaps \ makerSwaps' : s.o = o /\ ~Steady(o)'
    BY DEF Quiet, SomeFail
<1>1. MakerBook' /\ TakerBook'
    BY <1>0, OwnKept
<1>2. NetTypeOK'
    BY <1>0, AmountsAssumption DEF BookInv, NetTypeOK, Later
<1>3. ASSUME NEW r \in Requests, NEW u \in Orders
      PROVE  /\ Deals(r, u)' \subseteq Deals(r, u)
             /\ Requesting(r) \in waiting'[u] => Requesting(r) \in waiting[u]
             /\ Connecting(r) \in waiting'[u] => Connecting(r) \in waiting[u]
  <2>1. /\ order'[u].matches[r] \in {NoMatch, order[u].matches[r], file[u].matches[r]}
        /\ file'[u].matches[r] \in {NoMatch, order[u].matches[r], file[u].matches[r]}
    BY <1>0, OthersKept DEF Kept
  <2>2. \A d : ~MatchedWith(NoMatch, d)
    BY DEF MatchedWith, NoMatch
  <2>3. Deals(r, u)' \subseteq Deals(r, u)
    BY <1>0, <2>1, <2>2 DEF Deals, takerVars
  <2>4. waiting'[u] \subseteq waiting[u] \cup Loops
    BY <1>0, OthersKept DEF Kept
  <2>. QED
    BY <2>3, <2>4, HandlerFacts
<1>a. ASSUME NEW u \in Orders
      PROVE  (mCrashes'[u] = 0 => mCrashes[u] = 0) /\ (Steady(u)' => Steady(u))
  <2>1. mCrashes[u] \in Nat /\ mCrashes'[u] \in Nat
    BY <1>0, <1>1, MapsOfMaker DEF MakerBook, MakerOwn, Later
  <2>2. mCrashes[u] <= mCrashes'[u] /\ (mDisabled[u] => mDisabled'[u])
    BY <1>0, <2>1, OthersKept DEF Kept
  <2>. QED
    BY <2>1, <2>2 DEF Steady
<1>b. ASSUME NEW s \in makerSwaps, Steady(s.o)' PROVE s \in makerSwaps'
    BY <1>0, <1>b
<1>4. ASSUME NEW r \in Requests, NEW u \in Orders PROVE OneDeal(r, u)'
  <2>1. OneDeal(r, u)
    BY DEF BookInv
  <2>2. (Requested(r, u)' => Requested(r, u)) /\ (Chooses(r, u)' => Chooses(r, u))
    BY <1>0, <1>3 DEF Requested, Chooses
  <2>3. ~(TakerRequest(r, u) \in net' /\ Requesting(r) \in waiting'[u])
    BY <1>0, <1>3, <2>1 DEF OneDeal
  <2>4. MakerConnected(r, u) \in net' /\ Steady(u)' => Started(r, u)'
    BY <1>0, <1>a, <1>b, <2>1 DEF OneDeal, Started
  <2>5. taker'[r].st = "none" => taker[r].st = "none"
    BY DEF takerVars
  <2>. QED
    BY <1>3, <2>1, <2>2, <2>3, <2>4, <2>5, DealsKept
<1>5. ASSUME NEW r \in Requests PROVE FewChosen(r)'
  <2>1. Chosen(r)' \subseteq Chosen(r)
    BY <1>0, <1>3 DEF Chosen, Chooses, Started
  <2>2. FewChosen(r) /\ tCrashes[r] \in Nat /\ tCrashes'[r] = tCrashes[r] /\ taker'[r] = taker[r]
    BY <1>0 DEF BookInv, TakerBook, TakerOwn, takerVars, tNodeVars, Later
  <2>. QED
    BY <2>1, <2>2, ChosenKept
<1>6. ASSUME NEW u \in Orders PROVE Backed(u)'
  <2>1. Backed(u)
    BY DEF BookInv
  <2>2. Steady(u)' => mCoins'[u]
    BY <1>0, <1>a, <2>1, OthersKept DEF Kept, Backed
  <2>3. ASSUME mCrashes'[u] = 0, NEW s \in makerSwaps', s.o = u
        PROVE  order'[u].matches[s.r] = [st |-> "connected", base |-> s.base, rel |-> s.rel]
    <3>1. s \in makerSwaps /\ mCrashes[u] = 0
      BY <1>0, <1>a, <2>3
    <3>2. order[u].matches[s.r] = [st |-> "connected", base |-> s.base, rel |-> s.rel]
      BY <2>1, <2>3, <3>1, Zenon DEF Backed
    <3>3. s.r \in Requests /\ order[u].matches[s.r].st = "connected"
      BY <3>1, <3>2 DEF BookInv, NetTypeOK, Swaps
    <3>4. order'[u].matches[s.r] = order[u].matches[s.r]
      BY <1>0, <2>3, <3>3, OthersKept DEF Kept
    <3>. QED
      BY <3>2, <3>4
  <2>. QED
    BY <2>2, <2>3 DEF Backed
<1>7. ASSUME NEW s \in takerSwaps' PROVE BothStarted(s)'
  <2>1. BothStarted(s) /\ s.o \in Orders
    BY <1>0 DEF BookInv, NetTypeOK, Swaps
  <2>. QED
    BY <1>0, <1>a, <1>b, <2>1 DEF BothStarted
<1>8. IsFiniteSet(makerSwaps') /\ Spawned'
  <2>1. IsFiniteSet(makerSwaps) /\ tStarting \subseteq takerSwaps
    BY DEF BookInv, Spawned
  <2>2. IsFiniteSet(makerSwaps')
    BY <1>0, <2>1, FS_Subset
  <2>. QED
    BY <1>0, <2>1, <2>2 DEF Spawned, takerVars, tNodeVars
<1>. QED
    BY <1>1, <1>2, <1>4, <1>5, <1>6, <1>7, <1>8 DEF BookInv

-----------------------------------------------------------------------------
(* The handlers of the makers' messages.                                   *)

\* Messages and swaps can be told apart, and say what they say.
LEMMA MessageFacts ==
    /\ \A r, o, u, v : TakerRequest(r, o) = TakerRequest(u, v) => r = u /\ o = v
    /\ \A r, o, u, v : TakerConnect(r, o) = TakerConnect(u, v) => r = u /\ o = v
    /\ \A r, o, u, v : MakerConnected(r, o) = MakerConnected(u, v) => r = u /\ o = v
    /\ \A r, o, b, q, u, v, c, p : MakerReserved(r, o, b, q) = MakerReserved(u, v, c, p)
                                       => r = u /\ o = v /\ b = c /\ q = p
    /\ \A r, o, b, q, u, v, c, p : Swap(r, o, b, q) = Swap(u, v, c, p)
                                       => r = u /\ o = v /\ b = c /\ q = p
    /\ \A r, o, u, v : /\ TakerRequest(r, o) # TakerConnect(u, v)
                       /\ TakerRequest(r, o) # MakerConnected(u, v)
                       /\ TakerConnect(r, o) # MakerConnected(u, v)
    /\ \A r, o, u, v, c, p : /\ TakerRequest(r, o) # MakerReserved(u, v, c, p)
                             /\ TakerConnect(r, o) # MakerReserved(u, v, c, p)
                             /\ MakerConnected(r, o) # MakerReserved(u, v, c, p)
    /\ \A r \in Requests, o \in Orders, b \in Nat, q \in Nat : Swap(r, o, b, q) \in Swaps
    /\ \A r, o, b, q : /\ Swap(r, o, b, q).r = r /\ Swap(r, o, b, q).o = o
                       /\ Swap(r, o, b, q).base = b /\ Swap(r, o, b, q).rel = q
    /\ \A s \in Swaps : s = Swap(s.r, s.o, s.base, s.rel)
BY DEF TakerRequest, TakerConnect, MakerConnected, MakerReserved, Swap, Swaps

\* A message keeps the net well typed.
LEMMA NetFacts ==
    ASSUME NEW r \in Requests, NEW o \in Orders, NEW b \in Nat, NEW q \in Nat
    PROVE  {TakerRequest(r, o), TakerConnect(r, o), MakerConnected(r, o), MakerReserved(r, o, b, q)}
               \subseteq [type : {"request", "connect", "connected"}, r : Requests, o : Orders]
                   \cup [type : {"reserved"}, r : Requests, o : Orders, base : Nat, rel : Nat]
BY DEF TakerRequest, TakerConnect, MakerConnected, MakerReserved

\* What is left to show of a handler that does not concern the life of the node.
LEMMA HandlerKeepsBook ==
    ASSUME BookInv, CancelInv', NEW o \in Orders, MakerStepOf(o), MakerOwn(o)', Later,
           UNCHANGED <<takerVars, takerSwaps>>, NetTypeOK', IsFiniteSet(makerSwaps'),
           makerSwaps \subseteq makerSwaps', \A s \in makerSwaps' : s \in makerSwaps \/ s.o = o,
           mCrashes'[o] = mCrashes[o], mDisabled'[o] = mDisabled[o], Backed(o)',
           mStarting' \subseteq makerSwaps',
           \A r \in Requests : Chosen(r)' \subseteq Chosen(r),
           \A r \in Requests, u \in Orders : OneDeal(r, u)'
    PROVE  BookInv'
<1>1. MakerBook' /\ TakerBook'
    BY OwnKept
<1>2. ASSUME NEW r \in Requests PROVE FewChosen(r)'
  <2>1. Chosen(r)' \subseteq Chosen(r)
    OBVIOUS
  <2>2. FewChosen(r) /\ tCrashes[r] \in Nat /\ tCrashes'[r] = tCrashes[r] /\ taker'[r] = taker[r]
    BY DEF BookInv, TakerBook, TakerOwn, takerVars, tNodeVars, Later
  <2>. QED
    BY <2>1, <2>2, ChosenKept
<1>3. ASSUME NEW u \in Orders \ {o} PROVE Backed(u)'
  <2>1. Backed(u)
    BY DEF BookInv
  <2>2. \A s \in makerSwaps' : s.o = u => s \in makerSwaps
    OBVIOUS
  <2>. QED
    BY <2>1, <2>2, OthersKept DEF Backed, Steady
<1>4. ASSUME NEW s \in takerSwaps' PROVE BothStarted(s)'
  <2>1. BothStarted(s) /\ s.o \in Orders
    BY DEF BookInv, NetTypeOK, Swaps
  <2>2. mCrashes'[s.o] = mCrashes[s.o] /\ mDisabled'[s.o] = mDisabled[s.o]
    BY <2>1, OthersKept
  <2>. QED
    BY <2>1, <2>2 DEF BothStarted, Steady
<1>5. \A u \in Orders : Backed(u)'
    BY <1>3
<1>6. /\ \A r \in Requests, u \in Orders : OneDeal(r, u)'
      /\ \A r \in Requests : FewChosen(r)' 
      /\ \A s \in takerSwaps' : BothStarted(s)'
    BY <1>2, <1>4
<1>7. Spawned'
    BY DEF BookInv, Spawned, takerVars, tNodeVars
<1>. QED
    BY <1>1, <1>5, <1>6, <1>7 DEF BookInv

\* A message comes in: it is forgotten if the order is not in the map.
LEMMA ArrivalKeeps ==
    ASSUME BookInv, CancelInv', NEW o \in Orders, NEW r \in Requests, UNCHANGED takerVars,
           TakerRequestArrives(r, o) \/ TakerConnectArrives(r, o)
    PROVE  BookInv'
<1>1. PICK m, h :
         /\ \/ m = TakerRequest(r, o) /\ h = Requesting(r)
            \/ m = TakerConnect(r, o) /\ h = Connecting(r)
         /\ m \in net /\ net' = net \ {m}
         /\ \/ Enters(o, h)
            \/ ~inMap[o] /\ UNCHANGED waiting
         /\ UNCHANGED <<inMap, order, mutex, before, file, advert, cancelled, nodeVars,
                        cast, disturbances, makerSwaps, takerSwaps>>
  <2>1. CASE TakerRequestArrives(r, o)
    BY <2>1, Zenon DEF TakerRequestArrives, Receive, Requesting
  <2>2. CASE TakerConnectArrives(r, o)
    BY <2>2, Zenon DEF TakerConnectArrives, Receive, Connecting
  <2>. QED
    BY <2>1, <2>2
<1>2. Upd(waiting, waiting', o) /\ waiting'[o] \subseteq waiting[o] \cup {h}
  <2>1. CASE Enters(o, h)
    BY <2>1, MapsOfMaker, Updated DEF Enters
  <2>2. CASE UNCHANGED waiting
    BY <2>2, MapsOfMaker, Updated
  <2>. QED
    BY <1>1, <2>1, <2>2
<1>3. MakerStepOf(o)
    BY <1>1, <1>2, MapsOfMaker, Updated DEF MakerStepOf, StepOf, nodeVars
<1>4. MakerOwn(o)'
  <2>1. MakerOwn(o) /\ h \in Handlers
    BY <1>1, MapsOfMaker, HandlerFacts
  <2>2. waiting'[o] \subseteq Handlers
    BY <1>2, <2>1 DEF MakerOwn
  <2>. QED
    BY <1>1, <1>2, <2>1, <2>2 DEF MakerOwn, nodeVars, Reversible
<1>5. Later /\ NetTypeOK'
    BY <1>1, MapsOfMaker DEF Later, BookInv, NetTypeOK
<1>6. ASSUME NEW u \in Requests, NEW v \in Orders
      PROVE  /\ Requesting(u) \in waiting'[v] => \/ Requesting(u) \in waiting[v]
                                                 \/ u = r /\ v = o /\ m = TakerRequest(r, o)
             /\ Connecting(u) \in waiting'[v] => \/ Connecting(u) \in waiting[v]
                                                 \/ u = r /\ v = o /\ m = TakerConnect(r, o)
  <2>1. CASE v # o
    BY <1>3, <2>1, OthersKept
  <2>2. CASE v = o
    BY <1>1, <1>2, <2>2, HandlerFacts
  <2>. QED
    BY <2>1, <2>2
<1>7. ASSUME NEW u \in Requests, NEW v \in Orders
      PROVE  (Requested(u, v)' => Requested(u, v)) /\ (Chooses(u, v)' => Chooses(u, v))
    BY <1>1, <1>6 DEF Requested, Chooses
<1>8. ASSUME NEW u \in Requests, NEW v \in Orders PROVE OneDeal(u, v)'
  <2>1. OneDeal(u, v)
    BY DEF BookInv
  <2>2. Deals(u, v)' \subseteq Deals(u, v)
    BY <1>1 DEF Deals, takerVars
  <2>3. ~(TakerRequest(u, v) \in net' /\ Requesting(u) \in waiting'[v])
    BY <1>1, <1>6, <2>1 DEF OneDeal
  <2>4. MakerConnected(u, v) \in net' /\ Steady(v)' => Started(u, v)'
    BY <1>1, <2>1 DEF OneDeal, Started, Steady, nodeVars
  <2>5. taker'[u].st = "none" => taker[u].st = "none"
    BY DEF takerVars
  <2>. QED
    BY <1>7, <2>1, <2>2, <2>3, <2>4, <2>5, DealsKept
<1>9. ASSUME NEW u \in Requests PROVE Chosen(u)' \subseteq Chosen(u)
    BY <1>1, <1>7 DEF Chosen, Started
<1>10. Backed(o)' /\ IsFiniteSet(makerSwaps') /\ mStarting' \subseteq makerSwaps'
    BY <1>1 DEF BookInv, Backed, Steady, Spawned, nodeVars
<1>. QED
    BY <1>1, <1>3, <1>4, <1>5, <1>8, <1>9, <1>10, HandlerKeepsBook DEF nodeVars

\* What a request gets are amounts: the order has a price.
LEMMA MatchedAmountsType ==
    ASSUME NEW p \in Nat, p # 0, NEW ord, ord.price = p, NEW req \in TakerOrder
    PROVE  MatchedAmounts(ord, req) \in Amounts
<1>1. req.base \in Nat
    BY DEF TakerOrder
<1>2. req.base * p \in Nat /\ req.base \div p \in Nat
    BY <1>1
<1>. QED
    BY <1>1, <1>2 DEF MatchedAmounts, Amounts

\* process_taker_request that does not fit the request forgets it.
LEMMA RefuseQuiet ==
    ASSUME BookInv, NEW o \in Orders, NEW r \in Requests,
           process_taker_request(r, o, taker[r]), ~Reservable(r, o, taker[r])
    PROVE  Quiet(o)
<1>0. MakerOwn(o)
    BY MapsOfMaker
<1>1. /\ Locks(o, Requesting(r)) /\ UNCHANGED <<order, mutex, net>>
      /\ UNCHANGED <<inMap, before, file, advert, cancelled, nodeVars,
                     cast, disturbances, makerSwaps, takerSwaps>>
    BY Zenon DEF process_taker_request, Requesting
<1>2. Upd(waiting, waiting', o) /\ waiting'[o] \subseteq waiting[o]
    BY <1>1, MapsOfMaker, Updated DEF Locks
<1>3. MakerStepOf(o)
    BY <1>1, <1>2, MapsOfMaker, Updated DEF MakerStepOf, StepOf, nodeVars
<1>4. Plain(o)
    BY <1>0, <1>1, <1>2, <1>3, MapsOfMaker DEF Plain, MakerOwn, Later, messageVars, nodeVars
<1>. QED
    BY <1>0, <1>4, PlainIsQuiet

\* A request that fits is reserved: it came once, and nobody knew of a match.
LEMMA ReserveKeeps ==
    ASSUME BookInv, CancelInv', NEW o \in Orders, NEW r \in Requests, UNCHANGED takerVars,
           process_taker_request(r, o, taker[r]), Reservable(r, o, taker[r])
    PROVE  BookInv'
<1>. DEFINE m == MatchedAmounts(order[o], taker[r])
            new == [st |-> "reserved", base |-> m.base, rel |-> m.rel]
<1>0. MakerOwn(o) /\ TakerOwn(r) /\ OneDeal(r, o) /\ Backed(o)
    BY MapsOfMaker DEF BookInv, TakerBook
<1>1. /\ Locks(o, Requesting(r)) /\ order' = [order EXCEPT ![o].matches[r] = new]
      /\ net' = net \cup {MakerReserved(r, o, m.base, m.rel)}
      /\ mutex' = [mutex EXCEPT ![o] = "save"]
      /\ UNCHANGED <<inMap, before, file, advert, cancelled, nodeVars,
                     cast, disturbances, makerSwaps, takerSwaps>>
    BY Zenon DEF process_taker_request, Broadcast, Requesting
<1>2. m \in Amounts
  <2>1. HasPrice(order[o])
    BY <1>1 DEF BookInv, CancelInv, OrderInv, Locks
  <2>2. order[o].price \in Nat /\ order[o].price # 0
    BY <2>1 DEF HasPrice
  <2>. QED
    BY <1>0, <2>2, MatchedAmountsType DEF TakerOwn
<1>3. m.base <= available_amount(order[o]) /\ order[o].matches[r] = NoMatch
    BY Zenon DEF Reservable, match_with_request
<1>. HIDE DEF m
<1>4. m.base \in Nat /\ m.rel \in Nat
    BY <1>2 DEF Amounts
<1>5. /\ Upd(waiting, waiting', o) /\ waiting'[o] = waiting[o] \ {Requesting(r)}
      /\ Requesting(r) \in waiting[o]
    BY <1>1, MapsOfMaker, Updated DEF Locks
<1>6. /\ Upd(order, order', o)
      /\ order'[o] = [order[o] EXCEPT !.matches[r] = new]
    BY <1>1, MapsOfMaker, Updated
<1>7. Sound(order'[o])
    BY <1>0, <1>3, <1>4, <1>6, SoundReserve DEF MakerOwn
<1>8. order'[o].matches[r] = new /\ \A u \in Requests \ {r} : order'[o].matches[u] = order[o].matches[u]
  <2>1. order[o] \in MakerOrder
    BY <1>0 DEF MakerOwn, Sound
  <2>. HIDE DEF new
  <2>2. order'[o].matches = [order[o].matches EXCEPT ![r] = new]
    BY <1>6, <2>1 DEF MakerOrder
  <2>. QED
    BY <2>1, <2>2, OrderFacts
<1>9. MakerStepOf(o) /\ mutex'[o] = "save"
    BY <1>1, <1>5, <1>6, MapsOfMaker, Updated DEF MakerStepOf, StepOf, nodeVars
<1>10. MakerOwn(o)'
    BY <1>0, <1>1, <1>5, <1>7, <1>9 DEF MakerOwn, nodeVars, Reversible
<1>11. Later /\ NetTypeOK'
  <2>1. {MakerReserved(r, o, m.base, m.rel)} \subseteq
          [type : {"request", "connect", "connected"}, r : Requests, o : Orders]
              \cup [type : {"reserved"}, r : Requests, o : Orders, base : Nat, rel : Nat]
    BY <1>4, NetFacts
  <2>. QED
    BY <1>1, <2>1, MapsOfMaker DEF Later, BookInv, NetTypeOK
<1>12. ASSUME NEW u \in Requests, NEW v \in Orders
       PROVE  /\ (Requested(u, v)' => Requested(u, v)) /\ (Chooses(u, v)' => Chooses(u, v))
              /\ Requesting(u) \in waiting'[v] => Requesting(u) \in waiting[v]
              /\ TakerRequest(u, v) \in net' => TakerRequest(u, v) \in net
              /\ MakerConnected(u, v) \in net' => MakerConnected(u, v) \in net
  <2>1. /\ TakerRequest(u, v) \in net' => TakerRequest(u, v) \in net
        /\ TakerConnect(u, v) \in net' => TakerConnect(u, v) \in net
        /\ MakerConnected(u, v) \in net' => MakerConnected(u, v) \in net
    BY <1>1, MessageFacts
  <2>2. waiting'[v] \subseteq waiting[v]
    BY <1>5, <1>9, OthersKept
  <2>. QED
    BY <2>1, <2>2 DEF Requested, Chooses
<1>13. ~Requested(r, o)' /\ Deals(r, o) = {} /\ taker[r].st # "none"
  <2>1. Requested(r, o) /\ TakerRequest(r, o) \notin net
    BY <1>0, <1>5 DEF Requested, OneDeal
  <2>2. ~Requested(r, o)'
    BY <1>5, <1>12, <2>1 DEF Requested
  <2>. QED
    BY <1>0, <2>1, <2>2 DEF OneDeal
<1>14. ASSUME NEW u \in Requests, NEW v \in Orders PROVE OneDeal(u, v)'
  <2>1. OneDeal(u, v)
    BY DEF BookInv
  <2>2. ~(TakerRequest(u, v) \in net' /\ Requesting(u) \in waiting'[v])
    BY <1>12, <2>1 DEF OneDeal
  <2>3. MakerConnected(u, v) \in net' /\ Steady(v)' => Started(u, v)'
    BY <1>1, <1>12, <2>1 DEF OneDeal, Started, Steady, nodeVars
  <2>4. taker'[u] = taker[u]
    BY DEF takerVars
  <2>5. CASE u # r \/ v # o
    <3>1. Deals(u, v)' \subseteq Deals(u, v)
      <4>1. order'[v].matches[u] = order[v].matches[u]
        BY <1>8, <1>9, <2>5, OthersKept
      <4>2. \A d \in Amounts : MakerReserved(u, v, d.base, d.rel) \in net' =>
                MakerReserved(u, v, d.base, d.rel) \in net
        BY <1>1, <2>5, MessageFacts
      <4>. QED
        BY <1>1, <4>1, <4>2 DEF Deals, takerVars
    <3>. QED
      BY <1>12, <2>1, <2>2, <2>3, <2>4, <3>1, DealsKept
  <2>6. CASE u = r /\ v = o
    <3>1. Deals(r, o)' \subseteq {m}
      <4>1. ASSUME NEW d \in Deals(r, o)' PROVE d = m
        <5>1. d \in Amounts /\ d \notin Deals(r, o)
          BY <1>13, <4>1 DEF Deals
        <5>2. \/ MakerReserved(r, o, d.base, d.rel) = MakerReserved(r, o, m.base, m.rel)
              \/ MatchedWith(new, d)
          BY <1>1, <1>8, <4>1, <5>1 DEF Deals, takerVars
        <5>3. d.base = m.base /\ d.rel = m.rel
          BY <5>2, MessageFacts DEF MatchedWith
        <5>. QED
          BY <1>2, <5>1, <5>3 DEF Amounts
      <4>. QED
        BY <4>1
    <3>. QED
      BY <1>12, <1>13, <2>1, <2>2, <2>3, <2>4, <2>6, <3>1 DEF OneDeal
  <2>. QED
    BY <2>5, <2>6
<1>15. ASSUME NEW u \in Requests PROVE Chosen(u)' \subseteq Chosen(u)
    BY <1>1, <1>12 DEF Chosen, Started
<1>16. Backed(o)'
  <2>. SUFFICES ASSUME mCrashes[o] = 0, NEW s \in makerSwaps, s.o = o
                PROVE  order'[o].matches[s.r] = order[o].matches[s.r]
    BY <1>0, <1>1 DEF Backed, Steady, nodeVars
  <2>1. order[o].matches[s.r] = [st |-> "connected", base |-> s.base, rel |-> s.rel]
    BY <1>0, Zenon DEF Backed
  <2>2. s.r # r /\ s.r \in Requests
    BY <1>3, <2>1 DEF NoMatch, BookInv, NetTypeOK, Swaps
  <2>. QED
    BY <1>8, <2>2
<1>17. /\ IsFiniteSet(makerSwaps') /\ mCrashes'[o] = mCrashes[o] /\ mDisabled'[o] = mDisabled[o]
       /\ mStarting' \subseteq makerSwaps'
    BY <1>1 DEF BookInv, Spawned, nodeVars
<1>. QED
    BY <1>1, <1>9, <1>10, <1>11, <1>14, <1>15, <1>16, <1>17, HandlerKeepsBook

\* A match that is not reserved (any longer) is not connected.
LEMMA IgnoreQuiet ==
    ASSUME BookInv, NEW o \in Orders, NEW r \in Requests,
           process_taker_connect(r, o), order[o].matches[r].st # "reserved"
    PROVE  Quiet(o)
<1>0. MakerOwn(o)
    BY MapsOfMaker
<1>1. /\ Locks(o, Connecting(r)) /\ UNCHANGED <<order, makerSwaps, net, advert, mutex>>
      /\ UNCHANGED <<inMap, before, file, cancelled, nodeVars, cast, disturbances, takerSwaps>>
    BY Zenon DEF process_taker_connect, Connecting, nodeVars
<1>2. Upd(waiting, waiting', o) /\ waiting'[o] \subseteq waiting[o]
    BY <1>1, MapsOfMaker, Updated DEF Locks
<1>3. MakerStepOf(o)
    BY <1>1, <1>2, MapsOfMaker, Updated DEF MakerStepOf, StepOf, nodeVars
<1>4. Plain(o)
    BY <1>0, <1>1, <1>2, <1>3, MapsOfMaker DEF Plain, MakerOwn, Later, messageVars, nodeVars
<1>. QED
    BY <1>0, <1>4, PlainIsQuiet

\* A reserved match is connected, and its swap started with the amounts that were reserved.
LEMMA ConnectKeeps ==
    ASSUME BookInv, CancelInv', NEW o \in Orders, NEW r \in Requests, UNCHANGED takerVars,
           process_taker_connect(r, o), order[o].matches[r].st = "reserved"
    PROVE  BookInv'
<1>. DEFINE m == order[o].matches[r]
            ord == [order[o] EXCEPT !.matches[r].st = "connected"]
            new == [st |-> "connected", base |-> m.base, rel |-> m.rel]
            s0 == Swap(r, o, m.base, m.rel)
<1>0. MakerOwn(o) /\ OneDeal(r, o) /\ Backed(o)
    BY MapsOfMaker DEF BookInv
<1>1. /\ Locks(o, Connecting(r)) /\ order' = [order EXCEPT ![o] = ord]
      /\ makerSwaps' = makerSwaps \cup {s0} /\ mStarting' = mStarting \cup {s0}
      /\ net' = net \cup {MakerConnected(r, o)}
      /\ mutex' = [mutex EXCEPT ![o] = "save"]
      /\ IF available_amount(ord) >= MinVolume THEN Advertise(o, ord) ELSE UNCHANGED advert
      /\ UNCHANGED <<inMap, before, file, cancelled, mCoins, mDisabling, mDisabled, mCrashes,
                     cast, disturbances, takerSwaps>>
    BY Zenon DEF process_taker_connect, Broadcast, Connecting
<1>2. /\ Sound(ord) /\ ord.matches[r] = new
      /\ \A u \in Requests \ {r} : ord.matches[u] = order[o].matches[u]
    BY <1>0, SoundConnect DEF MakerOwn
<1>3. m.base \in Nat /\ m.rel \in Nat
    BY <1>0, OrderFacts DEF MakerOwn, Sound
<1>4. available_amount(ord) \in Nat
    BY <1>2, SoundAvailable
<1>5. Upd(order, order', o) /\ order'[o] = ord
    BY <1>1, MapsOfMaker, Updated
<1>. HIDE DEF ord
<1>6. Upd(advert, advert', o) /\ advert'[o] \in Nat
  <2>1. CASE Advertise(o, ord)
    BY <1>4, <2>1, Advertised
  <2>2. CASE UNCHANGED advert
    BY <1>0, <2>2, MapsOfMaker, Updated DEF MakerOwn
  <2>. QED
    BY <1>1, <2>1, <2>2
<1>7. /\ Upd(waiting, waiting', o) /\ waiting'[o] = waiting[o] \ {Connecting(r)}
      /\ Connecting(r) \in waiting[o]
    BY <1>1, MapsOfMaker, Updated DEF Locks
<1>8. MakerStepOf(o) /\ mutex'[o] = "save"
    BY <1>1, <1>5, <1>6, <1>7, MapsOfMaker, Updated DEF MakerStepOf, StepOf
<1>9. MakerOwn(o)'
    BY <1>0, <1>1, <1>2, <1>5, <1>6, <1>7, <1>8 DEF MakerOwn, Reversible
<1>10. s0 \in Swaps /\ s0.r = r /\ s0.o = o /\ s0.base = m.base /\ s0.rel = m.rel
    BY <1>3, MessageFacts
<1>11. \A d : s0 = Swap(r, o, d.base, d.rel) => d.base = m.base /\ d.rel = m.rel
    BY MessageFacts
<1>. HIDE DEF s0
<1>12. IsFiniteSet(makerSwaps')
    BY <1>1, FS_AddElement DEF BookInv
<1>13. Later /\ NetTypeOK'
  <2>1. {MakerConnected(r, o)} \subseteq
          [type : {"request", "connect", "connected"}, r : Requests, o : Orders]
              \cup [type : {"reserved"}, r : Requests, o : Orders, base : Nat, rel : Nat]
    BY <1>3, NetFacts
  <2>. QED
    BY <1>1, <1>10, <2>1, MapsOfMaker DEF Later, BookInv, NetTypeOK
<1>14. ASSUME NEW u \in Requests, NEW v \in Orders
       PROVE  /\ (Requested(u, v)' => Requested(u, v)) /\ (Chooses(u, v)' => Chooses(u, v))
              /\ Requesting(u) \in waiting'[v] => Requesting(u) \in waiting[v]
              /\ TakerRequest(u, v) \in net' => TakerRequest(u, v) \in net
              /\ MakerConnected(u, v) \in net' => MakerConnected(u, v) \in net \/ (u = r /\ v = o)
              /\ Started(u, v)' => Started(u, v) \/ (u = r /\ v = o)
              /\ Started(u, v) => Started(u, v)'
  <2>1. /\ TakerRequest(u, v) \in net' => TakerRequest(u, v) \in net
        /\ TakerConnect(u, v) \in net' => TakerConnect(u, v) \in net
        /\ MakerConnected(u, v) \in net' => MakerConnected(u, v) \in net \/ (u = r /\ v = o)
    BY <1>1, MessageFacts
  <2>2. waiting'[v] \subseteq waiting[v]
    BY <1>7, <1>8, OthersKept
  <2>3. Started(u, v)' => Started(u, v) \/ (u = r /\ v = o)
    BY <1>1, <1>10 DEF Started
  <2>4. Started(u, v) => Started(u, v)'
    BY <1>1 DEF Started
  <2>. QED
    BY <2>1, <2>2, <2>3, <2>4 DEF Requested, Chooses
<1>15. Started(r, o)'
    BY <1>1, <1>10 DEF Started
<1>16. ASSUME NEW u \in Requests, NEW v \in Orders PROVE OneDeal(u, v)'
  <2>1. OneDeal(u, v)
    BY DEF BookInv
  <2>2. ~(TakerRequest(u, v) \in net' /\ Requesting(u) \in waiting'[v])
    BY <1>14, <2>1 DEF OneDeal
  <2>3. MakerConnected(u, v) \in net' /\ Steady(v)' => Started(u, v)'
    BY <1>1, <1>14, <1>15, <2>1 DEF OneDeal, Steady
  <2>4. taker'[u] = taker[u]
    BY DEF takerVars
  <2>5. Deals(u, v)' \subseteq Deals(u, v)
    <3>. SUFFICES ASSUME NEW d \in Deals(u, v)' PROVE d \in Deals(u, v)
      OBVIOUS
    <3>0. d \in Amounts
      BY DEF Deals
    <3>1. MatchedWith(order'[v].matches[u], d) => MatchedWith(order[v].matches[u], d)
      <4>1. CASE u = r /\ v = o
        BY <1>2, <1>5, <4>1 DEF MatchedWith
      <4>2. CASE ~(u = r /\ v = o)
        BY <1>2, <1>5, <1>8, <4>2, OthersKept
      <4>. QED
        BY <4>1, <4>2
    <3>2. MakerReserved(u, v, d.base, d.rel) \in net' => MakerReserved(u, v, d.base, d.rel) \in net
      BY <1>1, MessageFacts
    <3>3. CASE Swap(u, v, d.base, d.rel) = s0
      <4>1. Swap(u, v, d.base, d.rel) = s0
        BY <3>3
      <4>2. u = r /\ v = o
        BY <1>10, <4>1, MessageFacts
      <4>3. d.base = m.base /\ d.rel = m.rel
        BY <1>11, <4>1, <4>2
      <4>. QED
        BY <3>0, <4>2, <4>3 DEF Deals, MatchedWith
    <3>4. CASE Swap(u, v, d.base, d.rel) # s0
      BY <1>1, <3>0, <3>1, <3>2, <3>4 DEF Deals, takerVars
    <3>. QED
      BY <3>3, <3>4
  <2>. QED
    BY <1>14, <2>1, <2>2, <2>3, <2>4, <2>5, DealsKept
<1>17. ASSUME NEW u \in Requests PROVE Chosen(u)' \subseteq Chosen(u)
  <2>1. Chooses(r, o)
    BY <1>7 DEF Chooses
  <2>. QED
    BY <1>14, <2>1 DEF Chosen
<1>18. Backed(o)'
  <2>1. Steady(o)' => mCoins'[o]
    BY <1>0, <1>1 DEF Backed, Steady
  <2>2. ASSUME mCrashes[o] = 0, NEW s \in makerSwaps', s.o = o
        PROVE  ord.matches[s.r] = [st |-> "connected", base |-> s.base, rel |-> s.rel]
    <3>1. CASE s \in makerSwaps
      <4>1. order[o].matches[s.r] = [st |-> "connected", base |-> s.base, rel |-> s.rel]
        BY <1>0, <2>2, <3>1, Zenon DEF Backed
      <4>2. s.r # r /\ s.r \in Requests
        BY <3>1, <4>1 DEF BookInv, NetTypeOK, Swaps
      <4>. QED
        BY <1>2, <4>1, <4>2
    <3>2. CASE s = s0
      BY <1>2, <1>10, <3>2
    <3>. QED
      BY <1>1, <2>2, <3>1, <3>2
  <2>. QED
    BY <1>1, <1>5, <2>1, <2>2 DEF Backed
<1>19. /\ makerSwaps \subseteq makerSwaps' /\ mStarting' \subseteq makerSwaps'
       /\ \A s \in makerSwaps' : s \in makerSwaps \/ s.o = o
    BY <1>1, <1>10 DEF BookInv, Spawned
<1>20. mCrashes'[o] = mCrashes[o] /\ mDisabled'[o] = mDisabled[o] /\ takerSwaps' = takerSwaps
    BY <1>1
<1>. QED
    BY <1>8, <1>9, <1>12, <1>13, <1>16, <1>17, <1>18, <1>19, <1>20, HandlerKeepsBook

\* Every step of a maker keeps the invariant.
LEMMA MakerKeeps ==
    ASSUME BookInv, CancelInv', MakerStep
    PROVE  BookInv'
<1>0. UNCHANGED takerVars
    BY DEF MakerStep
<1>1. PICK o \in Orders :
          \/ \E r \in Requests : MatchStep(r, o)
          \/ LoopStep(o) \/ StorageStep(o) \/ UserStep(o) \/ NodeStep(o)
          \/ \E v \in Balances : balance_updated(o, v)
    BY Zenon DEF MakerStep
<1>2. ASSUME NEW r \in Requests, MatchStep(r, o) PROVE BookInv'
    BY <1>0, <1>2, ArrivalKeeps, RefuseQuiet, ReserveKeeps, IgnoreQuiet, ConnectKeeps, QuietKeeps
       DEF MatchStep
<1>3. CASE LoopStep(o)
    BY <1>0, <1>3, PlainSteps, TimeoutQuiet, AnnounceQuiet, QuietKeeps DEF LoopStep
<1>4. CASE StorageStep(o)
    BY <1>0, <1>4, PlainSteps, UpdateSavedQuiet, QuietKeeps DEF StorageStep
<1>5. CASE UserStep(o)
    BY <1>0, <1>5, PlainSteps, CreateQuiet, UpdateQuiet, QuietKeeps DEF UserStep
<1>6. ASSUME NEW v \in Balances, balance_updated(o, v) PROVE BookInv'
    BY <1>0, <1>6, BalanceQuiet, QuietKeeps
<1>7. CASE NodeStep(o)
    BY <1>0, <1>7, StartQuiet, RestartQuiet, PlainSteps, QuietKeeps DEF NodeStep
<1>. QED
    BY <1>1, <1>2, <1>3, <1>4, <1>5, <1>6, <1>7

-----------------------------------------------------------------------------
(* The steps of the takers.                                                *)

TakerUpd(f, g, r) == IsTakerMap(g) /\ \A u \in Requests \ {r} : g[u] = f[u]

\* A step of the node of r.
TakerStepOf(r) ==
    /\ TakerUpd(taker, taker', r) /\ TakerUpd(tFile, tFile', r) /\ TakerUpd(tSaving, tSaving', r)
    /\ TakerUpd(pending, pending', r) /\ TakerUpd(sleeping, sleeping', r)
    /\ TakerUpd(coins, coins', r) /\ TakerUpd(tCrashes, tCrashes', r)
    /\ TakerUpd(tDisabling, tDisabling', r) /\ TakerUpd(tDisabled, tDisabled', r)

\* A change of one entry of a taker's map, and no change.
LEMMA TakerUpdated ==
    ASSUME NEW f, IsTakerMap(f), NEW r \in Requests
    PROVE  /\ \A v : TakerUpd(f, [f EXCEPT ![r] = v], r) /\ [f EXCEPT ![r] = v][r] = v
           /\ TakerUpd(f, f, r)
BY DEF IsTakerMap, TakerUpd

\* The takers' variables are maps, and the bounds are numbers.
LEMMA MapsOfTaker ==
    ASSUME BookInv
    PROVE  /\ IsTakerMap(taker) /\ IsTakerMap(tFile) /\ IsTakerMap(tSaving) /\ IsTakerMap(pending)
           /\ IsTakerMap(sleeping) /\ IsTakerMap(coins) /\ IsTakerMap(tCrashes)
           /\ IsTakerMap(tDisabling) /\ IsTakerMap(tDisabled)
           /\ disturbances \in 0..MaxDisturbances /\ MaxDisturbances \in Nat
           /\ \A r \in Requests : TakerOwn(r)
BY AmountsAssumption DEF BookInv, TakerBook, NetTypeOK

\* The sender or the addressee of a message.
LEMMA MessageOf ==
    \A r, o, b, q : /\ TakerRequest(r, o).r = r /\ TakerConnect(r, o).r = r
                    /\ MakerConnected(r, o).r = r /\ MakerReserved(r, o, b, q).r = r
BY DEF TakerRequest, TakerConnect, MakerConnected, MakerReserved

\* What a step of one taker has to show.
LEMMA TakerKeepsBook ==
    ASSUME BookInv, CancelInv', NEW r \in Requests, TakerStepOf(r), TakerOwn(r)', Later,
           UNCHANGED <<makerVars, makerSwaps>>, NetTypeOK', \A m \in net' : m \in net \/ m.r = r,
           \A s \in takerSwaps' : s \in takerSwaps \/ (s.r = r /\ BothStarted(s)),
           tStarting' \subseteq takerSwaps', \A v \in Orders : OneDeal(r, v)', FewChosen(r)'
    PROVE  BookInv'
<1>1. ASSUME NEW u \in Requests \ {r}
      PROVE  /\ taker'[u] = taker[u] /\ tFile'[u] = tFile[u] /\ tSaving'[u] = tSaving[u]
             /\ pending'[u] = pending[u] /\ sleeping'[u] = sleeping[u] /\ coins'[u] = coins[u]
             /\ tDisabling'[u] = tDisabling[u] /\ tDisabled'[u] = tDisabled[u]
             /\ tCrashes'[u] = tCrashes[u]
    BY <1>1 DEF TakerStepOf, TakerUpd
<1>2. ASSUME NEW u \in Requests \ {r} PROVE TakerOwn(u)'
  <2>1. TakerOwn(u)
    BY MapsOfTaker
  <2>2. tCrashes'[u] \in 0..disturbances'
    BY <1>1, <1>2, <2>1 DEF TakerOwn, Later
  <2>3. \A s \in takerSwaps' : s.r = u => s \in takerSwaps
    BY <1>2
  <2>4. MatchOf(u, taker[u].match)' /\ MatchOf(u, tFile[u].match)'
    BY <1>1, <1>2, <2>1, <2>3 DEF TakerOwn, MatchOf
  <2>. QED
    BY <1>1, <1>2, <2>1, <2>2, <2>4 DEF TakerOwn
<1>3. TakerBook'
    BY <1>2 DEF TakerBook, TakerStepOf, TakerUpd
<1>4. MakerBook'
  <2>1. ASSUME NEW o \in Orders PROVE MakerOwn(o)'
    <3>1. MakerOwn(o)
      BY MapsOfMaker
    <3>2. mCrashes'[o] \in 0..disturbances'
      BY <3>1 DEF MakerOwn, Later, makerVars, nodeVars
    <3>. QED
      BY <3>1, <3>2 DEF MakerOwn, Reversible, makerVars, nodeVars
  <2>. QED
    BY <2>1 DEF BookInv, MakerBook, makerVars, nodeVars
<1>5. ASSUME NEW u \in Requests \ {r}, NEW v \in Orders
      PROVE  OneDeal(u, v)' /\ (Chooses(u, v)' => Chooses(u, v))
  <2>1. OneDeal(u, v)
    BY DEF BookInv
  <2>2. /\ TakerRequest(u, v) \in net' => TakerRequest(u, v) \in net
        /\ TakerConnect(u, v) \in net' => TakerConnect(u, v) \in net
        /\ MakerConnected(u, v) \in net' => MakerConnected(u, v) \in net
        /\ \A b, q : MakerReserved(u, v, b, q) \in net' => MakerReserved(u, v, b, q) \in net
    BY <1>5, MessageOf
  <2>3. Deals(u, v)' \subseteq Deals(u, v)
    BY <1>1, <1>5, <2>2 DEF Deals, makerVars
  <2>4. (Requested(u, v)' => Requested(u, v)) /\ (Chooses(u, v)' => Chooses(u, v))
    BY <2>2 DEF Requested, Chooses, makerVars
  <2>5. ~(TakerRequest(u, v) \in net' /\ Requesting(u) \in waiting'[v])
    BY <2>1, <2>2 DEF OneDeal, makerVars
  <2>6. MakerConnected(u, v) \in net' /\ Steady(v)' => Started(u, v)'
    BY <2>1, <2>2 DEF OneDeal, Started, Steady, makerVars, nodeVars
  <2>7. taker'[u].st = "none" => taker[u].st = "none"
    BY <1>1, <1>5
  <2>. QED
    BY <1>5, <2>1, <2>3, <2>4, <2>5, <2>6, <2>7, DealsKept
<1>6. ASSUME NEW u \in Requests \ {r} PROVE FewChosen(u)'
  <2>1. Chosen(u)' \subseteq Chosen(u)
    BY <1>5, <1>6 DEF Chosen, Started
  <2>2. FewChosen(u) /\ tCrashes[u] \in Nat
    BY <1>6, MapsOfTaker DEF BookInv, TakerOwn
  <2>. QED
    BY <1>1, <1>6, <2>1, <2>2, ChosenKept
<1>7. ASSUME NEW u \in Orders PROVE Backed(u)'
    BY DEF BookInv, Backed, Steady, makerVars, nodeVars
<1>8. ASSUME NEW s \in takerSwaps' PROVE BothStarted(s)'
    BY <1>8 DEF BookInv, BothStarted, Steady, makerVars, nodeVars
<1>9. /\ \A u \in Requests, v \in Orders : OneDeal(u, v)'
      /\ \A u \in Requests : FewChosen(u)'
      /\ IsFiniteSet(makerSwaps') /\ Spawned'
    BY <1>5, <1>6 DEF BookInv, Spawned, makerVars, nodeVars
<1>. QED
    BY <1>3, <1>4, <1>7, <1>8, <1>9 DEF BookInv

\* A step that tells nobody anything, and learns only what was on its way.
TakerQuiet(r) ==
    /\ TakerStepOf(r) /\ TakerOwn(r)' /\ Later /\ UNCHANGED <<makerVars, makerSwaps, cast>>
    /\ net' \subseteq net /\ takerSwaps' \subseteq Swaps /\ tStarting' \subseteq takerSwaps'
    /\ \A s \in takerSwaps' : s \in takerSwaps \/ (s.r = r /\ BothStarted(s))
    /\ pending'[r] \subseteq pending[r] \cup net
    /\ taker'[r].match \cup tFile'[r].match \subseteq taker[r].match \cup tFile[r].match
    /\ taker'[r].st = "none" => taker[r].st = "none"
    /\ \/ tCrashes'[r] = tCrashes[r] /\ (taker'[r].match = {} => taker[r].match = {})
       \/ tCrashes'[r] = tCrashes[r] + 1

\* It keeps the invariant.
LEMMA TakerQuietKeeps ==
    ASSUME BookInv, CancelInv', NEW r \in Requests, TakerQuiet(r)
    PROVE  BookInv'
<1>. USE DEF TakerQuiet
<1>1. NetTypeOK'
    BY AmountsAssumption DEF BookInv, NetTypeOK, Later
<1>2. ASSUME NEW v \in Orders PROVE OneDeal(r, v)' /\ (Chooses(r, v)' => Chooses(r, v))
  <2>1. OneDeal(r, v)
    BY DEF BookInv
  <2>2. Deals(r, v)' \subseteq Deals(r, v)
    BY DEF Deals, makerVars
  <2>3. (Requested(r, v)' => Requested(r, v)) /\ (Chooses(r, v)' => Chooses(r, v))
    BY DEF Requested, Chooses, makerVars
  <2>4. ~(TakerRequest(r, v) \in net' /\ Requesting(r) \in waiting'[v])
    BY <2>1 DEF OneDeal, makerVars
  <2>5. MakerConnected(r, v) \in net' /\ Steady(v)' => Started(r, v)'
    BY <2>1 DEF OneDeal, Started, Steady, makerVars, nodeVars
  <2>. QED
    BY <2>1, <2>2, <2>3, <2>4, <2>5, DealsKept
<1>3. FewChosen(r)'
  <2>1. Chosen(r)' \subseteq Chosen(r)
    BY <1>2 DEF Chosen, Started
  <2>2. FewChosen(r) /\ tCrashes[r] \in Nat
    BY MapsOfTaker DEF BookInv, TakerOwn
  <2>. QED
    BY <2>1, <2>2, ChosenKept
<1>. QED
    BY <1>1, <1>2, <1>3, TakerKeepsBook

\* A match suits an order whatever becomes of the order.
LEMMA TermsKept ==
    ASSUME NEW a, NEW b, a.action = b.action, a.base = b.base, a.rel = b.rel, NEW s
    PROVE  match_reserved(a, s) <=> match_reserved(b, s)
BY DEF match_reserved

\* An order that is gone.
LEMMA GoneFacts ==
    ASSUME NEW a \in TakerOrder
    PROVE  LET b == [a EXCEPT !.st = "gone"] IN
           /\ b \in TakerOrder /\ b.st = "gone" /\ b.match = a.match
           /\ b.action = a.action /\ b.base = a.base /\ b.rel = a.rel
BY DEF TakerOrder

\* The order ends, with or without a swap.
LEMMA EndOwn ==
    ASSUME BookInv, NEW r \in Requests, Active(r),
           taker' = [taker EXCEPT ![r].st = "gone"], Saves(r),
           UNCHANGED <<tFile, pending, sleeping, coins, tDisabled, tCrashes>>,
           TakerUpd(tDisabling, tDisabling', r), tDisabling'[r] \in {"no", "cancels", "removes"},
           disturbances' = disturbances,
           \A s \in takerSwaps' : s.r = r => s \in taker[r].match
    PROVE  /\ TakerStepOf(r) /\ TakerOwn(r)' /\ Later
           /\ taker'[r].st = "gone" /\ taker'[r].match = taker[r].match
<1>0. TakerOwn(r) /\ taker[r] \in TakerOrder /\ tFile[r] = taker[r]
    BY MapsOfTaker DEF TakerOwn, Active
<1>1. TakerUpd(taker, taker', r) /\ taker'[r] = [taker[r] EXCEPT !.st = "gone"]
    BY MapsOfTaker, TakerUpdated
<1>2. TakerUpd(tSaving, tSaving', r) /\ tSaving'[r] = TRUE
    BY MapsOfTaker, TakerUpdated DEF Saves
<1>3. TakerStepOf(r) /\ Later
    BY <1>1, <1>2, MapsOfTaker, TakerUpdated DEF TakerStepOf, Later
<1>4. /\ taker'[r] \in TakerOrder /\ taker'[r].st = "gone" /\ taker'[r].match = taker[r].match
      /\ taker'[r].action = taker[r].action /\ taker'[r].base = taker[r].base
      /\ taker'[r].rel = taker[r].rel
    BY <1>0, <1>1, GoneFacts
<1>5. MatchOf(r, taker[r].match)' /\ MatchOf(r, tFile[r].match)'
    BY <1>0, <1>4, TermsKept DEF TakerOwn, MatchOf
<1>6. \A f \in {"action", "base", "rel"} : tFile'[r][f] = taker'[r][f]
    BY <1>0, <1>4
<1>7. TakerOwn(r)'
    BY <1>0, <1>2, <1>4, <1>5, <1>6 DEF TakerOwn, Active
<1>. QED
    BY <1>3, <1>4, <1>7

\* The timeouts of the loop, and the user.
LEMMA EndQuiet ==
    ASSUME BookInv, NEW r \in Requests, UNCHANGED makerVars,
           handle_timed_out_taker_orders(r) \/ CancelTakerOrder(r)
    PROVE  TakerQuiet(r)
<1>0. /\ Active(r) /\ taker' = [taker EXCEPT ![r].st = "gone"] /\ Saves(r)
      /\ UNCHANGED <<tFile, pending, sleeping, tNodeVars, netVars>>
    BY Zenon DEF handle_timed_out_taker_orders, CancelTakerOrder
<1>1. TakerOwn(r)
    BY MapsOfTaker
<1>2. \A s \in takerSwaps' : s.r = r => s \in taker[r].match
    BY <1>0, <1>1 DEF TakerOwn, MatchOf, netVars, messageVars
<1>3. TakerUpd(tDisabling, tDisabling', r) /\ tDisabling'[r] \in {"no", "cancels", "removes"}
    BY <1>0, <1>1, MapsOfTaker, TakerUpdated DEF TakerOwn, tNodeVars
<1>4. /\ TakerStepOf(r) /\ TakerOwn(r)' /\ Later
      /\ taker'[r].st = "gone" /\ taker'[r].match = taker[r].match
    BY <1>0, <1>2, <1>3, EndOwn DEF netVars, tNodeVars
<1>5. takerSwaps \subseteq Swaps /\ tStarting \subseteq takerSwaps
    BY DEF BookInv, NetTypeOK, Spawned
<1>. QED
    BY <1>0, <1>4, <1>5 DEF TakerQuiet, netVars, messageVars, tNodeVars

\* The order is saved.
LEMMA SavedQuiet ==
    ASSUME BookInv, NEW r \in Requests, UNCHANGED makerVars, TakerOrderSaved(r)
    PROVE  TakerQuiet(r)
<1>0. TakerOwn(r) /\ takerSwaps \subseteq Swaps /\ tStarting \subseteq takerSwaps
    BY MapsOfTaker DEF BookInv, NetTypeOK, Spawned
<1>1. /\ TakerStepOf(r) /\ tFile'[r] = taker[r] /\ tSaving'[r] = FALSE
      /\ UNCHANGED <<taker, pending, sleeping, tNodeVars, netVars>>
    BY MapsOfTaker, TakerUpdated DEF TakerOrderSaved, TakerStepOf, tNodeVars
<1>2. Later
    BY <1>1, MapsOfTaker DEF Later, netVars
<1>3. MatchOf(r, taker[r].match)' /\ MatchOf(r, tFile[r].match)'
    BY <1>0, <1>1 DEF TakerOwn, MatchOf, netVars, messageVars
<1>4. TakerOwn(r)'
    BY <1>0, <1>1, <1>3 DEF TakerOwn, netVars, tNodeVars
<1>. QED
    BY <1>0, <1>1, <1>2, <1>4 DEF TakerQuiet, netVars, messageVars, tNodeVars

\* The node dies and loads what was saved.
LEMMA TakerRestartQuiet ==
    ASSUME BookInv, NEW r \in Requests, UNCHANGED makerVars, TakerRestarts(r)
    PROVE  TakerQuiet(r)
<1>0. TakerOwn(r) /\ takerSwaps \subseteq Swaps /\ tStarting \subseteq takerSwaps
    BY MapsOfTaker DEF BookInv, NetTypeOK, Spawned
<1>1. /\ TakerStepOf(r) /\ taker'[r] = tFile[r] /\ tSaving'[r] = FALSE /\ pending'[r] = {}
      /\ sleeping'[r] = FALSE /\ coins'[r] = FALSE /\ tDisabling'[r] = "no"
      /\ tCrashes'[r] = tCrashes[r] + 1
    BY MapsOfTaker, TakerUpdated DEF TakerRestarts, TakerStepOf
<1>2. /\ UNCHANGED <<tFile, tDisabled, cast, net, makerSwaps>> /\ taker[r].st # "none" /\ Later
      /\ disturbances' = disturbances + 1
      /\ takerSwaps' \subseteq takerSwaps /\ tStarting' \subseteq takerSwaps'
    BY <1>0, MapsOfTaker DEF TakerRestarts, Disturbed, Later
<1>3. tCrashes'[r] \in 0..disturbances' /\ tCrashes'[r] # 0
    BY <1>0, <1>1, <1>2, MapsOfTaker DEF TakerOwn
<1>4. MatchOf(r, taker[r].match)' /\ MatchOf(r, tFile[r].match)'
    BY <1>0, <1>1, <1>2, TermsKept DEF TakerOwn, MatchOf
<1>5. TakerOwn(r)'
    BY <1>0, <1>1, <1>2, <1>3, <1>4 DEF TakerOwn
<1>. QED
    BY <1>0, <1>1, <1>2, <1>5 DEF TakerQuiet, TakerOwn

\* The coins come and go, and a task that was spawned may not find them.
LEMMA CoinsQuiet ==
    ASSUME BookInv, NEW r \in Requests, UNCHANGED makerVars, Later,
           UNCHANGED <<taker, tFile, tSaving, pending, sleeping, tCrashes, cast, net, makerSwaps>>,
           TakerUpd(coins, coins', r), coins'[r] \in BOOLEAN,
           TakerUpd(tDisabling, tDisabling', r), tDisabling'[r] \in {"no", "cancels", "removes"},
           TakerUpd(tDisabled, tDisabled', r), tDisabled'[r] \in BOOLEAN,
           tDisabled[r] => tDisabled'[r], ~tDisabled'[r] /\ coins[r] => coins'[r],
           takerSwaps' \subseteq takerSwaps, tStarting' \subseteq takerSwaps'
    PROVE  TakerQuiet(r)
<1>0. TakerOwn(r) /\ takerSwaps \subseteq Swaps
    BY MapsOfTaker DEF BookInv, NetTypeOK
<1>1. TakerStepOf(r)
    BY MapsOfTaker, TakerUpdated DEF TakerStepOf
<1>2. MatchOf(r, taker[r].match)' /\ MatchOf(r, tFile[r].match)'
    BY <1>0 DEF TakerOwn, MatchOf
<1>3. tCrashes'[r] \in 0..disturbances'
    BY <1>0 DEF TakerOwn, Later
<1>4. /\ tCrashes'[r] = 0 /\ ~tDisabled'[r] => coins'[r]
      /\ taker'[r].st = "active" /\ pending'[r] # {} /\ tCrashes'[r] = 0 /\ ~tDisabled'[r]
             => sleeping'[r]
    BY <1>0, Zenon DEF TakerOwn
<1>5. TakerOwn(r)'
    BY <1>0, <1>2, <1>3, <1>4 DEF TakerOwn
<1>. QED
    BY <1>0, <1>1, <1>5 DEF TakerQuiet

\* The steps that concern the coins only.
LEMMA TakerCoinsQuiet ==
    ASSUME BookInv, NEW r \in Requests, UNCHANGED makerVars,
           \/ TakerActivatesCoins(r) \/ TakerDisablesCoin(r) \/ TakerRemovesCoin(r)
           \/ lp_connected_alice(r)
    PROVE  TakerQuiet(r)
<1>0. TakerOwn(r) /\ tStarting \subseteq takerSwaps
    BY MapsOfTaker DEF BookInv, Spawned
<1>1. /\ coins[r] \in BOOLEAN /\ tDisabled[r] \in BOOLEAN
      /\ tDisabling[r] \in {"no", "cancels", "removes"}
    BY <1>0 DEF TakerOwn
<1>2. CASE TakerActivatesCoins(r)
  <2>1. UNCHANGED <<taker, tFile, tSaving, pending, sleeping, tDisabling, tDisabled, tStarting, tCrashes,
                    netVars>>
    BY <1>2, Zenon DEF TakerActivatesCoins
  <2>2. TakerUpd(coins, coins', r) /\ coins'[r] = TRUE
    BY <1>2, MapsOfTaker, TakerUpdated DEF TakerActivatesCoins
  <2>3. /\ TakerUpd(tDisabling, tDisabling', r) /\ TakerUpd(tDisabled, tDisabled', r)
        /\ Later
    BY <2>1, MapsOfTaker, TakerUpdated DEF Later, netVars
  <2>. QED
    BY <1>0, <1>1, <2>1, <2>2, <2>3, CoinsQuiet DEF netVars, messageVars
<1>3. CASE TakerDisablesCoin(r)
  <2>1. UNCHANGED <<taker, tFile, tSaving, pending, sleeping, coins, tDisabled, tStarting, tCrashes,
                    messageVars>>
    BY <1>3, Zenon DEF TakerDisablesCoin
  <2>a. /\ tDisabling' = [tDisabling EXCEPT ![r] = "cancels"]
        /\ disturbances < MaxDisturbances /\ disturbances' = disturbances + 1
    BY <1>3, Zenon DEF TakerDisablesCoin, Disturbed
  <2>2. TakerUpd(tDisabling, tDisabling', r) /\ tDisabling'[r] = "cancels"
    BY <2>a, MapsOfTaker, TakerUpdated
  <2>4. Later
    BY <2>a, MapsOfTaker DEF Later
  <2>3. TakerUpd(coins, coins', r) /\ TakerUpd(tDisabled, tDisabled', r)
    BY <2>1, MapsOfTaker, TakerUpdated
  <2>. QED
    BY <1>0, <1>1, <2>1, <2>2, <2>3, <2>4, CoinsQuiet DEF messageVars
<1>4. CASE TakerRemovesCoin(r)
  <2>1. UNCHANGED <<taker, tFile, tSaving, pending, sleeping, tStarting, tCrashes, netVars>>
    BY <1>4, Zenon DEF TakerRemovesCoin
  <2>2. /\ TakerUpd(tDisabling, tDisabling', r) /\ tDisabling'[r] = "no"
        /\ TakerUpd(coins, coins', r) /\ coins'[r] = FALSE
        /\ TakerUpd(tDisabled, tDisabled', r) /\ tDisabled'[r] = TRUE
    BY <1>4, MapsOfTaker, TakerUpdated DEF TakerRemovesCoin
  <2>3. Later
    BY <2>1, MapsOfTaker DEF Later, netVars
  <2>. QED
    BY <1>0, <1>1, <2>1, <2>2, <2>3, CoinsQuiet DEF netVars, messageVars
<1>5. CASE lp_connected_alice(r)
  <2>1. /\ takerSwaps' \subseteq takerSwaps /\ tStarting' \subseteq takerSwaps'
        /\ UNCHANGED <<taker, tFile, tSaving, pending, sleeping, coins, tDisabling, tDisabled,
                       tCrashes, cast, net, makerSwaps, disturbances>>
    BY <1>0, <1>5 DEF lp_connected_alice
  <2>2. /\ TakerUpd(coins, coins', r) /\ TakerUpd(tDisabling, tDisabling', r)
        /\ TakerUpd(tDisabled, tDisabled', r) /\ Later
    BY <2>1, MapsOfTaker, TakerUpdated DEF Later
  <2>. QED
    BY <1>1, <2>1, <2>2, CoinsQuiet
<1>. QED
    BY <1>2, <1>3, <1>4, <1>5

\* disable_coin ends an order that is not matched.
LEMMA DisableEndsQuiet ==
    ASSUME BookInv, NEW r \in Requests, UNCHANGED makerVars, TakerDisableCancels(r)
    PROVE  TakerQuiet(r)
<1>0. TakerOwn(r) /\ takerSwaps \subseteq Swaps /\ tStarting \subseteq takerSwaps
    BY MapsOfTaker DEF BookInv, NetTypeOK, Spawned
<1>1. /\ UNCHANGED <<tFile, pending, sleeping, coins, tDisabled, tStarting, tCrashes, netVars>>
      /\ TakerUpd(tDisabling, tDisabling', r) /\ tDisabling'[r] = "removes"
    BY MapsOfTaker, TakerUpdated DEF TakerDisableCancels
<1>2. CASE Active(r) /\ taker' = [taker EXCEPT ![r].st = "gone"] /\ Saves(r)
  <2>1. \A s \in takerSwaps' : s.r = r => s \in taker[r].match
    BY <1>0, <1>1 DEF TakerOwn, MatchOf, netVars, messageVars
  <2>2. /\ TakerStepOf(r) /\ TakerOwn(r)' /\ Later
        /\ taker'[r].st = "gone" /\ taker'[r].match = taker[r].match
    BY <1>1, <1>2, <2>1, EndOwn DEF netVars
  <2>. QED
    BY <1>0, <1>1, <2>2 DEF TakerQuiet, netVars, messageVars
<1>3. CASE UNCHANGED <<taker, tSaving>>
  <2>1. /\ TakerUpd(coins, coins', r) /\ TakerUpd(tDisabled, tDisabled', r) /\ Later
        /\ coins[r] \in BOOLEAN /\ tDisabled[r] \in BOOLEAN
    BY <1>0, <1>1, MapsOfTaker, TakerUpdated DEF TakerOwn, Later, netVars
  <2>. QED
    BY <1>0, <1>1, <1>3, <2>1, CoinsQuiet DEF netVars, messageVars
<1>. QED
    BY <1>2, <1>3, Zenon DEF TakerDisableCancels

\* An answer is put aside, if the order is there.
LEMMA AnswerQuiet ==
    ASSUME BookInv, NEW r \in Requests, UNCHANGED makerVars, MakerReservedArrives(r)
    PROVE  TakerQuiet(r)
<1>0. TakerOwn(r) /\ takerSwaps \subseteq Swaps /\ tStarting \subseteq takerSwaps
    BY MapsOfTaker DEF BookInv, NetTypeOK, Spawned
<1>1. PICK m \in net :
         /\ m.type = "reserved" /\ m.r = r /\ net' = net \ {m}
         /\ IF taker[r].st = "active"
            THEN /\ pending' = [pending EXCEPT ![r] = @ \cup {m}]
                 /\ sleeping' = [sleeping EXCEPT ![r] = @ \/ pending[r] = {}]
            ELSE UNCHANGED <<pending, sleeping>>
    BY Zenon DEF MakerReservedArrives, Receive
<1>2. UNCHANGED <<taker, tFile, tSaving, coins, tDisabling, tDisabled, tStarting, tCrashes, cast, disturbances, makerSwaps, takerSwaps>>
    BY Zenon DEF MakerReservedArrives, tNodeVars
<1>3. m \in [type : {"reserved"}, r : {r}, o : Orders, base : Nat, rel : Nat]
  <2>1. net \subseteq [type : {"request", "connect", "connected"}, r : Requests, o : Orders]
                \cup [type : {"reserved"}, r : Requests, o : Orders, base : Nat, rel : Nat]
    BY DEF BookInv, NetTypeOK
  <2>2. m \notin [type : {"request", "connect", "connected"}, r : Requests, o : Orders]
    BY <1>1
  <2>3. m \in [type : {"reserved"}, r : Requests, o : Orders, base : Nat, rel : Nat]
    BY <2>1, <2>2
  <2>. QED
    BY <1>1, <2>3
<1>4. /\ TakerUpd(pending, pending', r) /\ TakerUpd(sleeping, sleeping', r)
      /\ pending'[r] \subseteq pending[r] \cup {m} /\ sleeping'[r] \in BOOLEAN
      /\ taker[r].st = "none" => pending'[r] = pending[r]
      /\ taker[r].st = "active" /\ tCrashes[r] = 0 /\ ~tDisabled[r]
             => sleeping'[r] \/ pending'[r] = {}
  <2>1. CASE taker[r].st = "active"
    <3>. DEFINE y == sleeping[r] \/ pending[r] = {}
    <3>a. /\ pending' = [pending EXCEPT ![r] = pending[r] \cup {m}]
          /\ sleeping' = [sleeping EXCEPT ![r] = y]
      BY <1>1, <2>1, Zenon
    <3>. HIDE DEF y
    <3>1. TakerUpd(pending, pending', r) /\ pending'[r] = pending[r] \cup {m}
      BY <3>a, MapsOfTaker, TakerUpdated
    <3>b. \A v : TakerUpd(sleeping, [sleeping EXCEPT ![r] = v], r) /\ [sleeping EXCEPT ![r] = v][r] = v
      BY MapsOfTaker, TakerUpdated
    <3>2. TakerUpd(sleeping, sleeping', r) /\ sleeping'[r] = (sleeping[r] \/ pending[r] = {})
      BY <3>a, <3>b, Zenon DEF y
    <3>3. tCrashes[r] = 0 /\ ~tDisabled[r] => sleeping'[r]
      BY <1>0, <2>1, <3>2, Zenon DEF TakerOwn
    <3>4. sleeping'[r] \in BOOLEAN
      BY <3>2, Zenon
    <3>. QED
      BY <2>1, <3>1, <3>2, <3>3, <3>4
  <2>2. CASE taker[r].st # "active"
    BY <1>0, <1>1, <2>2, MapsOfTaker, TakerUpdated DEF TakerOwn
  <2>. QED
    BY <2>1, <2>2
<1>5. TakerStepOf(r) /\ Later
    BY <1>2, <1>4, MapsOfTaker, TakerUpdated DEF TakerStepOf, Later
<1>6. MatchOf(r, taker[r].match)' /\ MatchOf(r, tFile[r].match)'
    BY <1>0, <1>2 DEF TakerOwn, MatchOf
<1>7. pending'[r] \subseteq [type : {"reserved"}, r : {r}, o : Orders, base : Nat, rel : Nat]
    BY <1>0, <1>3, <1>4 DEF TakerOwn
<1>8. taker'[r].st = "active" /\ pending'[r] # {} /\ tCrashes'[r] = 0 /\ ~tDisabled'[r]
         => sleeping'[r]
    BY <1>2, <1>4
<1>9. TakerOwn(r)'
    BY <1>0, <1>2, <1>4, <1>6, <1>7, <1>8 DEF TakerOwn
<1>. QED
    BY <1>0, <1>1, <1>2, <1>4, <1>5, <1>9 DEF TakerQuiet

\* The handler wakes up and finds no order, no coins, or no answer that suits.
LEMMA WakeQuiet ==
    ASSUME BookInv, NEW r \in Requests, UNCHANGED makerVars, process_maker_reserved(r),
           ~Active(r) \/ ~coins[r] \/ Answerable(r) = {}
    PROVE  TakerQuiet(r)
<1>0. TakerOwn(r) /\ takerSwaps \subseteq Swaps /\ tStarting \subseteq takerSwaps
    BY MapsOfTaker DEF BookInv, NetTypeOK, Spawned
<1>1. /\ sleeping' = [sleeping EXCEPT ![r] = FALSE] /\ ~tSaving[r]
      /\ UNCHANGED <<tFile, coins, tDisabling, tDisabled, tStarting, tCrashes, cast, disturbances, makerSwaps, takerSwaps>>
      /\ UNCHANGED <<taker, tSaving, net>>
      /\ \/ (~Active(r) \/ ~coins[r]) /\ UNCHANGED pending
         \/ pending' = [pending EXCEPT ![r] = {}]
    BY DEF process_maker_reserved, Processed, Cheapest, tNodeVars
<1>2. /\ TakerUpd(pending, pending', r) /\ TakerUpd(sleeping, sleeping', r)
      /\ \/ pending'[r] = {}
         \/ pending'[r] = pending[r] /\ ~Active(r)
         \/ pending'[r] = pending[r] /\ ~coins[r]
      /\ sleeping'[r] = FALSE
  <2>1. TakerUpd(sleeping, sleeping', r) /\ sleeping'[r] = FALSE
    BY <1>1, MapsOfTaker, TakerUpdated
  <2>2. CASE pending' = [pending EXCEPT ![r] = {}]
    BY <2>1, <2>2, MapsOfTaker, TakerUpdated
  <2>3. CASE (~Active(r) \/ ~coins[r]) /\ UNCHANGED pending
    BY <2>1, <2>3, MapsOfTaker, TakerUpdated
  <2>. QED
    BY <1>1, <2>2, <2>3
<1>3. TakerStepOf(r) /\ Later
    BY <1>1, <1>2, MapsOfTaker, TakerUpdated DEF TakerStepOf, Later
<1>4. MatchOf(r, taker[r].match)' /\ MatchOf(r, tFile[r].match)'
    BY <1>0, <1>1 DEF TakerOwn, MatchOf
<1>5. ~(taker'[r].st = "active" /\ pending'[r] # {} /\ tCrashes'[r] = 0 /\ ~tDisabled'[r])
    BY <1>0, <1>1, <1>2 DEF TakerOwn, Active
<1>6. pending'[r] \subseteq pending[r]
    BY <1>2
<1>7. TakerOwn(r)'
    BY <1>0, <1>1, <1>2, <1>4, <1>5, <1>6 DEF TakerOwn
<1>. QED
    BY <1>0, <1>1, <1>3, <1>6, <1>7 DEF TakerQuiet

\* The maker says that it has started; it is believed if it is the one that was chosen.
LEMMA ConnectedQuiet ==
    ASSUME BookInv, NEW r \in Requests, UNCHANGED makerVars, process_maker_connected(r)
    PROVE  TakerQuiet(r)
<1>0. /\ TakerOwn(r) /\ takerSwaps \subseteq Swaps /\ makerSwaps \subseteq Swaps
      /\ tStarting \subseteq takerSwaps
    BY MapsOfTaker DEF BookInv, NetTypeOK, Spawned
<1>1. PICK o \in Orders :
         /\ MakerConnected(r, o) \in net /\ net' = net \ {MakerConnected(r, o)}
         /\ \/ /\ Active(r) /\ ChosenSwap(r, o) # {}
               /\ takerSwaps' = takerSwaps \cup ChosenSwap(r, o)
               /\ tStarting' = tStarting \cup ChosenSwap(r, o)
               /\ taker' = [taker EXCEPT ![r].st = "gone"]
               /\ Saves(r)
            \/ UNCHANGED <<taker, tSaving, tStarting, takerSwaps>>
    BY Zenon DEF process_maker_connected, Receive
<1>2. UNCHANGED <<tFile, pending, sleeping, coins, tDisabling, tDisabled, tCrashes, cast, disturbances, makerSwaps>>
    BY Zenon DEF process_maker_connected
<1>3. CASE UNCHANGED <<taker, tSaving, tStarting, takerSwaps>>
  <2>1. TakerStepOf(r) /\ Later
    BY <1>2, <1>3, MapsOfTaker, TakerUpdated DEF TakerStepOf, Later
  <2>2. MatchOf(r, taker[r].match)' /\ MatchOf(r, tFile[r].match)'
    BY <1>0, <1>2, <1>3 DEF TakerOwn, MatchOf
  <2>3. TakerOwn(r)'
    BY <1>0, <1>2, <1>3, <2>2 DEF TakerOwn
  <2>. QED
    BY <1>0, <1>1, <1>2, <1>3, <2>1, <2>3 DEF TakerQuiet
<1>4. CASE /\ Active(r) /\ ChosenSwap(r, o) # {}
           /\ takerSwaps' = takerSwaps \cup ChosenSwap(r, o)
           /\ tStarting' = tStarting \cup ChosenSwap(r, o)
           /\ taker' = [taker EXCEPT ![r].st = "gone"]
           /\ Saves(r)
  <2>1. \A s \in takerSwaps' : s \in takerSwaps \/ (s \in taker[r].match /\ s.o = o)
    BY <1>4 DEF ChosenSwap
  <2>2. \A s \in takerSwaps' : s.r = r => s \in taker[r].match
    BY <1>0, <2>1 DEF TakerOwn, MatchOf
  <2>3. /\ TakerStepOf(r) /\ TakerOwn(r)' /\ Later
        /\ taker'[r].st = "gone" /\ taker'[r].match = taker[r].match
    <3>1. TakerUpd(tDisabling, tDisabling', r) /\ tDisabling'[r] \in {"no", "cancels", "removes"}
      BY <1>0, <1>2, MapsOfTaker, TakerUpdated DEF TakerOwn
    <3>. QED
      BY <1>2, <1>4, <2>2, <3>1, EndOwn
  <2>4. ASSUME NEW s \in taker[r].match, s.o = o PROVE s \in Swaps /\ s.r = r /\ BothStarted(s)
    <3>1. s \in Swaps /\ s.r = r
      BY <1>0, <2>4 DEF TakerOwn, MatchOf
    <3>2. OneDeal(r, o)
      BY DEF BookInv
    <3>3. CASE Steady(o)
      <4>1. PICK t \in makerSwaps : t.r = r /\ t.o = o
        BY <1>1, <3>2, <3>3 DEF OneDeal, Started
      <4>2. s = Swap(r, o, s.base, s.rel) /\ t = Swap(r, o, t.base, t.rel)
        BY <1>0, <2>4, <3>1, <4>1, MessageFacts
      <4>. DEFINE d == [base |-> s.base, rel |-> s.rel]
                  e == [base |-> t.base, rel |-> t.rel]
      <4>3. /\ d \in Amounts /\ d.base = s.base /\ d.rel = s.rel
            /\ e \in Amounts /\ e.base = t.base /\ e.rel = t.rel
        BY <1>0, <3>1, <4>1 DEF Amounts, Swaps
      <4>. HIDE DEF d, e
      <4>4. d \in Deals(r, o) /\ e \in Deals(r, o)
        BY <2>4, <4>1, <4>2, <4>3 DEF Deals
      <4>5. d = e
        BY <3>2, <4>4 DEF OneDeal
      <4>6. s = t
        BY <4>2, <4>3, <4>5
      <4>. QED
        BY <3>1, <4>6 DEF BothStarted
    <3>4. CASE ~Steady(o)
      BY <2>4, <3>1, <3>2, <3>4 DEF BothStarted
    <3>. QED
      BY <3>3, <3>4
  <2>5. /\ takerSwaps' \subseteq Swaps /\ tStarting' \subseteq takerSwaps'
        /\ \A s \in takerSwaps' : s \in takerSwaps \/ (s.r = r /\ BothStarted(s))
    BY <1>0, <1>4, <2>1, <2>4
  <2>. QED
    BY <1>1, <1>2, <2>3, <2>5 DEF TakerQuiet
<1>. QED
    BY <1>1, <1>3, <1>4

\* The taker chooses one of the answers, and only if it has chosen none before.
LEMMA ChoiceKeeps ==
    ASSUME BookInv, CancelInv', NEW r \in Requests, UNCHANGED makerVars,
           process_maker_reserved(r), Active(r), coins[r], Answerable(r) # {}
    PROVE  BookInv'
<1>0. TakerOwn(r) /\ takerSwaps \subseteq Swaps /\ tStarting \subseteq takerSwaps
    BY MapsOfTaker DEF BookInv, NetTypeOK, Spawned
<1>1. PICK m \in Cheapest(Answerable(r)) :
         /\ taker' = [taker EXCEPT ![r].match = @ \cup {Swap(r, m.o, m.base, m.rel)}]
         /\ net' = net \cup {TakerConnect(r, m.o)}
         /\ Saves(r)
    BY Zenon DEF process_maker_reserved, Broadcast
<1>2. /\ pending' = [pending EXCEPT ![r] = {}] /\ sleeping' = [sleeping EXCEPT ![r] = FALSE]
      /\ UNCHANGED <<tFile, coins, tDisabling, tDisabled, tStarting, tCrashes,
                     cast, disturbances, makerSwaps, takerSwaps>>
    BY Zenon DEF process_maker_reserved, Processed, tNodeVars
<1>. DEFINE s0 == Swap(r, m.o, m.base, m.rel)
<1>3. m \in pending[r] /\ match_reserved(taker[r], m) /\ taker[r].match = {}
    BY <1>1 DEF Cheapest, Answerable
<1>4. /\ m.o \in Orders /\ m.base \in Nat /\ m.rel \in Nat
      /\ m = MakerReserved(r, m.o, m.base, m.rel)
    BY <1>0, <1>3 DEF TakerOwn, MakerReserved
<1>5. s0 \in Swaps /\ s0.r = r /\ s0.o = m.o /\ s0.base = m.base /\ s0.rel = m.rel
    BY <1>4, MessageFacts
<1>6. taker' = [taker EXCEPT ![r] = [taker[r] EXCEPT !.match = taker[r].match \cup {s0}]]
    BY <1>1
<1>. HIDE DEF s0
<1>7. TakerUpd(taker, taker', r) /\ taker'[r] = [taker[r] EXCEPT !.match = taker[r].match \cup {s0}]
    BY <1>6, MapsOfTaker, TakerUpdated
<1>8. /\ taker'[r] \in TakerOrder /\ taker'[r].st = "active" /\ taker'[r].match = {s0}
      /\ taker'[r].action = taker[r].action /\ taker'[r].base = taker[r].base
      /\ taker'[r].rel = taker[r].rel
    BY <1>0, <1>3, <1>5, <1>7 DEF TakerOwn, TakerOrder, Active
<1>9. /\ TakerUpd(pending, pending', r) /\ pending'[r] = {}
      /\ TakerUpd(sleeping, sleeping', r) /\ sleeping'[r] = FALSE
      /\ TakerUpd(tSaving, tSaving', r) /\ tSaving'[r] = TRUE
    BY <1>1, <1>2, MapsOfTaker, TakerUpdated DEF Saves
<1>10. TakerStepOf(r) /\ Later
    BY <1>2, <1>7, <1>9, MapsOfTaker, TakerUpdated DEF TakerStepOf, Later
<1>11. tFile[r] = taker[r] /\ \A s \in takerSwaps : s.r # r
    BY <1>0, <1>3 DEF TakerOwn, MatchOf, Active
<1>12. MatchOf(r, taker[r].match)' /\ MatchOf(r, tFile[r].match)'
  <2>1. match_reserved(taker'[r], s0)
    BY <1>3, <1>5, <1>8 DEF match_reserved
  <2>. QED
    BY <1>2, <1>3, <1>5, <1>8, <1>11, <2>1 DEF MatchOf
<1>13. TakerOwn(r)'
  <2>1. \A f \in {"action", "base", "rel"} : tFile'[r][f] = taker'[r][f]
    BY <1>2, <1>8, <1>11
  <2>. QED
    BY <1>0, <1>2, <1>8, <1>9, <1>11, <1>12, <2>1 DEF TakerOwn, Active
<1>14. NetTypeOK'
  <2>1. {TakerConnect(r, m.o)} \subseteq
          [type : {"request", "connect", "connected"}, r : Requests, o : Orders]
              \cup [type : {"reserved"}, r : Requests, o : Orders, base : Nat, rel : Nat]
    BY <1>4, NetFacts
  <2>. QED
    BY <1>1, <1>2, <2>1 DEF BookInv, NetTypeOK
<1>15. ASSUME NEW v \in Orders
       PROVE  OneDeal(r, v)' /\ (Chooses(r, v)' => Chooses(r, v) \/ v = m.o)
  <2>1. OneDeal(r, v)
    BY DEF BookInv
  <2>2. /\ TakerRequest(r, v) \in net' => TakerRequest(r, v) \in net
        /\ TakerConnect(r, v) \in net' => (TakerConnect(r, v) \in net \/ v = m.o)
        /\ MakerConnected(r, v) \in net' => MakerConnected(r, v) \in net
        /\ \A b, q : MakerReserved(r, v, b, q) \in net' => MakerReserved(r, v, b, q) \in net
    BY <1>1, MessageFacts
  <2>3. Deals(r, v)' \subseteq Deals(r, v)
    <3>. SUFFICES ASSUME NEW d \in Deals(r, v)' PROVE d \in Deals(r, v)
      OBVIOUS
    <3>0. d \in Amounts
      BY DEF Deals
    <3>1. CASE Swap(r, v, d.base, d.rel) = s0
      <4>1. v = m.o /\ d.base = m.base /\ d.rel = m.rel
        BY <1>5, <3>1, MessageFacts
      <4>. QED
        BY <1>3, <1>4, <3>0, <4>1 DEF Deals
    <3>2. CASE Swap(r, v, d.base, d.rel) # s0
      BY <1>2, <1>8, <1>9, <2>2, <3>0, <3>2 DEF Deals, makerVars
    <3>. QED
      BY <3>1, <3>2
  <2>4. Requested(r, v)' => Requested(r, v)
    BY <2>2 DEF Requested, makerVars
  <2>5. Chooses(r, v)' => Chooses(r, v) \/ v = m.o
    BY <2>2 DEF Chooses, makerVars
  <2>6. ~(TakerRequest(r, v) \in net' /\ Requesting(r) \in waiting'[v])
    BY <2>1, <2>2 DEF OneDeal, makerVars
  <2>7. MakerConnected(r, v) \in net' /\ Steady(v)' => Started(r, v)'
    BY <1>2, <2>1, <2>2 DEF OneDeal, Started, Steady, makerVars, nodeVars
  <2>8. taker[r].st = "active"
    BY DEF Active
  <2>. QED
    BY <1>8, <2>1, <2>3, <2>4, <2>5, <2>6, <2>7, <2>8 DEF OneDeal
<1>16. FewChosen(r)'
  <2>1. Chosen(r)' \subseteq Chosen(r) \cup {m.o}
    BY <1>2, <1>15 DEF Chosen, Started
  <2>2. IsFiniteSet(Chosen(r)) /\ Cardinality(Chosen(r)) <= tCrashes[r] /\ tCrashes[r] \in Nat
    BY <1>0, <1>3, MapsOfTaker DEF BookInv, FewChosen, TakerOwn
  <2>3. /\ IsFiniteSet(Chosen(r) \cup {m.o}) /\ Cardinality(Chosen(r)) \in Nat
        /\ Cardinality(Chosen(r) \cup {m.o}) <= Cardinality(Chosen(r)) + 1
    <3>1. Cardinality(Chosen(r)) \in Nat
      BY <2>2, FS_CardinalityType
    <3>2. /\ IsFiniteSet(Chosen(r) \cup {m.o})
          /\ \/ Cardinality(Chosen(r) \cup {m.o}) = Cardinality(Chosen(r))
             \/ Cardinality(Chosen(r) \cup {m.o}) = Cardinality(Chosen(r)) + 1
      BY <2>2, FS_AddElement, Zenon
    <3>. QED
      BY <3>1, <3>2
  <2>4. /\ IsFiniteSet(Chosen(r)') /\ Cardinality(Chosen(r)') \in Nat
        /\ Cardinality(Chosen(r)') <= Cardinality(Chosen(r) \cup {m.o})
        /\ Cardinality(Chosen(r) \cup {m.o}) \in Nat
    BY <2>1, <2>3, FS_Subset, FS_CardinalityType
  <2>. QED
    BY <1>2, <1>8, <2>2, <2>3, <2>4 DEF FewChosen
<1>17. \A x \in net' : x \in net \/ x.r = r
    BY <1>1, MessageOf
<1>. QED
    BY <1>0, <1>2, <1>10, <1>13, <1>14, <1>15, <1>16, <1>17, TakerKeepsBook

\* A new order is sent to everybody, once.
LEMMA BuyKeeps ==
    ASSUME BookInv, CancelInv', NEW r \in Requests, UNCHANGED makerVars, lp_auto_buy(r)
    PROVE  BookInv'
<1>0. /\ TakerOwn(r) /\ takerSwaps \subseteq Swaps /\ taker[r].st = "none"
      /\ tStarting \subseteq takerSwaps
    BY MapsOfTaker DEF BookInv, NetTypeOK, Spawned, lp_auto_buy
<1>1. PICK want \in Wants, st \in {"active", "gone"} :
         taker' = [taker EXCEPT ![r] = [st |-> st, action |-> want.action,
                                        base |-> want.base, rel |-> want.rel, match |-> {}]]
    BY Zenon DEF lp_auto_buy
<1>2. /\ net' = net \cup {TakerRequest(r, o) : o \in Orders \cap cast.who}
      /\ tFile' = [tFile EXCEPT ![r] = taker'[r]]
      /\ UNCHANGED <<tSaving, pending, sleeping, coins, tDisabling, tDisabled, tStarting, tCrashes,
                     cast, disturbances, makerSwaps, takerSwaps>>
    BY Zenon DEF lp_auto_buy, Broadcast, tNodeVars
<1>. DEFINE new == [st |-> st, action |-> want.action,
                    base |-> want.base, rel |-> want.rel, match |-> {}]
<1>3. new \in TakerOrder /\ new.st # "none" /\ new.match = {}
    BY AmountsAssumption DEF TakerOrder
<1>. HIDE DEF new
<1>4. TakerUpd(taker, taker', r) /\ taker'[r] = new /\ TakerUpd(tFile, tFile', r) /\ tFile'[r] = new
  <2>1. taker' = [taker EXCEPT ![r] = new]
    BY <1>1, Zenon DEF new
  <2>2. TakerUpd(taker, taker', r) /\ taker'[r] = new
    BY <2>1, MapsOfTaker, TakerUpdated
  <2>. QED
    BY <1>2, <2>2, MapsOfTaker, TakerUpdated
<1>5. TakerStepOf(r) /\ Later
    BY <1>2, <1>4, MapsOfTaker, TakerUpdated DEF TakerStepOf, Later
<1>6. taker[r].match = {} /\ pending[r] = {} /\ \A s \in takerSwaps : s.r # r
    BY <1>0 DEF TakerOwn, MatchOf, NoTakerOrder
<1>7. MatchOf(r, taker[r].match)' /\ MatchOf(r, tFile[r].match)'
    BY <1>2, <1>3, <1>4, <1>6 DEF MatchOf
<1>8. TakerOwn(r)'
    BY <1>0, <1>2, <1>3, <1>4, <1>6, <1>7 DEF TakerOwn
<1>9. \A x \in net' : x \in net \/ x.r = r
    BY <1>2, MessageOf
<1>10. NetTypeOK'
  <2>1. {TakerRequest(r, o) : o \in Orders \cap cast.who} \subseteq
          [type : {"request", "connect", "connected"}, r : Requests, o : Orders]
    BY DEF TakerRequest
  <2>. QED
    BY <1>2, <2>1 DEF BookInv, NetTypeOK
<1>11. ASSUME NEW v \in Orders
       PROVE  OneDeal(r, v)' /\ (Chooses(r, v)' => Chooses(r, v))
  <2>1. OneDeal(r, v)
    BY DEF BookInv
  <2>2. /\ TakerConnect(r, v) \in net' => TakerConnect(r, v) \in net
        /\ MakerConnected(r, v) \in net' => MakerConnected(r, v) \in net
        /\ \A b, q : MakerReserved(r, v, b, q) \in net' => MakerReserved(r, v, b, q) \in net
    <3>1. \A x \in net' : x \in net \/ \E o \in Orders : x = TakerRequest(r, o)
      BY <1>2, Zenon
    <3>2. \A o, b, q : /\ TakerConnect(r, v) # TakerRequest(r, o)
                       /\ MakerConnected(r, v) # TakerRequest(r, o)
                       /\ MakerReserved(r, v, b, q) # TakerRequest(r, o)
      BY DEF TakerRequest, TakerConnect, MakerConnected, MakerReserved
    <3>. QED
      BY <3>1, <3>2, Zenon
  <2>3. Deals(r, v) = {} /\ ~Requested(r, v) /\ ~Chooses(r, v)
    BY <1>0, <2>1 DEF OneDeal
  <2>4. Deals(r, v)' \subseteq Deals(r, v)
    BY <1>2, <1>3, <1>4, <2>2 DEF Deals, makerVars
  <2>5. Chooses(r, v)' => Chooses(r, v)
    BY <2>2 DEF Chooses, makerVars
  <2>6. ~(TakerRequest(r, v) \in net' /\ Requesting(r) \in waiting'[v])
    BY <2>3 DEF Requested, makerVars
  <2>7. MakerConnected(r, v) \in net' /\ Steady(v)' => Started(r, v)'
    BY <1>2, <2>1, <2>2 DEF OneDeal, Started, Steady, makerVars, nodeVars
  <2>. QED
    BY <1>3, <1>4, <2>3, <2>4, <2>5, <2>6, <2>7 DEF OneDeal
<1>12. FewChosen(r)'
  <2>1. Chosen(r)' \subseteq Chosen(r)
    BY <1>2, <1>11 DEF Chosen, Started
  <2>2. FewChosen(r) /\ tCrashes[r] \in Nat
    BY MapsOfTaker DEF BookInv, TakerOwn
  <2>. QED
    BY <1>2, <1>6, <2>1, <2>2, ChosenKept
<1>. QED
    BY <1>0, <1>2, <1>5, <1>8, <1>9, <1>10, <1>11, <1>12, TakerKeepsBook

\* Every step of a taker keeps the invariant.
LEMMA TakerKeeps ==
    ASSUME BookInv, CancelInv', TakerStep
    PROVE  BookInv'
<1>1. PICK r \in Requests : TakerHandles(r)
    BY DEF TakerStep
<1>2. UNCHANGED makerVars
    BY DEF TakerStep
<1>3. CASE process_maker_reserved(r)
    BY <1>2, <1>3, WakeQuiet, ChoiceKeeps, TakerQuietKeeps
<1>4. CASE ~process_maker_reserved(r)
    BY <1>1, <1>2, <1>4, BuyKeeps, AnswerQuiet, ConnectedQuiet, EndQuiet, SavedQuiet,
       TakerRestartQuiet, TakerCoinsQuiet, DisableEndsQuiet, TakerQuietKeeps DEF TakerHandles
<1>. QED
    BY <1>3, <1>4

-----------------------------------------------------------------------------
(* The invariant, and what it says.                                        *)

\* The initial states have the invariant.
LEMMA BookInvInit == Init => BookInv
<1>. SUFFICES ASSUME Init PROVE BookInv
    OBVIOUS
<1>1. CancelInv
    BY CancelInvInit
<1>2. NetTypeOK /\ IsFiniteSet(makerSwaps) /\ takerSwaps = {} /\ makerSwaps = {} /\ Spawned
    BY AmountsAssumption, FS_EmptySet
       DEF Init, NetInit, NetTypeOK, MakerInit, TakerInit, Spawned
<1>3. MakerBook
    BY NoOrderSound DEF Init, NetInit, MakerInit, MakerBook, MakerOwn, IsMap, Sound, Reversible
<1>4. TakerBook
    BY DEF Init, NetInit, TakerInit, TakerBook, TakerOwn, TakerOrder, NoTakerOrder, MatchOf, IsTakerMap
<1>5. ASSUME NEW r \in Requests, NEW o \in Orders
      PROVE  OneDeal(r, o) /\ ~Chooses(r, o) /\ ~Started(r, o)
  <2>1. net = {} /\ waiting[o] = {} /\ makerSwaps = {} /\ pending[r] = {}
    BY DEF Init, NetInit, MakerInit, TakerInit
  <2>2. taker[r].match = {} /\ tFile[r].match = {}
    BY DEF Init, TakerInit, NoTakerOrder
  <2>3. order[o].matches[r].st = "none" /\ file[o].matches[r].st = "none"
    BY DEF Init, MakerInit, NoOrder, NoMatch
  <2>4. Deals(r, o) = {}
    BY <2>1, <2>2, <2>3 DEF Deals, MatchedWith
  <2>. QED
    BY <2>1, <2>4 DEF OneDeal, Requested, Chooses, Started
<1>6. ASSUME NEW r \in Requests PROVE FewChosen(r)
  <2>1. Chosen(r) = {} /\ tCrashes[r] = 0 /\ taker[r].match = {}
    BY <1>5 DEF Chosen, Init, TakerInit, NoTakerOrder
  <2>. QED
    BY <2>1, FS_EmptySet DEF FewChosen
<1>7. ASSUME NEW o \in Orders PROVE Backed(o)
    BY <1>2 DEF Backed, Init, MakerInit
<1>. QED
    BY <1>1, <1>2, <1>3, <1>4, <1>5, <1>6, <1>7 DEF BookInv

\* Every step keeps the invariant.
LEMMA BookInvNext == BookInv /\ [Next]_vars => BookInv'
<1>. SUFFICES ASSUME BookInv, [Next]_vars PROVE BookInv'
    OBVIOUS
<1>1. CancelInv'
    BY CancelInvNext DEF BookInv
<1>2. CASE MakerStep
    BY <1>1, <1>2, MakerKeeps
<1>3. CASE TakerStep
    BY <1>1, <1>3, TakerKeeps
<1>4. CASE UNCHANGED vars
  <2>. USE <1>4 DEF vars, makerVars, takerVars, netVars, messageVars, nodeVars, tNodeVars
  <2>1. NetTypeOK' /\ IsFiniteSet(makerSwaps') /\ Spawned'
    BY DEF BookInv, NetTypeOK, Spawned
  <2>2. MakerBook'
    BY DEF BookInv, MakerBook, MakerOwn, Reversible
  <2>3. TakerBook'
    BY DEF BookInv, TakerBook, TakerOwn, MatchOf
  <2>4. ASSUME NEW r \in Requests, NEW o \in Orders PROVE OneDeal(r, o)'
    BY DEF BookInv, OneDeal, Deals, Requested, Chooses, Started, Steady
  <2>5. ASSUME NEW r \in Requests PROVE FewChosen(r)'
    <3>1. Chosen(r)' = Chosen(r)
      BY DEF Chosen, Chooses, Started
    <3>. QED
      BY <3>1 DEF BookInv, FewChosen
  <2>6. ASSUME NEW o \in Orders PROVE Backed(o)'
    BY DEF BookInv, Backed, Steady
  <2>7. ASSUME NEW s \in takerSwaps' PROVE BothStarted(s)'
    BY DEF BookInv, BothStarted, Steady
  <2>. QED
    BY <1>1, <2>1, <2>2, <2>3, <2>4, <2>5, <2>6, <2>7 DEF BookInv
<1>. QED
    BY <1>2, <1>3, <1>4 DEF Next

\* The variables of both sides and of the network hold what their declarations say; in
\* particular what the order book is told is never negative.
THEOREM OrderTypes == Spec => []TypeOK
<1>1. BookInv => TypeOK
  <2>. SUFFICES ASSUME BookInv PROVE TypeOK
    OBVIOUS
  <2>1. MakerTypeOK
    <3>1. \A o \in Orders : mCrashes[o] \in 0..MaxDisturbances
      BY MapsOfMaker DEF MakerOwn
    <3>2. \A o \in Orders : order[o] \in MakerOrder /\ file[o] \in MakerOrder
      BY MapsOfMaker DEF MakerOwn, Sound
    <3>3. /\ inMap \in [Orders -> BOOLEAN] /\ before \in [Orders -> MakerOrder]
          /\ mutex \in [Orders -> {"free", "save", "update", "delete", "cancel"}]
          /\ \A o \in Orders : waiting[o] \subseteq Handlers
          /\ advert \in [Orders -> Nat] /\ cancelled \in [Orders -> {"no", "idle", "raced"}]
          /\ mCoins \in [Orders -> BOOLEAN] /\ mDisabled \in [Orders -> BOOLEAN]
          /\ mDisabling \in [Orders -> {"no", "cancels", "removes"}]
      BY MapsOfMaker, Zenon DEF MakerOwn, IsMap
    <3>4. /\ order \in [Orders -> MakerOrder] /\ file \in [Orders -> MakerOrder]
          /\ mCrashes \in [Orders -> 0..MaxDisturbances]
      BY <3>1, <3>2, MapsOfMaker, Zenon DEF IsMap
    <3>. QED
      BY <3>3, <3>4 DEF MakerTypeOK, BookInv, Spawned
  <2>2. TakerTypeOK
    <3>1. \A r \in Requests : tCrashes[r] \in 0..MaxDisturbances
      BY MapsOfTaker DEF TakerOwn
    <3>2. \A r \in Requests : /\ DOMAIN taker[r] = DOMAIN NoTakerOrder
                              /\ taker[r].st \in {"none", "active", "gone"}
                              /\ taker[r].match \subseteq Swaps
      BY MapsOfTaker DEF TakerOwn, TakerOrder, NoTakerOrder
    <3>3. \A r \in Requests : \A m \in pending[r] : m.type = "reserved" /\ m.r = r
      BY MapsOfTaker DEF TakerOwn
    <3>4. /\ tSaving \in [Requests -> BOOLEAN] /\ sleeping \in [Requests -> BOOLEAN]
          /\ coins \in [Requests -> BOOLEAN] /\ tCrashes \in [Requests -> 0..MaxDisturbances]
          /\ tDisabling \in [Requests -> {"no", "cancels", "removes"}]
          /\ tDisabled \in [Requests -> BOOLEAN]
      BY <3>1, MapsOfTaker, Zenon DEF TakerOwn, IsTakerMap
    <3>. QED
      BY <3>2, <3>3, <3>4 DEF TakerTypeOK, BookInv, Spawned
  <2>. QED
    BY <2>1, <2>2 DEF BookInv, TypeOK
<1>. QED
    BY <1>1, BookInvInit, BookInvNext, PTL DEF Spec

\* Two swaps of the same request and order are one.
LEMMA OneSwapPerPair ==
    ASSUME BookInv, NEW s \in makerSwaps, NEW t \in makerSwaps, s.r = t.r, s.o = t.o
    PROVE  s = t
<1>1. /\ s \in Swaps /\ t \in Swaps /\ s.r \in Requests /\ s.o \in Orders
      /\ s = Swap(s.r, s.o, s.base, s.rel) /\ t = Swap(s.r, s.o, t.base, t.rel)
    BY MessageFacts DEF BookInv, NetTypeOK, Swaps
<1>. DEFINE d == [base |-> s.base, rel |-> s.rel]
            e == [base |-> t.base, rel |-> t.rel]
<1>2. /\ d \in Amounts /\ d.base = s.base /\ d.rel = s.rel
      /\ e \in Amounts /\ e.base = t.base /\ e.rel = t.rel
    BY <1>1 DEF Amounts, Swaps
<1>. HIDE DEF d, e
<1>3. d \in Deals(s.r, s.o) /\ e \in Deals(s.r, s.o)
    BY <1>1, <1>2 DEF Deals
<1>4. d = e
    BY <1>1, <1>3 DEF BookInv, OneDeal
<1>. QED
    BY <1>1, <1>2, <1>4

\* Swaps that an order has started are reserved in it, as long as its node did not die.
LEMMA StartedIsReserved ==
    ASSUME BookInv, NEW o \in Orders, mCrashes[o] = 0
    PROVE  StartedAmount(o) <= reserved_amount(order[o])
<1>. DEFINE S == {s \in makerSwaps : s.o = o}
            T == Taken(order[o])
            f == [s \in S |-> s.base]
            i == [s \in S |-> s.r]
            w == Bases(order[o])
<1>1. IsFiniteSet(S) /\ S \subseteq Swaps
    BY FS_Subset DEF BookInv, NetTypeOK
<1>2. order[o] \in MakerOrder /\ IsFiniteSet(T) /\ Backed(o)
    BY MapsOfMaker DEF MakerOwn, Sound, BookInv
<1>3. ASSUME NEW s \in S
      PROVE  /\ s.r \in Requests /\ order[o].matches[s.r].st = "connected"
             /\ order[o].matches[s.r].base = s.base
  <2>1. order[o].matches[s.r] = [st |-> "connected", base |-> s.base, rel |-> s.rel]
    BY <1>2, <1>3, Zenon DEF Backed
  <2>. QED
    BY <1>1, <2>1 DEF Swaps
<1>4. \A s \in S : i[s] \in T /\ f[s] = w[i[s]]
    BY <1>2, <1>3, OrderFacts DEF Bases
<1>5. \A s, t \in S : i[s] = i[t] => s = t
    BY OneSwapPerPair
<1>6. \A r \in T : w[r] \in Nat
    BY <1>2, OrderFacts DEF Bases
<1>7. StartedAmount(o) = Sum(f, S)
  <2>1. StartedAmount(o) = MapThenSumSet(LAMBDA s : s.base, S)
    BY Zenon DEF StartedAmount
  <2>. HIDE DEF S
  <2>2. MapThenSumSet(LAMBDA r : r.base, S) = Sum([r \in S |-> r.base], S)
    BY <1>1, SumOfOwnBases, Zenon
  <2>. QED
    BY <2>1, <2>2, Zenon
<1>8. reserved_amount(order[o]) = Sum(w, T)
    BY <1>2, ReservedIsSum
<1>. HIDE DEF S, T, f, i, w
<1>9. Sum(f, S) <= Sum(w, T)
    BY <1>1, <1>2, <1>4, <1>5, <1>6, SumInjective
<1>. QED
    BY <1>7, <1>8, <1>9

\* What an order has reserved fits into max_base_vol, and what it has sold is reserved,
\* whatever times out, is updated, or shrinks with the balance; what is sold may exceed what is
\* reserved only once the node has died before it had saved a match.
THEOREM OrderNotOversold == Spec => []NotOversold
<1>1. BookInv => NotOversold
  <2>. SUFFICES ASSUME BookInv, NEW o \in Orders
                PROVE  /\ reserved_amount(order[o]) <= order[o].max
                       /\ mCrashes[o] = 0 => StartedAmount(o) <= reserved_amount(order[o])
    BY DEF NotOversold
  <2>1. reserved_amount(order[o]) <= order[o].max
    BY MapsOfMaker DEF MakerOwn, Sound
  <2>. QED
    BY <2>1, StartedIsReserved
<1>. QED
    BY <1>1, BookInvInit, BookInvNext, PTL DEF Spec

\* A taker starts only what its maker has started, unless the maker's node was restarted or
\* disable_coin removed a coin of the pair there, and with amounts that satisfy the request.
THEOREM SidesStartTheSame == Spec => []SidesAgree
<1>1. BookInv => SidesAgree
  <2>. SUFFICES ASSUME BookInv, NEW s \in takerSwaps
                PROVE  BothStarted(s) /\ match_reserved(taker[s.r], s)
    BY DEF SidesAgree, BothStarted
  <2>1. BothStarted(s) /\ s.r \in Requests
    BY DEF BookInv, NetTypeOK, Swaps
  <2>2. MatchOf(s.r, taker[s.r].match)
    BY <2>1, MapsOfTaker DEF TakerOwn
  <2>. QED
    BY <2>1, <2>2 DEF MatchOf
<1>. QED
    BY <1>1, BookInvInit, BookInvNext, PTL DEF Spec

\* One swap of the taker for a request; as many of makers as the taker chose orders, which is
\* one more than it died at most.
THEOREM RequestStartsOneSwap == Spec => []OneSwapPerRequest
<1>1. BookInv => OneSwapPerRequest
  <2>. SUFFICES ASSUME BookInv, NEW r \in Requests
                PROVE  /\ Cardinality({s \in takerSwaps : s.r = r}) <= 1
                       /\ Cardinality({s \in makerSwaps : s.r = r}) <= 1 + tCrashes[r]
    BY DEF OneSwapPerRequest
  <2>1. Cardinality({s \in takerSwaps : s.r = r}) <= 1
    <3>. DEFINE S == {s \in takerSwaps : s.r = r}
    <3>1. \A s, t \in S : s = t
      BY MapsOfTaker DEF TakerOwn, MatchOf
    <3>2. S = {} \/ \E s : S = {s}
      BY <3>1
    <3>. HIDE DEF S
    <3>3. CASE S = {}
      <4>1. Cardinality(S) = 0
        BY <3>3, FS_EmptySet
      <4>. QED
        BY <4>1 DEF S
    <3>4. CASE \E s : S = {s}
      <4>1. Cardinality(S) = 1
        BY <3>4, FS_Singleton
      <4>. QED
        BY <4>1 DEF S
    <3>. QED
      BY <3>2, <3>3, <3>4
  <2>2. Cardinality({s \in makerSwaps : s.r = r}) <= 1 + tCrashes[r]
    <3>. DEFINE S == {s \in makerSwaps : s.r = r}
                f == [s \in S |-> s.o]
    <3>1. IsFiniteSet(Chosen(r)) /\ Cardinality(Chosen(r)) <= 1 + tCrashes[r] /\ tCrashes[r] \in Nat
      <4>1. FewChosen(r) /\ tCrashes[r] \in Nat
        BY MapsOfTaker DEF BookInv, TakerOwn
      <4>2. Cardinality(Chosen(r)) \in Nat
        BY <4>1, FS_CardinalityType DEF FewChosen
      <4>. QED
        BY <4>1, <4>2 DEF FewChosen
    <3>2. \A s \in S : f[s] \in Chosen(r)
      BY DEF Chosen, Started, BookInv, NetTypeOK, Swaps
    <3>3. \A s, t \in S : f[s] = f[t] => s = t
      BY OneSwapPerPair
    <3>4. f \in Injection(S, Chosen(r))
      BY <3>2, <3>3 DEF Injection, IsInjective
    <3>. HIDE DEF S, f
    <3>5. IsFiniteSet(S) /\ Cardinality(S) <= Cardinality(Chosen(r))
      BY <3>1, <3>4, FS_Injection
    <3>6. Cardinality(S) \in Nat /\ Cardinality(Chosen(r)) \in Nat
      BY <3>1, <3>5, FS_CardinalityType
    <3>7. Cardinality(S) <= 1 + tCrashes[r]
      BY <3>1, <3>5, <3>6
    <3>. QED
      BY <3>7 DEF S
  <2>. QED
    BY <2>1, <2>2
<1>. QED
    BY <1>1, BookInvInit, BookInvNext, PTL DEF Spec

\* As long as the node does not die and disable_coin removes no coin of the pair, answers that
\* are put aside for an order have a handler that will look at them.
THEOREM AnswersAreProcessed == Spec => []PendingIsProcessed
<1>1. BookInv => PendingIsProcessed
    BY MapsOfTaker DEF TakerOwn, PendingIsProcessed
<1>. QED
    BY <1>1, BookInvInit, BookInvNext, PTL DEF Spec

=============================================================================
