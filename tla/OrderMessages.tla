---------------------------- MODULE OrderMessages ---------------------------
(***************************************************************************)
(* What makers and takers of one pair share: the amounts they trade, the   *)
(* four messages that match a taker's request with a maker's order, and    *)
(* the swaps that a match starts.  Every order belongs to a node of its    *)
(* own, as does every request.  A message arrives once, late, or never.    *)
(***************************************************************************)
EXTENDS Integers, FiniteSets, FiniteSetsExt

CONSTANTS
    Orders,          \* the makers' orders, by uuid
    Requests,        \* the takers' orders, by uuid
    Offers,          \* bound: the volumes and prices (rel for one base) of maker orders
    Wants,           \* bound: the actions and amounts of requests
    Balances,        \* bound: what calc_max_maker_vol finds
    MaxDisturbances, \* bound: calls of users, expiries, balance changes, deaths of nodes
    MinVolume,       \* min_base_vol of every maker order
    Casts            \* bound: which orders and requests come up together, with which amounts,
                     \* and whose nodes the disturbances befall

\* A sale divides by the maker's price; the amounts of the model divide exactly.
ASSUME AmountsAssumption ==
    /\ Offers \subseteq [max : Nat, price : Nat \ {0}]
    /\ Wants \subseteq [action : {"Buy", "Sell"}, base : Nat \ {0}, rel : Nat \ {0}]
    /\ Balances \subseteq Nat /\ {MinVolume, MaxDisturbances} \subseteq Nat \ {0}
    /\ \A w \in Wants, f \in Offers : w.base % f.price = 0

ASSUME CastsAssumption ==
    Casts \subseteq [who : SUBSET (Orders \cup Requests), disturbed : SUBSET (Orders \cup Requests),
                    wants : SUBSET Wants, offers : SUBSET Offers]

VARIABLES
    cast,        \* one of Casts, fixed
    disturbances,
    net,         \* messages on their way
    makerSwaps,  \* swaps that lp_connect_start_bob starts, or has started
    takerSwaps   \* swaps that lp_connected_alice starts, or has started

messageVars == <<cast, net, makerSwaps, takerSwaps>>
netVars == <<messageVars, disturbances>>

TakerRequest(r, o)        == [type |-> "request", r |-> r, o |-> o]
MakerReserved(r, o, b, q) == [type |-> "reserved", r |-> r, o |-> o, base |-> b, rel |-> q]
TakerConnect(r, o)        == [type |-> "connect", r |-> r, o |-> o]
MakerConnected(r, o)      == [type |-> "connected", r |-> r, o |-> o]

Swap(r, o, b, q) == [r |-> r, o |-> o, base |-> b, rel |-> q]

Swaps == [r : Requests, o : Orders, base : Nat, rel : Nat]

NetTypeOK ==
    /\ cast \in Casts /\ disturbances \in 0..MaxDisturbances
    /\ net \subseteq
          [type : {"request", "connect", "connected"}, r : Requests, o : Orders]
              \cup [type : {"reserved"}, r : Requests, o : Orders, base : Nat, rel : Nat]
    /\ makerSwaps \subseteq Swaps /\ takerSwaps \subseteq Swaps

NetInit == cast \in Casts /\ disturbances = 0 /\ net = {} /\ makerSwaps = {} /\ takerSwaps = {}

\* One of the events that the model bounds, at the node of an order or a request.
Disturbed(x) ==
    /\ x \in cast.disturbed /\ disturbances < MaxDisturbances
    /\ disturbances' = disturbances + 1

Receive(m)       == m \in net /\ net' = net \ {m}
Broadcast(msgs)  == net' = net \cup msgs

=============================================================================
