-------------------------- MODULE MCOrderMatching ---------------------------
(***************************************************************************)
(* Small instances of OrderMatching: two makers compete for one request,   *)
(* or two takers for one order.                                            *)
(***************************************************************************)
EXTENDS OrderMatching, TLC

CONSTANTS o1, o2, r1, r2

\* An order that one request exhausts, and one that takes two of them or shrinks in between.
Small  == [max |-> 2, price |-> 1]
Double == [max |-> 4, price |-> 2]

Buy  == [action |-> "Buy", base |-> 2, rel |-> 4]
Sell == [action |-> "Sell", base |-> 2, rel |-> 2]

MCOffers == {Small, Double}
MCWants  == {Buy, Sell}

\* Two makers and a buyer whose node is disturbed, two buyers and a maker, or a maker and a
\* seller; closed under the symmetries below.
MCCasts ==
    {[who |-> {o1, o2, r}, wants |-> {Buy}, offers |-> MCOffers, disturbed |-> {r}] : r \in {r1, r2}}
        \cup {[who |-> {o, r1, r2}, wants |-> {Buy}, offers |-> MCOffers, disturbed |-> {o, r1, r2}] :
                 o \in {o1, o2}}
        \cup {[who |-> {o, r}, wants |-> {Sell}, offers |-> MCOffers, disturbed |-> {o, r}] :
                 o \in {o1, o2}, r \in {r1, r2}}

\* For the liveness run, one maker and one taker.
MCPair == {[who |-> {o1, r1}, wants |-> {Buy}, offers |-> MCOffers, disturbed |-> {o1, r1}]}

\* Orders differ only in their names, and so do requests.
Symmetries == Permutations({o1, o2}) \cup Permutations({r1, r2})

=============================================================================
