---------------------------- MODULE SwapContract ----------------------------
(***************************************************************************)
(* What an atomic swap promises its maker, whatever fails or stops: the    *)
(* taker can only claim the maker's payment after the maker has claimed    *)
(* the taker's, and what the maker has claimed is never taken back.        *)
(***************************************************************************)

VARIABLES
    mp,     \* the maker's payment
    tp      \* the taker's payment; "claimed" once the secret is public

PaymentStates == {"none", "locked", "claimed", "refunded"}

Init == mp = "none" /\ tp = "none"

MakerPays  == mp = "none" /\ mp' = "locked" /\ UNCHANGED tp

\* The taker pays only against a locked payment of the maker.
TakerPays  == tp = "none" /\ mp = "locked" /\ tp' = "locked" /\ UNCHANGED mp

MakerClaims == tp = "locked" /\ tp' = "claimed" /\ UNCHANGED mp

TakerClaims == mp = "locked" /\ tp = "claimed" /\ mp' = "claimed" /\ UNCHANGED tp

TakerRefunds == tp = "locked" /\ tp' = "refunded" /\ UNCHANGED mp

MakerRefunds == mp = "locked" /\ mp' = "refunded" /\ UNCHANGED tp

Next ==
    \/ MakerPays \/ TakerPays
    \/ MakerClaims \/ TakerClaims
    \/ TakerRefunds \/ MakerRefunds

Spec == Init /\ [][Next]_<<mp, tp>>

=============================================================================
