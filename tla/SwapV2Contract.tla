--------------------------- MODULE SwapV2Contract ---------------------------
(***************************************************************************)
(* What a Trading Protocol Upgrade swap promises both parties, whatever    *)
(* fails, stops or is repeated.  The maker pays against the taker's        *)
(* funding, and the taker turns that into its payment only when the        *)
(* maker's cannot be replaced any more.  The maker shows its secret only   *)
(* when both payments are there to be claimed, and the taker shows its own *)
(* only to take back what it has not paid yet.  The maker's payment goes   *)
(* to the taker, or back before its timelock, only after that.  A secret   *)
(* that was shown stays known, whether or not its transaction prevails.    *)
(***************************************************************************)

VARIABLES
    mp,         \* the maker's payment
    tp,         \* the taker's coins
    secrets     \* whose secret is known

MakerSide == {"none", "sent", "locked", "claimed", "refunded", "returned"}
TakerSide == {"none", "funded", "paid", "locked", "claimed", "refunded", "reclaimed"}

Init == mp = "none" /\ tp = "none" /\ secrets = {}

MakersCoins(from, to) == mp \in from /\ mp' = to /\ UNCHANGED <<tp, secrets>>
TakersCoins(from, to) == tp \in from /\ tp' = to /\ UNCHANGED <<mp, secrets>>

TakerFunds == TakersCoins({"none"}, "funded")

\* The maker may replace its payment, as long as the taker has not paid against it.
MakerPays     == tp \in {"funded", "reclaimed"} /\ MakersCoins({"none", "sent", "locked"}, "sent")
MakerConfirms == MakersCoins({"sent"}, "locked")

\* A taker that comes back late may pay against what the maker has just taken back.
TakerPays ==
    /\ mp \in {"locked", "refunded"} /\ "taker" \notin secrets
    /\ TakersCoins({"funded"}, "paid")

TakerConfirms == TakersCoins({"paid"}, "locked")

\* A taker whose payment call has failed may take its funding back while the payment is on
\* its way: then the one or the other confirms.
TakerShows ==
    /\ tp \in {"funded", "paid"}
    /\ secrets' = secrets \cup {"taker"} /\ UNCHANGED <<mp, tp>>

TakerReclaims == "taker" \in secrets /\ TakersCoins({"funded", "paid"}, "reclaimed")

MakerShows ==
    /\ tp = "locked" /\ mp = "locked"
    /\ secrets' = secrets \cup {"maker"} /\ UNCHANGED <<mp, tp>>

MakerClaims == "maker" \in secrets /\ TakersCoins({"locked"}, "claimed")
TakerClaims == "maker" \in secrets /\ MakersCoins({"locked"}, "claimed")

\* After the timelocks, and with the taker's secret.
TakerRefunds == TakersCoins({"locked"}, "refunded")
MakerRefunds == MakersCoins({"locked"}, "refunded")
MakerReturns == "taker" \in secrets /\ MakersCoins({"locked"}, "returned")

Next ==
    \/ TakerFunds \/ MakerPays \/ MakerConfirms
    \/ TakerPays \/ TakerConfirms
    \/ TakerShows \/ TakerReclaims \/ MakerShows \/ MakerClaims \/ TakerClaims
    \/ TakerRefunds \/ MakerRefunds \/ MakerReturns

Spec == Init /\ [][Next]_<<mp, tp, secrets>>

=============================================================================
