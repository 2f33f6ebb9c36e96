---------------------------- MODULE SwapV2Ledger ----------------------------
(***************************************************************************)
(* What the two parties of a Trading Protocol Upgrade (v2) swap share: the *)
(* clock, the chains seen through MakerCoinSwapOpsV2 / TakerCoinSwapOpsV2, *)
(* the swap topic, and the deadlines of the two state machines.            *)
(*                                                                         *)
(* The taker first locks its coins in a funding output.  Maker and taker   *)
(* together turn it into the taker's payment; the taker alone may take it  *)
(* back at once, which shows its secret.  The maker's payment goes to the  *)
(* taker with the maker's secret, back to the maker with the taker's       *)
(* secret, and back to the maker after its timelock.                       *)
(***************************************************************************)
EXTENDS Integers, FiniteSets

CONSTANTS
    LockTime,           \* lock_duration
    MaxStartedAtDiff,   \* MAX_STARTED_AT_DIFF
    CommTimeout,        \* BASIC_COMM_TIMEOUT
    NegotiationTimeout, \* NEGOTIATION_TIMEOUT_SEC
    Epoch,              \* the UNIX time of the first moment of the model
    MaxTime,            \* bound on the clock
    MaxStart,           \* bound: neither party starts the swap later than this
    MaxMakerFaults,     \* bound: deaths and failed calls of the maker's node
    MaxTakerFaults      \* bound: deaths and failed calls of the taker's node

ASSUME V2TimesAssumption ==
    /\ LockTime \in Nat \ {0}
    /\ {MaxStartedAtDiff, CommTimeout, NegotiationTimeout, MaxTime, MaxStart,
        MaxMakerFaults, MaxTakerFaults} \subseteq Nat
    /\ Epoch \in Nat /\ Epoch > MaxTime + CommTimeout + NegotiationTimeout

VARIABLES
    now,        \* seconds since Epoch, the same for everyone
    tx,         \* tx[t]: where transaction t is
    forgotten,  \* forgotten[p]: copies of payment p that its sender sent and does not know of
    secrets,    \* whose secret was in a transaction that anybody could see
    skip,       \* the taker coin's skip_taker_payment_spend_preimage, fixed
    reliable    \* the topic loses no message to a node that runs, fixed

ledgerVars == <<now, tx, forgotten, secrets, skip, reliable>>

Parent == [ TakerPayment             |-> "TakerFunding",
            FundingRefund            |-> "TakerFunding",
            TakerPaymentSpend        |-> "TakerPayment",
            TakerPaymentRefund       |-> "TakerPayment",
            MakerPaymentSpend        |-> "MakerPayment",
            MakerPaymentRefund       |-> "MakerPayment",
            MakerPaymentSecretRefund |-> "MakerPayment" ]

Payments == {"TakerFunding", "MakerPayment"}
Spends   == DOMAIN Parent
Txs      == Payments \cup Spends

\* SwapV2MsgStore has one slot per message.
ToTaker == {"MakerNegotiation", "MakerNegotiated", "MakerPaymentInfo"}
ToMaker == {"TakerNegotiation", "TakerFundingInfo", "TakerPaymentSpendPreimage"}

LedgerTypeOK ==
    /\ now \in 0..MaxTime
    /\ tx \in [Txs -> {"none", "mempool", "mined"}]
    /\ forgotten \in [Payments -> Nat]
    /\ secrets \subseteq {"maker", "taker"}
    /\ {skip, reliable} \subseteq BOOLEAN

LedgerInit ==
    /\ now = 0
    /\ tx = [t \in Txs |-> "none"]
    /\ forgotten = [p \in Payments |-> 0]
    /\ secrets = {}
    /\ skip \in BOOLEAN /\ reliable \in BOOLEAN

-----------------------------------------------------------------------------
(* Deadlines, all offsets from Epoch.                                      *)

taker_payment_locktime(startedAt)     == startedAt + LockTime
maker_payment_locktime(startedAt)     == startedAt + 2 * LockTime
maker_payment_conf_timeout(startedAt) == startedAt + LockTime \div 3
taker_payment_conf_timeout(startedAt) == startedAt + (LockTime * 2) \div 3

AbsDiff(a, b) == IF a >= b THEN a - b ELSE b - a

\* recv_swap_v2_msg gives up after started + BASIC_COMM_TIMEOUT + timeout, a duration.  The
\* last moment of the model stands for every later one short of 2 * Epoch.
recv_timed_out(waitFrom, timeout) ==
    \/ now > waitFrom + CommTimeout + timeout
    \/ now = MaxTime /\ timeout < Epoch

-----------------------------------------------------------------------------
(* The chains.                                                             *)

Seen(t)  == tx[t] # "none"
Mined(t) == tx[t] = "mined"

Competitors(t) == {u \in Spends : t \in Spends /\ Parent[u] = Parent[t]} \ {t}

\* Slip: one confirmation is taken to be zero.
zero_confirmations(t, until) == Seen(t) /\ now <= until

\* Slip: the deadline is not looked at.
confirmed_at_last(t, until) == Mined(t)

\* wait_for_confirmations returns Ok; the clock is looked at before the chain.
wait_for_confirmations(t, until) == Mined(t) /\ now <= until

can_refund_htlc(lock) == now > lock

\* A spend that shows a secret: sign_and_broadcast_taker_payment_spend the maker's,
\* refund_taker_funding_secret the taker's.
Shows(t) ==
    CASE t = "TakerPaymentSpend" -> {"maker"}
      [] t = "FundingRefund"     -> {"taker"}
      [] OTHER                   -> {}

\* A node takes t while no block has spent what t spends.  What competes with t may wait
\* already, then both wait and the block decides.
SpendOk(t) ==
    /\ Seen(Parent[t]) /\ ~Mined(t) /\ \A u \in Competitors(t) : ~Mined(u)
    /\ tx' = [tx EXCEPT ![t] = "mempool"]
    /\ secrets' = secrets \cup Shows(t)
    /\ UNCHANGED forgotten

\* A node refuses what it knows already, and what spends an output that is not there, is spent
\* or is being spent.
SpendRefused(t) ==
    /\ ~Seen(Parent[t]) \/ Seen(t) \/ \E u \in Competitors(t) : Seen(u)
    /\ UNCHANGED <<tx, forgotten, secrets>>

\* A new transaction pays p: the copy an earlier run of the same state sent is forgotten.
SendPayment(p) ==
    /\ tx' = [tx EXCEPT ![p] = "mempool"]
    /\ forgotten' = [forgotten EXCEPT ![p] = IF Seen(p) THEN @ + 1 ELSE @]
    /\ UNCHANGED secrets

\* A block takes t, and what competes with t is void together with what spends that.
Mine(t) ==
    /\ tx[t] = "mempool"
    /\ t \in Spends => Mined(Parent[t])
    /\ LET void == Competitors(t) IN
       tx' = [u \in Txs |-> CASE u = t -> "mined"
                              [] u \in void -> "none"
                              [] u \in Spends /\ Parent[u] \in void -> "none"
                              [] OTHER -> tx[u]]
    /\ UNCHANGED <<now, forgotten, secrets, skip, reliable>>

=============================================================================
