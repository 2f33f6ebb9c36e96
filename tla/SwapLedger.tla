----------------------------- MODULE SwapLedger -----------------------------
(***************************************************************************)
(* What the two parties of a legacy (v1) atomic swap and their watcher     *)
(* share: the clock, the two blockchains seen through coins::SwapOps, the  *)
(* swap topic of the P2P network, and the deadlines of lp_swap.rs.         *)
(*                                                                         *)
(* Six transactions matter to one swap.  Each party's payment is an HTLC   *)
(* output that its receiver may spend with the secret at any time and its  *)
(* sender may take back after the payment's timelock.  A transaction that  *)
(* was accepted by a node sits in the mempool until it is mined; two       *)
(* conflicting ones may both sit there, and the block decides.             *)
(***************************************************************************)
EXTENDS Integers, FiniteSets, Sequences

CONSTANTS
    LockTime,           \* payment_locktime / data.lock_duration
    MaxStartedAtDiff,   \* MAX_STARTED_AT_DIFF
    CommTimeout,        \* BASIC_COMM_TIMEOUT
    NegotiationTimeout, \* NEGOTIATION_TIMEOUT_SEC, NEGOTIATE_TIMEOUT_SEC
    PaymentMsgTimeout,  \* TAKER_FEE_RECV_TIMEOUT_SEC, MAKER_PAYMENT_WAIT_TIMEOUT_SEC
    RefundGrace,        \* the 3700 seconds of wait_refund_until
    MaxTime,            \* bound on the clock
    MaxStart,           \* bound: neither party starts the swap later than this
    PromptChain,        \* TRUE: whatever is broadcast is mined before the clock moves
    RpcErrors           \* TRUE: a call to a coin's node may fail, or fail after it took effect

ASSUME TimesAssumption ==
    /\ LockTime \in Nat \ {0}
    /\ {MaxStartedAtDiff, CommTimeout, NegotiationTimeout,
        PaymentMsgTimeout, RefundGrace, MaxTime, MaxStart} \subseteq Nat

ASSUME FlagsAssumption ==
    /\ PromptChain \in BOOLEAN
    /\ RpcErrors \in BOOLEAN

VARIABLES
    now,    \* seconds since some epoch, the same for everyone
    tx,     \* tx[t]: where transaction t is
    sent,   \* sent[t]: how many times payment or fee t was created and broadcast
    net     \* messages broadcast on the swap's topics so far

ledgerVars == <<now, tx, sent, net>>

Payments == {"MakerPayment", "TakerPayment"}

\* The receiver's and the sender's way of spending a payment.
SpendOf(p)  == IF p = "MakerPayment" THEN "MakerPaymentSpend" ELSE "TakerPaymentSpend"
RefundOf(p) == IF p = "MakerPayment" THEN "MakerPaymentRefund" ELSE "TakerPaymentRefund"

Txs == Payments \cup {"MakerPaymentSpend", "MakerPaymentRefund",
                      "TakerPaymentSpend", "TakerPaymentRefund"}

TxStates == {"none", "mempool", "mined"}

SwapMsgs == {"Negotiation", "NegotiationReply", "Negotiated", "NegotiatedFalse",
             "TakerFee", "MakerPayment", "TakerPayment", "TakerSwapWatcherMsg"}

LedgerTypeOK ==
    /\ now \in Nat
    /\ tx \in [Txs -> TxStates]
    /\ sent \in [Payments \cup {"TakerFee"} -> Nat]
    /\ net \in SUBSET SwapMsgs

LedgerInit ==
    /\ now = 0
    /\ tx = [t \in Txs |-> "none"]
    /\ sent = [t \in Payments \cup {"TakerFee"} |-> 0]
    /\ net = {}

-----------------------------------------------------------------------------
(* Deadlines.  u64 division truncates.                                     *)

\* Slip, which the runs are shown to notice and no specification uses: a deadline for the
\* maker's spend that lies past the taker's lock.
spend_deadline_past_lock(startedAt) == startedAt + (LockTime * 8) \div 5

taker_payment_lock(startedAt) == startedAt + LockTime
maker_payment_lock(startedAt) == startedAt + 2 * LockTime

send_deadline(startedAt)                     == startedAt + LockTime \div 3
wait_for_maker_payment_conf_until(startedAt) == startedAt + (LockTime * 2) \div 5
taker_payment_spend_deadline(startedAt)      == startedAt + (LockTime * 4) \div 5

AbsDiff(a, b) == IF a >= b THEN a - b ELSE b - a

\* recv_swap_msg gives up at the first check after started + BASIC_COMM_TIMEOUT + timeout.
\* MaxTime is past every other deadline: it stands for all later times.
recv_timed_out(waitFrom, timeout) == now > waitFrom + CommTimeout + timeout \/ now = MaxTime

-----------------------------------------------------------------------------
(* The chains, as the swap code sees them through SwapOps.                 *)

Seen(t)  == tx[t] # "none"
Mined(t) == tx[t] = "mined"

\* Slips: an earlier payment is not looked for; the mempool is taken for a confirmation.
payment_not_searched(p)      == FALSE
zero_confirmations(t, until) == Seen(t) /\ now <= until

\* check_if_my_payment_sent finds a payment that an earlier run of the swap has sent.
check_if_my_payment_sent(p) == Seen(p)

\* wait_for_confirmations returns Ok.  Each round looks at the clock before the chain: past
\* the deadline, a transaction that has confirmed is an error too.
wait_for_confirmations(t, until) == Mined(t) /\ now <= until

\* wait_for_confirmations returns Err: too late, or the transaction was not found ten times.
not_confirmed(t, until) == now > until \/ ~Seen(t) \/ RpcErrors

\* search_for_swap_tx_spend_my / _other: Spent, Refunded or None.
SpendSeen(p)  == Seen(SpendOf(p))
RefundSeen(p) == Seen(RefundOf(p))

\* The output of payment p exists and no block has spent it.
Unspent(p) == Seen(p) /\ ~Mined(SpendOf(p)) /\ ~Mined(RefundOf(p))

\* can_refund_htlc: median time past must be beyond the lock, and it trails the clock.
can_refund_htlc(lock) == now > lock

Put(t) == [tx EXCEPT ![t] = IF @ = "none" THEN "mempool" ELSE @]

\* A send that may return Ok, and what it leaves on chain.
SendPaymentOk(p) ==
    /\ tx' = Put(p)
    /\ sent' = [sent EXCEPT ![p] = @ + 1]

\* A send that returns Err: nothing was sent, or the answer was lost on the way back.
SendPaymentErr(p) ==
    /\ RpcErrors
    /\ \/ UNCHANGED <<tx, sent>>
       \/ SendPaymentOk(p)

SpendOk(p) == Unspent(p) /\ tx' = Put(SpendOf(p))

\* The node refuses a spend of an output that is spent or being spent, and may fail.
\* On Err the transaction, if it was built, is handed to other nodes (txhlp topic).
SpendErr(p) ==
    \/ /\ ~Unspent(p) \/ SpendSeen(p) \/ RefundSeen(p) \/ RpcErrors
       /\ UNCHANGED tx
    \/ /\ RpcErrors
       /\ SpendOk(p)

RefundOk(p) == Unspent(p) /\ tx' = Put(RefundOf(p))

RefundErr(p) ==
    \/ /\ ~Unspent(p) \/ SpendSeen(p) \/ RefundSeen(p) \/ RpcErrors
       /\ UNCHANGED tx
    \/ /\ RpcErrors
       /\ RefundOk(p)

\* Transactions that compete with t for the same output.
Conflicts(t) ==
    CASE t \in {"MakerPaymentSpend", "MakerPaymentRefund"} ->
             {"MakerPaymentSpend", "MakerPaymentRefund"} \ {t}
      [] t \in {"TakerPaymentSpend", "TakerPaymentRefund"} ->
             {"TakerPaymentSpend", "TakerPaymentRefund"} \ {t}
      [] OTHER -> {}

ParentOf(t) == IF t \in {"MakerPaymentSpend", "MakerPaymentRefund"}
               THEN "MakerPayment" ELSE "TakerPayment"

\* A block takes t from the mempool and evicts what t double-spends.
Mine(t) ==
    /\ tx[t] = "mempool"
    /\ t \notin Payments => Mined(ParentOf(t))
    /\ tx' = [u \in Txs |-> IF u = t THEN "mined"
                            ELSE IF u \in Conflicts(t) THEN "none" ELSE tx[u]]
    /\ UNCHANGED <<now, sent, net>>

\* A node drops a transaction that was not mined, and what spends it.
Evict(t) ==
    /\ ~PromptChain
    /\ tx[t] = "mempool"
    /\ tx' = [u \in Txs |-> IF u = t \/ (t \in Payments /\ u \in {SpendOf(t), RefundOf(t)})
                            THEN "none" ELSE tx[u]]
    /\ UNCHANGED <<now, sent, net>>

\* The clock.  With PromptChain, one unit of time is longer than a confirmation takes.
Tick ==
    /\ now < MaxTime
    /\ PromptChain => \A t \in Txs : tx[t] # "mempool"
    /\ now' = now + 1
    /\ UNCHANGED <<tx, sent, net>>

Broadcast(m) == net' = net \cup {m}

\* process_swap_msg puts a message into the swap's store, where recv_swap_msg finds it.
Received(m) == m \in net

\* swap_kick_starts resumes the swaps that were saved; loading refuses a log that does not
\* begin with Started.
swap_kick_starts(events) == "Started" \in events

=============================================================================
