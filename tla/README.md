# Komodo DeFi Framework: TLA+ models of swaps and order matching

This directory holds TLA+ specifications of the core of the Komodo DeFi Framework, the
configurations that model-check them with TLC, and proofs that TLAPS checks. They follow the
Rust code; `PROJECT.json` gives, for every definition, the file and the lines that it models.

Contents: [the system](#the-system) · [the modules](#the-modules-and-the-code) ·
[the runs](#the-runs) · [bounds](#bounds) · [fairness and timing](#fairness-and-timing) ·
[the proofs](#the-proofs) · [findings](#findings) · [what is left out](#what-is-left-out) ·
[plan](#plan)

## The system

The framework is a node that trades coins of different chains with other nodes, without a
custodian. Its parts, the state they keep and what makes them hard:

| Part | State | Operations | Interacts with | What is hard |
|---|---|---|---|---|
| Order matching (`lp_ordermatch.rs`, `my_orders_storage.rs`) | my maker orders behind a mutex each, my taker orders behind one mutex, their files, the answers put aside, the order book | request, reserved, connect, connected; create, update, cancel; the loops for timeouts, expiry and balances; kick start | other nodes through P2P, swaps, balances | handlers that wait for a mutex while an order is removed; messages that cross a timeout; a death between a message and a save |
| Legacy swap, maker side (`lp_swap/maker_swap.rs`) | an event log in a JSON file, the data that `apply_event` derives from it | one handler per `MakerSwapCommand`; each returns events, saved one by one, and the next command | both chains, the taker through P2P messages, the swap lock | a process that dies between two saves, or between a broadcast and its save; deadlines |
| Legacy swap, taker side (`lp_swap/taker_swap.rs`, `taker_restart.rs`) | the same, and the secret once it is known | one handler per `TakerSwapCommand`; on restart, a search for what maker and watcher did meanwhile | the same, and watchers | the same; acting on a stale view of the chain |
| Watcher (`lp_swap/swap_watcher.rs`) | a state machine in memory | validate, wait, spend or refund for the taker | chains, the watcher topic | races with the two parties |
| v2 swaps (`maker_swap_v2.rs`, `taker_swap_v2.rs`, `swap_v2_common.rs`, `mm2_state_machine`) | stored events, a state per step, the locked amount, a message store | `on_changed` of each state, `on_event`, `store_event`, `recreate_machine`, `kickstart` | as the legacy swap, with a funding transaction | actions that are repeated after a restart; one failed call ends a swap; secrets of both sides |
| Swap engine (`lp_swap.rs`) | the running swaps, the received messages, locked amounts | deadlines, message stores, kick start | all of the above | messages that are lost, late or repeated |
| Swap lock (`mm2_io/file_lock.rs`, `swap_lock.rs`) | a file with a time stamp | lock, touch, drop | other processes | several system calls that are not atomic |
| Coins (`coins/`) | wallets, node connections | `SwapOps`, `MakerCoinSwapOpsV2`, `TakerCoinSwapOpsV2`, `MarketCoinOps` | foreign nodes | calls that fail after they took effect |
| RPC tasks, event streaming, abortable systems, electrum connections | task tables, streamers, futures, connections | start, cancel, answer; connect, suspend | each other | cancellation racing completion |

A node publishes maker orders. A taker's request is answered by the makers it fits (`MakerReserved`);
the taker chooses the cheapest answer (`TakerConnect`) and the maker confirms (`MakerConnected`); both
start a swap, of the legacy protocol or, if both ask for it, of the new one.

A legacy swap exchanges two hash time-locked payments. The maker pays first, locked for twice the lock
time; the taker pays once that is confirmed, locked for one. The maker spends the taker's payment
with a secret that only it knows, which publishes the secret; the taker, or a watcher, then spends
the maker's payment with it. Whoever is left with an unspent payment takes it back after its lock.

In a v2 swap the taker first locks its coins in a funding output that it can take back at any time with
a secret of its own; the maker then pays, and both sign the transaction that turns the funding into the
taker's payment. If the taker takes its funding back, its secret lets the maker refund at once.

What makes the parts correct:

* orders: no volume is sold twice; both sides start the same swap; a request starts one swap; what is
  reserved is sold or released; a cancelled order stays cancelled;
* maker: never without both coins; never pays twice; what is restored after a crash is what was
  running; nothing stays locked for ever;
* taker: the same, as long as it, or a watcher, looks at the chain in time;
* watcher: never harms either party, and replaces an absent taker;
* lock: one run of a swap at a time, and no swap given up because of a dead process.

## The modules and the code

| Module | Models | State | Actions |
|---|---|---|---|
| `SwapLedger` | deadlines and messages of `lp_swap.rs`; `SwapOps` of the UTXO coins; the chains themselves (external) | `now`; `tx`, the place of each of six transactions; `sent`, how often each payment was created; `net`, the broadcast messages | `Mine`, `Evict`, `Tick` |
| `MakerSwap` | `maker_swap.rs` | `mCmd` (the command), `mPhase` and `mWaitFrom` (a handler in the middle of a wait), `mQueue` (events returned and not yet saved), `mSaved`, `mLast` (the log), `mStartedAt`, `mUp` | one per handler; handlers that send and then wait have one per part; `MakerSaveEvent`, `MakerCrash`, `MakerRestart`, `MakerRecoverFunds` |
| `TakerSwap` | `taker_swap.rs`, `taker_restart.rs` | the same with `t`, and `tSecret` | the same; `TakerRestart` is `load_from_saved` with the search of the chain |
| `SwapWatcher` | `swap_watcher.rs` | `wState` | one per state, `WatcherSpawn`, `WatcherStop` |
| `SwapContract` | nothing: an abstract specification of what the swap promises the maker | `mp`, `tp` | pay, claim, refund |
| `AtomicSwap` | the composition of the legacy swap | | the steps of the three parties, of the chains and of the clock |
| `AttentiveSwap` | the composition under assumptions on timing and fairness | | |
| `FileLock` | `file_lock.rs` and the lock and touch loops of `run_maker_swap` and `run_taker_swap` | `file` (the stamp), and per process `pc`, `attempts`, `sleptFrom`, `lastTouch` | one per system call |
| `SwapV2Ledger` | deadlines, topic and message store of a v2 swap; the v2 operations of the UTXO coins; the chains (external) | `now`, `tx` for nine transactions, `forgotten` (payments that were sent and are not known to their sender), `secrets` (whose secret a transaction has shown), `skip` (`skip_taker_payment_spend_preimage`), `reliable` | `Mine` |
| `MakerSwapV2`, `TakerSwapV2` | `maker_swap_v2.rs`, `taker_swap_v2.rs`, run by `storable_state_machine.rs` | `mEv` (the last stored event), `mNext` (the state that `on_changed` returned), `mPhase`, `mWaitFrom`, `mInbox`, `mLocked`, `mStartedAt`, `mDone`, `mUp`, `mFaults`; the same with `t` | one per state; `MakerStoreEvent`, `MakerStoreFails`, `MakerOnFinished`, `MakerDies`, `MakerKickstart`, `MakerReceives` |
| `SwapV2` | the composition of the v2 swap | | the steps of both, blocks, the clock |
| `SwapV2Contract` | nothing: an abstract specification of what a v2 swap promises both parties | `mp`, `tp`, `secrets` | fund, pay, confirm, show, claim, refund, reclaim |
| `OrderMessages` | the four messages and the swaps they lead to | `net`, `makerSwaps`, `takerSwaps` | |
| `MakerOrders` | the maker's half of `lp_ordermatch.rs`, `my_orders_storage.rs` | per order `inMap`, `order` (volume, price, matches), `mutex`, `waiting` (handlers that have the order and wait for its mutex), `before` (the copy that `update_maker_order` takes), `file`, `advert` (the order book), `mCoins`, `mDisabling` (a call of `disable_coin` under way), `mDisabled`, `mStarting` (tasks that will start a swap) | one per handler and part: `process_taker_request`, `process_taker_connect`, the timeouts, `check_balance_for_maker_orders`, expiry, `balance_updated`, create, the two halves of update, `cancel_order`, the three parts of `cancel_orders_by` and of `disable_coin`, `lp_connect_start_bob`, storage, restart |
| `TakerOrders` | the taker's half | per request `taker`, `tFile`, `tSaving` (the mutex is held during a save), `pending`, `sleeping` (the handler that waits three seconds), `coins`, `tDisabling`, `tDisabled`, `tStarting` | `lp_auto_buy`, `MakerReservedArrives`, `process_maker_reserved`, `process_maker_connected`, `lp_connected_alice`, timeout, cancel, the parts of `disable_coin`, save, restart |
| `OrderMatching` | the composition | | the steps of all makers and takers |
| `MCOrderMatching` | instances of it for TLC | | |
| `AtomicSwapProofs`, `SwapLogProofs`, `SwapChainProofs` | theorems about `AtomicSwap`, each module on top of the one before: deadlines and the secret; the logs; the chains and the refinement. The last also about `AttentiveSwap` | | |
| `FileLockProofs`, `SwapV2Proofs` | theorems about `FileLock` and `SwapV2` | | |
| `OrderMatchingProofs`, `OrderBookProofs` | theorems about `OrderMatching`: cancellation; amounts, swaps and answers | | |
| `SumProofs` | lemmas about sums over finite sets | | |

**Legacy swaps.** `run_maker_swap` calls `handle_command`, applies and saves each of
the returned events, and continues with the returned command. An action runs a handler up to its
next wait and leaves the events in `mQueue`; each save is an action; `MakerCrash` may come between
any two. A broadcast of a transaction and the save of its event are therefore separate steps, and
so is each save of a handler that returns several events. After a restart the command is
`get_command` of the last saved event. The log is a set of event names and the last of them: the order
matters only through `get_command`, and the data of an event is present exactly when the event is. Messages
stay in `net` once they were broadcast: the code repeats each of them until its handler returns, and every
wait may also end in a timeout, so a message that is lost, late or repeated is covered.
`wait_for_confirmations` looks at the clock before the chain, so that past its deadline a confirmed
transaction is an error too. A call to a node may, when `RpcErrors` is set, fail with or without having
had its effect. Mutually exclusive transactions may both wait in mempools, and a block decides.

**v2 swaps.** `change_state` applies the event of the next state (`on_event`, which takes and releases the
locked amount), stores it, and runs `on_changed` of that state. An action is one `on_changed` up to its
next wait; storing the event is another, so a node may die, or fail to store, between what a state did and
the event that says so. A restarted machine repeats `on_changed` of the last stored event: what that did
before is on the chains and forgotten by the node, which `forgotten` counts. A message is repeated while
its state lasts, until the next one is stored (`MakerSends`, `TakerSends`), and taken out of the store by the one
that waits for it; it may get lost, and if `reliable` it is not. The chains follow the rule of the legacy model:
transactions that spend the same output may wait in mempools together, and a block decides (`SpendOk`, `Mine`). A node
that knows a competitor may refuse a transaction or take it (`SpendRefused`). `secrets` is what was ever shown: a
secret stays known when its transaction does not prevail. `skip` tells coins that need the taker's signature for the spend
of its payment from those that do not. The taker waits for the maker's payment to confirm before it spends
the funding, as `lp_ordermatch.rs` always asks.

`recv_swap_v2_msg` takes a duration. One of its callers passes a point in time; to tell the two
apart the clock of the model counts from `Epoch`, and `recv_timed_out` adds what the code adds.

**Orders.** A handler gets an order out of the map and waits for its mutex. `waiting[o]` holds those
handlers: removing the order from the map does not stop them, and they get the mutex in any order. The
mutex is kept while the file is written or deleted, so a restart may find the file before or after. An update that
cannot be saved is taken back (`UpdateSaved`). A
request or a connect that arrives when the order is not in the map is ignored. Amounts are small integers
and prices are compared without division, as the code does. A handler that starts a swap spawns a task for it,
which looks the coins up later (`lp_connect_start_bob`, `lp_connected_alice`); `disable_coin` checks that nothing is
matched, cancels orders and removes the coin, in three steps between which everything else may happen. Each order and each request is at a node of its
own; a node that handles several treats them one after the other. Timeouts (30 seconds) are long next to a
step and may come at any later time. The calls of users, `disable_coin` among
them, expiries, balance changes and restarts are *disturbances*, whose number a run bounds.

The operators introduced by a comment with the word *slip* are deliberately wrong variants of the
definitions that follow them. No specification uses them. They show that the properties can fail:
each property of a passing run is violated when one of them replaces its original.

## The runs

`tlc -config <run>.cfg <module>` runs one; all expectations are in `PROJECT.json`.

| Run | Module | States | Question |
|---|---|---|---|
| `swap_crashes` | AtomicSwap | 2.85 M | The maker dies at most once, at any point; blocks take any time, mempools drop transactions, and the starts may be further apart than negotiation accepts. Does the maker resume where it was (`MakerRestoreAgrees`) with what its handlers unwrap (`MakerHasDataForCommand`)? Does anybody act on an unconfirmed payment (`SecretAfterConfirmation`, `TakerPaysAfterConfirmation`)? |
| `swap_rpc_errors` | AtomicSwap | 1.99 M | Calls fail, also after they took effect, the taker may die, a watcher acts or stops: do the programs implement `SwapContract` (`ImplementsContract`)? Is what stays locked recoverable (`MakerFundsRecoverable`, `TakerFundsRecoverable`)? Can the taker get both coins (`MakerNeverLoses`)? Has a taker that resumes from the chain the secret (`TakerHasDataForCommand`)? |
| `swap_attentive` | AttentiveSwap | 1.88 M | A taker, or else a watcher, that keeps up with the clock, both nodes die once: can the maker get both coins (`TakerNeverLoses`)? Is a payment ever sent twice (`PaymentsSentOnce`)? Does the invariant of the proofs hold (`IInv`)? |
| `swap_liveness` | AttentiveSwap | 345 k | Is every payment in the end spent or refunded (`PaymentsResolved`), does every maker's swap finish (`MakerFinishes`)? |
| `file_lock` | FileLock | 936 k | Three processes: one holder (`MutualExclusion`), and nobody gives up to a dead one (`AbandonsOnlyToTheLiving`)? |
| `swap_v2` | SwapV2 | 2.19 M | Each node may once die, fail a call or fail to store an event; messages get lost. Do the machines implement `SwapV2Contract` (`ImplementsContract`)? Can either party lose both coins (`MakerNeverLoses`, `TakerNeverLoses`)? Does a maker that took its payment back with the taker's secret have no payment to claim, and claim none (`SecretRefundMeansNoPayment`)? Does anybody act on what may be replaced (`PaidAgainstConfirmed`)? Is the amount locked exactly until it is sent, after a restart too (`LockedUntilSent`)? Are payments repeated only after a fault (`ForgottenOnlyAfterFault`), and left behind by an abort only after one (`AbortedBeforePayment`)? |
| `swap_v2_liveness` | SwapV2 | 341 k | Do the coins of a node that does not fail leave the swap (`TakerCoinsReturn`, `MakerCoinsReturn`)? Do the variables keep their types (`TypeOK`)? |
| `order_matching` | MCOrderMatching | 1.25 M | Two makers and a taker, or two takers and a maker: is an order sold twice (`NotOversold`)? Do both sides start the same swap (`SidesAgree`), once per request (`OneSwapPerRequest`)? Is an answer put aside and forgotten (`PendingIsProcessed`)? Does a cancelled order come back (`CancelledForGood`)? |
| `order_liveness` | MCOrderMatching | 317 k | Is what a maker reserved sold or released (`ReservedIsReleased`), does a taker's order end (`TakerOrderEnds`)? |

All of these hold, with the assumptions their comments state. Three more runs show that what a comment, a
message or a test says does not hold: see [findings](#findings).

`TakerNeverLoses` needs its assumption. A legacy maker that dies between broadcasting its spend and saving
it will, after its restart, refund its own payment as well once the lock time has passed. The taker
is protected only by using the secret before that: by looking at the chain within the second lock
time, or by a watcher that does. In a v2 swap the same holds of a taker that has not failed, as long as
its preimage comes in time: the maker looks at the clock before it waits for the preimage and not again
before it spends. The maker of a v2 swap loses by this too: when the preimage comes after the taker's lock, the maker
broadcasts its spend, a taker that sees it in the mempool has the secret and claims the maker's payment, and its own
refund, which conflicts with the spend, may be the one that a block takes. `MakerNeverLoses` of `SwapV2` and the maker's
half of `AbortedBeforePayment` therefore assume `PreimageInTime`: the preimage is not needed, or it is there because the
topic loses nothing and the taker has not failed. TLC finds both violated without it. In the legacy swap
`MakerNeverLoses` holds whatever the speed of either party, as long as blocks come faster than deadlines.

In a v2 swap whose taker had a failed call (an error after the funding spend was sent), funding spend and funding refund
may both be under way. The maker may then take its payment back with the taker's secret although the taker's payment
is the one that a block takes; `SecretRefundMeansNoPayment` excludes this only for a taker without faults, and says for
every taker that the maker does not claim that payment as well.

The exceptions that the properties name are real behaviour of the code, and each has its hazard in
`PROJECT.json`: a maker that dies before it has saved a match offers its volume again (`NotOversold`); a
maker that was restarted and whose coins are not active yet, or that has disabled one of them, answers a connect without
starting the swap (`SidesAgree`): `disable_coin` passes over an order that was matched after its check and removes the
coin, and a swap's task that runs after the removal finds no coin; a taker that dies before it has saved its choice chooses again (`OneSwapPerRequest`); a
handler that already had an order when it was cancelled saves it again (`CancelledForGood`); the answers that
wait when a coin is not active stay where they are (`PendingIsProcessed`).

## Bounds

*Legacy swap.* Time is counted in units of a fifth of the lock time (`LockTime = 5`), so that all the deadlines of
`lp_swap.rs` (1/3, 2/5, 3/5, 4/5, 1, 3/2, 2 lock times) fall on different units or meet where integer division makes
them meet; where a run needs a smaller state space `LockTime = 3`. `MaxTime` (10 to 12, 8 for `LockTime = 3`) is
past the last deadline, the maker's lock plus `RefundGrace`, which is 0 where nothing depends on it. The message
timeouts are 0 units, which means that they may expire in the unit after the wait began: they are at most 600
seconds of a lock time of 7800, and shorter is the harder case. `MaxStart = 2` with `MaxStartedAtDiff = 1` gives
starts that are accepted and starts that are refused. One crash per node reaches a restart from every state; two
crashes of one node only compose two such restarts, of which the second starts from a log the first run may also
produce. `sent` is not bounded: it is what `PaymentsSentOnce` bounds.

*Swap lock.* The time to live (4), the touch interval (3) and the retry delay (4) keep the order of the code's
40, 30 and 40 seconds, and `MaxTime = 10` is enough for two locks to expire one after the other.

*v2 swap.* `LockTime = 3` keeps the four deadlines (1/3, 2/3, 1 and 2 lock times) apart, `MaxTime = 8` is past
the last of them with the later start (`MaxStart = 1`, which `MaxStartedAtDiff = 0` refuses when both
differ). One fault per node, a death, a failed call or a failed store, in any of its states;
`Epoch = 100` only has to be larger than everything that is added to it.

*Orders.* Two orders and two requests exist; a behaviour has three of the four (`Casts`), which gives both
kinds of competition, and the names are symmetric. One offer is exhausted by one request, the other by two; a
request may be for either side, and its price fits or does not fit an order after an update. `MinVolume = 2`
makes a rest that is too small. `Balances` are nothing and the minimum. One disturbance meets every
interleaving of the handlers; with one maker and one taker, in `order_liveness`, there may be two. A cast also says which
wants and offers come up and whose nodes are disturbed, which keeps the run within minutes: with two makers the
disturbance befalls the taker's node, with two takers any node, and requests to sell come up with one maker and one taker.

## Fairness and timing

`PromptChain` says that what is broadcast is mined before the clock moves by a unit, that is within
a fifth of the lock time (26 minutes). The code rests on the same assumption: the lock time is
multiplied for coins with slow blocks (`lp_atomic_locktime`). It is dropped in `swap_crashes`.

`AttentiveSwap` says that the named parties, the taker or the watcher, take the steps they can take before the
clock moves. The polling intervals of the code (10 to 600 seconds) are below a unit. The others, the maker
among them, run at any speed. `SwapV2` says the same of both machines while they run (their intervals are
1 to 30 seconds); a node that is down stays down for as long as it likes. In both, `NobodyLate` is the guard of
the clock. It names the states in which a party can go on (`TakerHasWork`, `WatcherHasWork`, and for `SwapV2`
`MakerHasWork`, `MakerHasMail` and the taker's) without the operator `ENABLED`, about which nothing can be proved. The clock of the
models moves only then; this is the assumption on timing, not a property of the code.

The legacy `FairSpec` has weak fairness on each party's handlers and saves (tasks that the executor polls
until they are done), on the restart of a node that died (liveness is asked of nodes that come back), on
blocks and on the clock. There is none on crashes, on `recover_funds`, which a user must call, on
watchers, or on which of several outcomes a handler has. `WF` on the disjunction of a party's
handlers is enough, since a party has one command at a time. That of `SwapV2` is the same, with the steps in
which no call fails, and with the arrival of messages only if `reliable`.

The `FairSpec` of `OrderMatching` has weak fairness on storage, on the loop that looks for timeouts, and on the
timeout of a taker's order (the clock passes it in the end). Strong fairness stands for the mutex of an order:
`handle_timed_out_maker_matches` and `check_balance_for_maker_orders` wait for a mutex that others
take again and again, and `futures::lock::Mutex` does not pass a waiter over for ever. Nothing is
assumed of messages and of users.

## The proofs

TLAPS proves, for all values of the constants that satisfy the named assumptions (natural numbers,
booleans, a positive lock time; for the lock, a touch interval of at most its time to live):

| Module | Theorem | Statement |
|---|---|---|
| `AtomicSwapProofs` | `TypeCorrect` | `Spec => []TypeOK` |
| | `SwapInvariant` | `SafeParameters /\ Spec => []IInv` |
| | `MakerSafe` | `SafeParameters /\ Spec => []MakerNeverLoses` |
| | `RestoreAgrees` | `Spec => []MakerRestoreAgrees` |
| `SwapLogProofs` | `MakerHasData`, `TakerHasData` | `Spec => []MakerHasDataForCommand`, `Spec => []TakerHasDataForCommand` |
| `SwapChainProofs` | `TakerPaysConfirmed` | `Spec => []TakerPaysAfterConfirmation` |
| | `SecretConfirmed` | `Spec => []SecretAfterConfirmation` |
| | `PaidOnce` | `PromptChain /\ Spec => []PaymentsSentOnce` |
| | `MakerRecoverable`, `TakerRecoverable` | `PromptChain /\ Spec => []MakerFundsRecoverable`, the same for `TakerFundsRecoverable` |
| | `ContractImplemented` | `SafeParameters /\ Spec => ImplementsContract` |
| | `AttentiveTakerSafe` | `SafeParameters /\ ~RpcErrors /\ AttentiveSpec => []("taker" \in attentive => TakerNeverLoses)` |
| | `AttentiveWatcherSafe` | `SafeParameters /\ ~RpcErrors /\ WatchersSupported /\ ~WatcherStops /\ LockTime > 1 /\ AttentiveSpec => []("watcher" \in attentive /\ mStartedAt <= tStartedAt => TakerNeverLoses)` |
| `FileLockProofs` | `LockTypes` | `Spec => []TypeOK` |
| | `LockExcludes` | `LockIsAtomic /\ Spec => []MutualExclusion` |
| | `LockAbandonedToTheLiving` | `Ttl <= RetryDelay /\ Spec => AbandonsOnlyToTheLiving` |
| `SwapV2Proofs` | `V2TypeCorrect` | `Spec => []TypeOK` |
| | `SecretRefundMeansNoPaymentV2` | `Spec => []SecretRefundMeansNoPayment` |
| | `PaidAgainstConfirmedV2` | `Spec => []PaidAgainstConfirmed` |
| | `LockedUntilSentV2` | `Spec => []LockedUntilSent` |
| | `ForgottenOnlyAfterFaultV2` | `Spec => []ForgottenOnlyAfterFault` |
| | `ContractImplementedV2` | `Spec => ImplementsContract` |
| | `TakerNeverLosesV2` | `DeadlinesApart` implies `Spec => []TakerNeverLoses` |
| | `MakerNeverLosesV2` | `DeadlinesApart` implies `Spec => []MakerNeverLoses` |
| | `AbortedBeforePaymentV2` | `DeadlinesApart` implies `Spec => []AbortedBeforePayment` |
| `OrderMatchingProofs` | `CancelledStaysCancelled` | `Spec => []CancelledForGood` |
| `OrderBookProofs` | `OrderTypes` | `Spec => []TypeOK` |
| | `OrderNotOversold` | `Spec => []NotOversold` |
| | `SidesStartTheSame` | `Spec => []SidesAgree` |
| | `RequestStartsOneSwap` | `Spec => []OneSwapPerRequest` |
| | `AnswersAreProcessed` | `Spec => []PendingIsProcessed` |

The hypotheses of the conditional ones:

* `SafeParameters` is `PromptChain` and `MaxStartedAtDiff + (LockTime * 4) \div 5 <= LockTime`. The code
  satisfies the second with its constants: 60 + 6240 <= 7800. Smaller lock times are safe as long as a
  fifth of them is at least the 60 seconds of `MAX_STARTED_AT_DIFF`. Crashes, failing calls, watchers,
  speeds and all other timeouts are arbitrary.
* `PromptChain` alone, for payments that are sent once and recovered: without it a mempool may drop a
  transaction. A payment that was dropped is not found by `check_if_my_payment_sent` and is sent again, and a
  refund that was saved and then dropped leaves a log that `recover_funds` refuses.
* The two about attentive parties say that calls do not fail (`~RpcErrors`): a handler of the legacy swap gives up
  after one failed call, and a party that has given up is not attentive. The taker's theorem allows any number of
  deaths of both nodes and any watcher. The watcher's is about a taker that may stay offline; there has to be a
  watcher, for coins that support one, whose node keeps running. A lock of more than one unit leaves the watcher
  time between the taker's lock and the maker's. `mStartedAt <= tStartedAt` is needed: `ValidateTakerPayment` of the
  watcher gives up four fifths of a lock time after the taker's start, and the maker spends until four fifths after
  its own. If the taker was slow to tell the watcher, a maker that started later may still spend when the watcher
  has given up. TLC finds the behaviour with `MaxStartedAtDiff = 1`: the taker that stays offline then loses, the
  watcher notwithstanding.
* `DeadlinesApart` is `MaxStartedAtDiff + (LockTime * 2) \div 3 <= LockTime`, which is 60 + 5200 <= 7800 in the code.
  `MakerNeverLoses` and half of `AbortedBeforePayment` carry `PreimageInTime` in the property itself: the preimage is
  not needed, or messages arrive and no call of the taker fails. What a late preimage costs is said above.
* `SidesAgree` speaks, in its first part, of makers whose node is `Steady`: neither restarted nor without a coin
  that `disable_coin` removed.
* `LockIsAtomic` excludes the race that `file_lock_race` shows. `Ttl <= RetryDelay` is 40 <= 40 in the code.

### The legacy swap

**Deadlines and the secret** (`AtomicSwapProofs`). The taker has both coins only if the maker's payment was spent
with the secret and the taker's was refunded. The secret is only known once the maker has broadcast its spend
of the taker's payment, so it is enough that spend and refund of the taker's payment never meet. The
invariant `IInv`, which the run `swap_attentive` checks as well, says why:

* `InvNegotiated`: whatever the maker does after negotiation, or remembers having done, the two start
  times are settled and differ by at most the accepted amount. The log has to be part of it, since a
  restart takes the command from there;
* `InvTakerStarted`: the taker's start time is settled before anything is derived from it;
* `InvConfirmed`: the maker spends, or remembers that it may, only when the payment is mined;
* `InvSecret`: nobody holds the secret before the spend was seen. The taker's log, the events it has
  not yet saved and the watcher's state are all places where a secret may be;
* `InvTiming`: a spend in a mempool is before the taker's lock, a refund after it, and a mined spend
  excludes a refund.

None of the five is inductive alone. `MakerNeverLoses` follows from the last two. The proof has a lemma
per group of actions and variable: what the steps of each party leave alone, what they do to the
transactions, and what they do to the logs. `RestoreAgrees` uses `RestoreInv`: the command a handler returns
is the one that the last of its events resumes from.

**The logs** (`SwapLogProofs`). Every handler is first shown to be a row of a table (`MakerRow`, `TakerRow`): the
command it runs, the command it returns, the events it returns and what it saw on chain; `load_from_saved` of the
taker is a table of its own (`TakerLoadRow`). The invariants are then proved from the tables, without the handlers.
That the data is there when a handler runs is not inductive: a crash loses the events that were not saved, and a
restart takes the command from what is left. `MakerLogInv` and `TakerLogInv` therefore speak of every event, saved or
in the queue: the command that it resumes with needs only what is saved before it, or comes before it in the queue
(`…DataInv`). For the properties about payments they also say that a party that gave up before it paid does
not pay later, and that one that has confirmed what it must before paying does not fall back before that
(`…GateInv`). `TakerHasDataForCommand` does not speak of `ValidateMakerPayment`: that one a restart does
reach without its data, as `taker_restart_panics` shows.

**The chains** (`SwapChainProofs`). Again the steps are reduced to a table: which transaction a step broadcasts, from
which command, before or after which deadline (`MakerBroadcasts`, `TakerBroadcasts`, `WatcherBroadcasts`).
`SwapChainInv` says what the chains never take back (`ChainInv`), what a log says about the chains
(`MakerChainInv`, `TakerChainInv`: a saved confirmation is a mined transaction, a saved refund is one that somebody
can see), that whoever knows the secret learnt it from a spend of a mined payment (`SecretInv`), and that what was
sent is found again (`PaidInv`). Recoverability combines it with the logs: a payment that is on chain means that the
event before it was saved, which excludes the early failures; and an event that `recover_funds` takes as the
end of the swap means that the payment was claimed.

**The refinement.** `mpState` and `tpState` map the transactions to the two payments of `SwapContract`. A broadcast
leaves the contract alone, except that of the maker's spend, which shows the secret and is the maker's claim
(`RefinesBroadcast`); a block is one of its steps or none (`RefinesBlock`). The guards of the contract follow from
the invariants; one of them, that the taker does not pay against a payment that was taken back, needs `DeadlineInv`:
the taker sends before `wait_for_maker_payment_conf_until`, the maker's refund comes after its lock, and the starts
are close enough together for the first to be before the second.

**An attentive taker.** The maker has both coins only if its spend of the taker's payment and its refund of its own
are both mined. The refund comes after the maker's lock (`DeadlineInv`), so it is enough that a spend which nobody
has answered is young (`AnsweredInTime`). Why it is answered is in `CourseInv`: a taker whose payment is on chain is
at a command that leads to the maker's payment, in memory, in its log and in the events that are not saved yet
(`OnCourse`), until it has taken that payment or until it is too late for the maker to spend. A restart resumes from
the log, hence `BegunInv` and `ReadyInv` about logs that are still short. On course, with the maker's spend in
sight, the taker has work (`TakerHasWork`), so the clock does not move before it has spent.

**An attentive watcher.** The watcher has to know of the swap before the maker spends. `ToldInv` is the order of
messages that makes it so: the taker broadcasts the watcher's message before the one that tells the maker of its
payment, in `send_taker_payment` and after a restart too. `FeeInv`, that a taker that waits for the maker's payment
has paid the fee, lets the watcher's validation succeed. Then `DoneInv` says that the watcher stops only when it is too
late or the maker's payment is taken, and `WatchedInTime` that a spend of the maker is answered within a unit of the
taker's lock: by the watcher or by a taker that came back.

### The swap lock

`LockExcludes` uses `LockInv`: a holder's stamp is in the file and fresh, nobody takes a lock from a holder, and one
process at a time is inside `lock()`. `LockAbandonedToTheLiving` does not need the last: `AbandonInv` says that a
stamp, or the absence of a file that somebody just found, is the work of a process that touched the lock, and
that a process on its second attempt has slept for the whole delay. A stamp that is then still fresh is
younger than the first attempt, and its owner is another process, since whoever waits has never touched the lock.

### The v2 swap

`V2Inv` is what the chains and the secrets alone give: what competes with a mined transaction is void (`OneMined`),
nothing spends what is not there (`HasParent`), and a machine knows, or has used, the other side's secret only after a
transaction showed it (`SecretsShown`). The taker's knowledge is a stored event, or the next one, so that crashes and
restarts are part of it. It does not say that conflicting transactions exclude each other before a block has decided,
since they do not. Each step of a party is shown to be a `MakerMove` or a `TakerMove`, which says what it may
broadcast and what it may learn; the rest is about the chains.

The properties of payments and amounts are about stored events. `RunInv` adds to `V2Inv` that the states up to the
payment are left in their order (`PathInv`), that a running machine holds its amount exactly in these (`LockInv`),
and that a payment which is out before its machine has stored so is being stored, or was taken back to that state by
a fault, of which each has done so once (`SentInv`). `ConfirmInv` is why a payment that a restarted maker sends
again cannot unconfirm what the taker has seen: the maker tells the taker of its payment only after it has stored
that it was sent, and after that it never sends another.

`TakerNeverLosesV2`, `MakerNeverLosesV2` and `AbortedBeforePaymentV2` need the clock. `CourseInv` holds for every
machine: the start times that a taker has accepted, the kind of coin that a state belongs to, and that a refund comes
after its lock (`RefundInv`), which for the taker's is after the last moment at which the maker takes the taker's payment
for confirmed. `SpendLasts` is why the maker does not lose: when the preimage is in time, its spend is broadcast before
`taker_payment_conf_timeout`, so that nothing competes with it while it waits, and it is mined before the clock gets to
the taker's lock. A secret that the taker knows then means a spend that prevails; without a deadline before the spend
the mutant `confirmed_at_last` breaks this. A funding refund is excluded because the spent payment is the mined
spend of the same funding. The others say where a machine without faults is, given what is on the chains: a taker
(`FaultlessInv`, `TakerInTime`) takes its funding back or pays, and never both, has its payment on chain exactly in the
states that wait for the maker's spend, answer it or go back, and goes back only after its lock and without a spend; a
spend that it has not answered, or that the maker may still send, is before the maker's confirmation deadline
(`SpentInTime`). A maker (`MakerInTime`) has paid, spent or refunded exactly when its state says so. `DeadlinesApart` is
used where a machine would give up: by then the other, which counts from its own start, has stopped as well.

`ContractImplementedV2` is the refinement of `SwapV2Contract`. `mpState` and `tpState` map the nine transactions to
the coins of each party: payments count when they are sent and again when they are mined, claims and refunds
when they are mined, and the secrets of the contract are those of the model. To show a secret and to get the coins are
two steps of the contract, since another transaction may come between. The contract says what the invariants alone do
not: which step comes after which. The maker may replace its payment, as a restarted maker does, but not after the taker
has paid against it (`ConfirmInv`); it shows its secret only while both payments are locked, which needs `BackInv`, that a
maker whose refund was sent is in a state from which nothing leads to a claim; and it gets its payment back early only
after the taker has shown its secret. `ShownInv` puts the two secrets apart: a maker that has shown its own does not
use the taker's, and a taker that has shown its own only stops. `SecretRefundMeansNoPaymentV2` follows from these
(`RefineInv`). The proof has a table of what each party sends and from where (`MakerMovesCoins`, `TakerMovesCoins`), and
a lemma for each kind of transaction. TLC finds a counterexample when one of the alternatives
that a guard of the contract admits is left out. One of them surprises: `TakerPays` admits a maker's payment that was
refunded, since a taker that is restarted late in `MakerPaymentConfirmed` spends its funding without a look at the
clock. It can take that payment back after its lock, and the maker does not claim it.

### Order matching

`CancelledStaysCancelled` rests on `CancelInv`. An order that anybody can still reach, through the map, its mutex, a
handler that waits, or its file, was created and has a price (`HasPrice`; no uuid is created twice), and a cancelled
order can be reached in none of these ways. That cancelling takes the order out of the map before its file is
deleted, and that a handler must find it in the map, are what makes it inductive.

The five theorems of `OrderBookProofs` have one inductive invariant, `BookInv`, for any number of orders, requests
and disturbances; it was checked with TLC on the instance of `order_matching` before it was proved. Its parts:

* `MakerOwn`: the order and what is in its file reserve no more than their volume (`Sound`). The file has to be
  part of it, because a restart loads it, and so does the copy that a failed update falls back to (`Reversible`);
* `TakerOwn`: what is saved is the order, or the order before its last change; the match suits the order and is the swap
  once one was started; and answers that are put aside have a handler that sleeps, as long as the coins are active, which they are at a node
  that was not restarted and disabled none;
* `OneDeal`: whoever knows of a match of a request and an order, a message, an answer put aside, the order,
  its file, either side's swap or match, knows the same amounts (`Deals`). A deal comes into being when the request is
  reserved; that happens once, because the request is sent once and is gone when there is a deal;
* `FewChosen`: the orders that the taker chose are no more than its match and the number of times it died;
* `Backed` and `BothStarted`: swaps that a maker started are matches of its order, which are never released, as long as
  its node did not die; and a swap of a taker has its maker's as long as the maker's node is `Steady`, which has neither
  died nor lost a coin to `disable_coin`: at such a node the spawned task (`Spawned`) finds its coins.

`NotOversold` follows from `Sound` and `Backed` by adding up, `SidesAgree` from `TakerOwn` and `BothStarted`,
`OneSwapPerRequest` from `OneDeal` and `FewChosen`. The sums are those of `MapThenSumSet`. The induction theorems of the
library take an operator as a parameter and cannot be used; `SumProofs` argues by the smallest counterexample instead:
if a fact about sums failed for a finite set, there would be such a set with the fewest elements, and removing
one gives a smaller one.

### Only model-checked

* All liveness properties (`PaymentsResolved`, `MakerFinishes`, `TakerCoinsReturn`, `MakerCoinsReturn`,
  `ReservedIsReleased`, `TakerOrderEnds`): fairness is out of the prover's reach.

Every other invariant and action property of the passing runs is stated by a theorem above.

## Findings

Each is a run with a counterexample; `PROJECT.json` quotes the lines.

* `taker_restart_panics`: a taker that dies between the saves of `TakerPaymentInstructionsReceived` and
  `MakerPaymentReceived` is restored to `ValidateMakerPayment`, which unwraps the missing payment.
* `file_lock_race`: the window between creating the lock file and stamping it, and between reading an
  outdated stamp and replacing it, lets two processes hold the lock.
* `swap_v2_maker_waits`: a v2 maker whose taker has paid waits for the taker's preimage with a UNIX time as the
  duration. If the preimage never comes, the wait has no end, and the maker's payment is not refunded.

Other behaviour that surprises, and that nothing in the repository promises to exclude: the taker's fee may be paid
twice when the node dies between sending it and saving `TakerFeeSent`; a taker that prepares a refund because its
own spend did not confirm in time cannot be loaded again when it then dies (the model has the command
`TakerPaymentSpentError` for it); an honest maker that dies after its spend looks like a cheater to a taker that was
offline; a watcher alone does not protect a taker whose maker started after it (see [the proofs](#the-proofs)); a v2
taker that was down for longer than the maker's lock may still lock its coins in a payment that leads to nothing; an
order keeps its old volume in the order book when a match times out after another one has left too little; and the
exceptions named under [the runs](#the-runs).

## What is left out

Within the modelled parts: the payloads of events and messages, their signatures and validation
(both peers run this code); fees and amounts of swaps; coins that refund by themselves (lightning); the
`get_taker_watcher_reward` arithmetic; the expiry of the watcher's lock, which lies past all deadlines;
the IndexedDB variants of lock and storage; I/O errors of the legacy swap file, on which the code panics.
Reorganisations deeper than the required confirmations are excluded, as they are by the code. Of the v2 swaps, the
policy in which the taker does not wait for the maker's confirmation, which no caller sets, and the refund of the
funding by its timelock, which no state of the machine uses. A message of a v2 swap that is delivered after its sender has stored the next state is not modelled. Some steps are merged:
the legacy maker's look at the clock and the send that follows (`maker_swap.rs` 942-985 and 1222-1251; the send is short
next to a unit of time), and with `lp_auto_buy` the request, the save and the insertion
(4798-4811). Some error paths that end like others are not told apart: those of malformed messages
(`taker_swap.rs` 1502-1523) and of the watcher's reward (1562-1577), which only ill-behaved peers or coins other
than UTXO reach. Of order matching, the awaits between the lookup and the announcement of an order (4074-4100, one step in
`Announce`), failures to save an order other than those of `update_maker_order` and `lp_auto_buy` (the code logs them
and goes on), several orders of one node, of which `process_taker_request` serves the first that matches, confirmation settings, `match_by` other
than `Any`, the history tables, the order that a timed out good-till-cancelled taker order becomes (the taker's order
ends; a maker order of another pair begins), `order_requests_tracker.rs`, and the choice between the two
protocols of a swap.

The parts that are not modelled, with the reasons, are listed in `PROJECT.json`: foreign chains, cryptography,
hardware wallets, P2P transport, databases and web clients because their logic is mostly conversion and I/O; they are
most of the repository's lines.

## Plan

1. Done: the legacy swap with watcher, crashes and failures; the swap lock; the v2 swap; order matching; the proofs
   above.
2. Proofs: how far `AttentiveTakerSafe` survives calls that fail and are repeated by a restart.
3. The locked amounts over orders and swaps (`lp_swap.rs`, `check_balance.rs`), and the order book's
   synchronisation by tries and deltas.
4. `RpcTask`, `EventStreams`, `AbortableSystem` and the electrum connection manager: cancellation against
   completion, and cleanup.
