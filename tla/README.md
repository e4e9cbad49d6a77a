# A TLA+ verification of crypto-mm-lab

crypto-mm-lab is a market-making lab: one FastAPI process whose asyncio loop
runs a paper-trading loop, a trader on the Binance spot testnet, a mempool
watcher and a simulation lab for visitors. This directory holds TLA+ modules
that model its stateful parts, the TLC configurations that check them on small
instances, and TLAPS proofs of the properties that matter most.

Paths below are relative to the repository (`src/` here); "FR-nnn" and "SC-nnn"
are the requirements of `specs/*/spec.md`.

## 1. The system

`app/main.py` builds everything in its lifespan handler: `MarketMakerLoop`, then
`MempoolWatcher` and `TestnetTrader` with the loop's repository (and, for the
trader, its kill switch), then `SimLab`. All of them run on one event loop, so
code between two awaits is atomic; blocking work (SQLite, the fork simulator,
recordings) runs in threads and comes back as an answer. Nothing survives the
process except the SQLite database and what the testnet exchange holds.

| Component | State | Operations | Interacts with | What is hard |
|---|---|---|---|---|
| Paper loop, `services/market_maker_loop.py` | running flag, task, error count, last snapshot, LP book, broker | tick, start, stop, pair switch | sources, broker, LP book, flash arbitrage, repository, API | a tick has four awaits; it can fail or be cancelled at each; switches are not serialised |
| Paper broker, `execution/paper_broker.py`, `fill_model.py`, `risk/limits.py`, `analytics/inventory.py` | balances, open quotes with crossing streaks | detect and book fills, replace quotes, cancel, checkpoint and restore | loop, SimLab engine, backtests | quotes kept across ticks against limits computed per tick |
| Kill switch, `risk/kill_switch.py` | a flag | set | loop, trader, API | flips at any await |
| Testnet trader, `services/testnet/trader.py`, `adapters/cex/binance_testnet.py` | session, order records, trade cursor, virtual balances, status | startup, iteration, reconcile, cancel all, reset, shutdown | the exchange, repository, kill switch | lost answers, fills racing cancels, exchange resets, crashes with orders open |
| Simulation lab, `simlab/service.py` | runs, waiting line, hourly history, result cache, workers | submit, look, record, simulate, prune, stop | recorder, engine, API | limits that are pruned lazily; the line and the queue must agree |
| Mempool watcher, `services/mempool/*` | tracked pool states, watched swaps, queue, resolved swaps per block | take a pending swap, predict, apply a block, rewind, resolve | JSON-RPC node, pending feed, repository | reorganisations at any await, swaps mined while they are predicted, calls that fail half way |
| LP book, `execution/lp_paper_book.py` | position, fees, inventory, PnL parts | step, accrue, rebalance, checkpoint | loop, LP backtest | accounting identity across rebalances |
| Flash arbitrage, `services/flash_arb_service.py`, `contracts/src/FlashArbExecutor.sol` | last simulation, contract balances | plan, simulate, callbacks | fork simulator, V3 pools | callback authentication, repayment |
| V2 and V3 mathematics, `market_data/uniswap_v3/*` | none | swaps, ticks, amounts | LP book, scanners, predictor | rounding directions |
| Shadow books and calibration, `services/testnet/{shadow,comparison,calibration,replay}.py` | streaks and fills per model | evaluate, compare, replay | trader, repository | replay must equal the live evaluation |
| Repository, `storage/repository.py` | SQLite tables | one transaction per tick, upserts, reports | everyone | all or nothing |
| Strategies, scanners, adapters, reports, API, dashboard, backtests | little or none | | | mostly pure functions and I/O |

## 2. Modules

`TestnetTrader` models the trader, the exchange as the trader uses it, and what
surrounds them. The task has a program counter `pc`: each exchange call is one
step, which has the call's effect on the exchange, takes the answer and does
what the code does up to its next await. `fr` holds the locals of the functions
on the stack, among them the quote targets that `_quote` computes before it
cancels, the list being walked, and which `except` clause is outermost. The
exchange is `ex` (orders by client id), `tape` (the account's trades) and
`purged` (what a reset deleted). The failing calls are actions: an unanswered
GET or DELETE (executed or not), a POST that timed out (executed or not), a
connection that broke before or after a POST was executed, HTTP 429, revoked
keys, and `stop` losing its patience. Fills, resets of the exchange, the kill
switch, `stop` and crashes happen between any two steps. Prices and fees are
dropped: whether a resting order has moved away from its target, and whether a
target passes the exchange's minimums, is a free choice. `_read_fills` walks the trades
after its cursor one by one; `ReadFills` says what the walk leaves: `ApplyFills` what it
books on the records, `Settle` what it does to the virtual balances.

`PaperLoop` models the paper loop with its broker. A tick is a walk through its
awaits (book, pool, V3, flash arbitrage) that ends in one synchronous stretch:
fills are detected and booked, the approved quotes replace the old ones, and the
transaction commits or fails and is rolled back. Prices are small integers, money
is in ten-thousandths of a quote unit so that the fee is exact. All four fill
modes are there; the fill probability is a free choice unless `CertainFill`. The fetches
of the book and of the pool may fail the tick; so may the V3 step (`V3StepFails`), which
catches nothing and may have stepped the LP book by then: `drift` counts what such ticks,
and ticks cancelled behind the step, have left in the LP book since its last row.
Pair switches by several operators, the kill switch endpoint and `stop`
interleave with the awaits.

`SimLab` models the lab's service. `submit` checks and books without an await
and is one step; a run's stages change when a pool job returns. Time is a
clock, an hour is `Hour` ticks. `RunLedger` is what the lab promises a visitor and
nothing of how: a run is accepted when its visitor has none open, an open run is
over sooner or later unless the lab closes, and only a run that is over is
forgotten. `SimLab!Ledger` is the refinement mapping (a run that waits, records or
simulates is "open", a deleted one "gone"), and `ImplementsLedger` says that the lab
implements the ledger. The ledger states its liveness as leads-to rather than as
fairness of its actions: TLC cannot evaluate ENABLED through the mapping.

`MempoolWatcher` models the watcher's three tasks and the chain they look at. The
chain grows and is reorganised between any two awaits; a block is an id, its
number and its transactions. The block task has a program counter; `stack` holds
the headers of the nested calls of `_apply` that a reorganisation makes, `anchor`
the header `_anchor_at` has read, `bt` its other locals (the snapshot
`_after_block` walks, what it has resolved). The predict task keeps the block it
predicts on across its awaits. The state of the pools is the id of the block it
is the end state of, so "the tracked state is exact" can be said without any of
its numbers. A process restart and the loss of the pending feed are actions, and so is what
may go wrong, named by `Faults`: a call of the block task fails outside a redo (`rpc`) or
inside one (`rpc_redo`), the price leaves the window of ticks, upon which the next block is
anchored anew (`window`, `NeedsReanchor`), the call budget is spent (`budget`), a swap is
announced after it was mined (`late_feed`), the prediction of a swap raises (`predict`),
`_after_block` raises between the swaps it resolves and their rows (`after`), the database
refuses a write or a read (`db`). The thread that writes a "pending" row may at any time be
overtaken by the final row. Two auxiliary variables keep what leaves no trace in the
program: `lost` has the swaps that an error kept from their final row or whose final row a
late "pending" overwrote, `hidden` is set when an anchor takes the place of another tracked
block, or a catch-up leaves blocks out. The mode is `auto`.

`PoolMath` is the integer mathematics of the pools (`uniswap_v2_math.py`,
`uniswap_v3/*`) at a small width: every width of the code is a power of 2^32, and
2^32 is the constant `Q32` here, so 2^96, 2^128, 2^160 and 2^256 keep their
proportions and wrap where they do in the code. `V3Pool` is the pool as the chain
keeps it and the window of its ticks that the reader loads. Both are pure.

`LpBook` models the paper position in a V3 pool: the strategy's range and its
reasons to move, `LpPaperBook.step` with its accrual, its three ways to estimate
fees, the burn, swap and mint of a rebalance with every early return, and the
reader with its tick window and its stale answers. A tick reads and steps with no
other code in between, so it is one action; the pool moves between ticks. The tick's
transaction commits or rolls the ledger back. `ghost` holds the growth that really
happened while the price was in the range.

`FlashArb` models `FlashArbExecutor.sol` (execute, simulate, the callback, ownership,
recover) on a chain of states, and the service that scans, sizes and simulates. The
service reads in three steps pinned to a block number; blocks arrive and are
replaced between them.

`RouterDecoder` says what legs a router call has; `SwapPredict` predicts them on the
tracked pools, rolls the pools forward from a block's events, verifies what was
included and replays what nobody announced. `SwapPredict` has the numbers that
`MempoolWatcher` leaves out, and `MempoolWatcher` the timing that `SwapPredict`
leaves out: here every block is read in order, possibly late.

`ShadowEval` models the shadow books that a testnet session shows its snapshots to,
one per fill model, what the session saves of them, and what `replay.py` and
`comparison.py` compute from the recording. Between two snapshots orders are placed,
traded and cancelled. What may fail: the reading of the fills, their insert
(trader.py:491, after the cursor and the records have moved), a later call of
`_sync_orders` (`SyncFails`); the tick's write (435, `EvaluateShadows`); a call of `_quote`
or `reconcile`, the insert of the fills that a late cancel reads, or the write of the shadow
fills (436-444, `QuoteFails`); the upsert of the marked orders, whose marks are dropped
before it (454-458, `Flush`), at the end of an iteration, with the kill switch on (426) and
in `shutdown` (847); the insert of the fills that `cancel_all` reads (`CancelAll`). No write
is tried again: `unsaved` has the fills that were read and have no row, `rows` the orders
that have one, and an order that was marked in a flush that failed gets its row only if it
is marked again. A failing call of `cancel_all` itself (`cancel_pending`) is left to
`TestnetTrader`. The pseudo-random draw is any fixed function of its key.

The modules whose names end in `Proofs` hold the theorems: `SimLabProofs` about the lab,
`PaperLoopProofs` about the paper loop, `TestnetTraderProofs` about the trader,
`MempoolWatcherProofs` about the watcher, `PoolMathProofs` about the pool mathematics and,
resting on it, `LpBookProofs` about the LP book and `FlashArbProofs` about the executor and
its service, and `ShadowEvalProofs` about the evaluation of a session. The `MC` modules
give values to constants that a `.cfg` cannot write. The components do
not share state: the kill switch, the one thing the paper loop and the trader have
in common, flips freely in both, and `PaperLoop` sees the LP book as a version
number that is saved or rolled back.

Definitions marked "mutant" stand for a plausible mistake in the definition that
follows them. No specification uses them; each shows that one property notices
the mistake.

## 3. What TLC checks

| Run | Module | Bounds | Shows |
|---|---|---|---|
| `trader_faults` | TestnetTrader | 3 orders of 2 units, one failed call, one kill switch flip, a stop | `OneOrderPerSide`, `WrittenOffIsDead`, `OvershootBounded`, `ResetsAreReal`, `QuietOnlyWhenConfirmed` |
| `trader_restart` | TestnetTrader | 2 orders, one crash, one exchange reset, one failed call, one kill switch flip | `NoFillSkipped`, `OneLiveSession` |
| `trader_live` | TestnetTrader | 2 orders, one failure of any kind | `KillClears`, `StopEnds`, `OrdersSettle` |
| `paper_partial` | PaperLoop | 6 ticks, three prices, partial fills, all venues, two pairs, one switch; the book, the pool and the V3 step may fail in any tick, and the commit may be refused | `RestingIsFunded`, `PositionCapped`, `KillMeansNoQuotes`, `BookIsSaved`, `LpIsSaved` |
| `paper_latency` | PaperLoop | 6 ticks, latency 3, two pairs, one switch | `CrossedQuoteMatures`, `SwitchRestarts` |
| `mempool_reorg` | MempoolWatcher | 1 swap, 7 blocks, one reorganisation of 1 or 2 blocks, one failed call or one price outside the window | `PoolStateIsExact`, `RedoneAfterReorg`, `CatchesUp` |
| `mempool_swaps` | MempoolWatcher | 2 swaps with one nonce, 3 blocks, queue of 1, a lost feed, a restart; raising predictions, refused writes, spent budgets, late announcements, one failing verification or call | `NothingLost` |
| `simlab` | SimLab | 3 visitors behind 1 address, 2 workers, line of 2, 3 runs, hour of 1 tick in a clock of 2 | `HourlyLimit`, `LineIsWaitingRuns`, `DeletedOnlyWhenDue`, `FirstComeFirstServed`, `ImplementsLedger` |
| `lp_book` | MCLpBook | 3 blocks, 3 ticks, prices on and beside a tick boundary, one failed read, write or kill | `NeverOverdrawn`, `Reconciles`, `ExactIsTrue`, `OpensInRange` |
| `flash_arb` | MCFlashArb | 3 blocks, one replaced, 2 runs of the service, one failure, both token orders | `HeldIsGifts`, `RefusedBeforeMoving`, `EstimateIsExact`, `OwnerIsPaid` |
| `swap_predict` | MCSwapPredict | 20 router calls, 7 transactions of others, 3 blocks of up to 2, both token orders | `MathIsExact`, `TrackerIsTrue`, `PredictedIfFirst` |
| `testnet_eval` | MCShadowEval | one order of 2 units, 3 snapshots, 4 units of time, two failing calls or writes | `ReplayReproduces`, `FillsAreLabelled`, `ModelsAreOrdered` |

Each property is stated in words above its definition. The bounds: two orders are
enough for one order to meet another on its side or the opposite one, three for
a replacement beside a stale one; two units are enough for a partial fill; one
failure is enough for every recovery path, and each kind is among the faults of
some run. A latency of 3 makes a quote survive two replacements. An hour of one
tick in a clock of two makes stamps expire while others stay; three visitors with
two workers and a line of two make one wait while two record. Seven blocks let
a reorganisation of two happen after an anchor and be followed by enough blocks
to be noticed, redone and left behind; a resolve limit of one block and a
deferral of one (5 and 3 in the code) make swaps overdue within them. The lag
behind the head is 0, as in the watcher's tests: with a lag of 1 the same traces
need one block more.

The pools of `lp_book`, `flash_arb` and `swap_predict` are small so that the cases
are near: one tick is a factor of 1.25 in the square root of the price, 2^32 is 4 or
6, the fee counters of `lp_book` start 36 below their wrap, a range of others makes
every swap cross an initialised tick, a window of one or two words makes its edge
reachable. The router calls of `swap_predict` have every op the decoder knows, with
exact inputs and outputs, paths of two hops, limits that are met and broken,
deadlines that pass, and balances handed from one command to the next. Rounding is
where a small width is harder than a large one: the unit is a percent of the amounts.
Three snapshots are two intervals, enough for a streak of the latency model (2), for a
quote that is closed and opened again, and for a fill read one snapshot late.

Two failures in `testnet_eval` let two writes of a session be lost, as the row of an order
and the fill that would label its look.

The faults of a run are those under which its properties hold. The kind `rpc_redo` of
`MempoolWatcher` is in no passing run, `after` and the faults that lose swaps are in
`mempool_swaps` only: the list below says what they break. `CHECK_DEADLOCK FALSE` stands where a behaviour may
end: the mempool, `lp_book`, `flash_arb`, `swap_predict` and `testnet_eval` runs end
when their blocks, ticks or snapshots are used up.

Fairness. `TestnetTrader!FairSpec` is weak fairness of the trader's steps: a task
on the event loop runs when it can, and every call is answered or fails within
the client's ten seconds; faults are bounded in number. `PaperLoop!FairSpec` asks
the same of the tick task and of an operator's request that waits for its probe.
`MempoolWatcher!FairSpec` asks it of the block and predict tasks; the chain, the
feed and the failures are under no obligation, but the failures of the block task are
`MaxFaults` in number. That is an assumption: a block whose `_after_block` raises for a
reason of its own raises on every retry, and `CatchesUp` says nothing of it. `SimLab!FairSpec` asks that a worker runs when it can and that every pool job
ends: a recording is limited by its duration and gives up after failures.

### Disagreements between the code and its documents

No run expects a violation: the runs state what holds, and their faults and bounds
are chosen accordingly. The models show the following disagreements, each by a
short trace. The first four are the gravest; with the constants named, TLC finds the
property violated.

- A lost fill (`NoFillSkipped`; specs/005 spec.md:262, FR-010). The answer to a POST is
  lost, the order fills, and `_read_fills` (trader.py:470) moves its cursor past the
  trade before the order's exchange id is known. The fill is never recorded. Constants:
  `trader_faults` with `Faults = {"post_lost"}`, `MaxOrders = 1`, no kill.
- A dropped connection (`OneOrderPerSide`; specs/005 spec.md:267, FR-012). A connection
  that breaks after the exchange executed the POST is taken to mean that it did not
  (binance_testnet.py:199). Constants: `Faults = {"post_dropped"}`, `MaxOrders = 2`.
- Swaps lost to an exception (`NothingLost`; specs/004 SC-003, FR-019). `_predict_loop`
  logs what a quote, the scan or the prediction raises (watcher.py:357) and the swap is
  neither watched, counted nor recorded; `_persist_swaps` logs a refused write (714) after
  `_after_block` has taken the swaps out of `_watched`, so their rows stay "pending", and a
  raise in `_after_block` does the same to the swaps the block had resolved by then. A
  thread that writes a "pending" row can be overtaken by the task that writes the outcome;
  the row then stays pending (448). The property names these swaps (`lost`), and each case
  happens in `mempool_swaps`; without its exception for `lost` the property fails there.
- Mined while it is predicted (`ReplacedHasRival`; specs/004 spec.md:285 and :295, FR-005
  and FR-009). A swap that is mined while its prediction is made is watched after its
  block has gone by (watcher.py:445); its own inclusion moves the sender's nonce, and
  it is recorded as replaced. `mempool_reorg` with `ReplacedHasRival` as an invariant
  and no reorganisation or fault; the property is stated in `MempoolWatcher` and used
  in no run, because its one swap has no rival and the code breaks it.
- A recording that its replay does not reproduce (specs/006 FR-009). `_iterate` saves
  the tick before it quotes (trader.py:435) and the shadow fills after (444): a call that
  fails in between loses them, and the replay makes fills that the recording lacks. `_flush`
  empties the marks before the upsert (455): an order that was placed and filled within the
  batch of a failed upsert gets no row, while its shadow fills are stored by the next
  iteration, and the recording has fills that the replay does not make. `calibrate_fill_model`
  refuses either. `ReplayReproduces` without its exception for `lost`, or for orders
  without a row, fails in `testnet_eval`.
- A real fill that labels no look (specs/006 spec.md:308, FR-005). `_read_fills`
  moves the cursor and the records (trader.py:470) before it inserts the fills (491): a
  fill whose insert fails is never read again, and no gap in the ticks shows it.
  The interval in which the order's first real fill fell then counts as one without a fill,
  and a later fill of the order counts as its first. `FillsAreLabelled` speaks of the first
  fill that has a row, of an order that has one.

And, in the trader, the paper loop and the watcher:

- a bid that filled while `_quote` was cancelling it is replaced on the stale
  position, which passes its limit (FR-009); `OvershootBounded` shows that the
  excess is one order at most;
- a POST answered with 429 leaves a record in state `new`, which the next
  reconciliation takes for a reset (trader.py:740, FR-016; with `rate_post` among
  the faults, `ResetsAreReal` fails);
- two pair switches at once: a tick of one pair quotes into the other pair's
  broker (market_maker_loop.py:301, specs/009 FR-015; with two operators);
- an order whose fill was lost as above stays `unknown` for ever and its
  side is not quoted again (`OrdersSettle` makes this exception; SC-001);
- `_testnet_reset` writes off every open order (trader.py:890), also one that was placed
  after the exchange was reset and is live; nothing cancels it before the next
  reconciliation, and together with a failing call a second order may join it on its side
  (with `MaxResets` 1, `WrittenOffIsDead` fails, and with three orders and one failing call
  `OneOrderPerSide`);
- `stop` losing its patience while a POST is on its way leaves a record `new` too, with the
  same effect as the 429 above (with `stop_slow`, `ResetsAreReal` fails);
- keys revoked while the trader runs end it in state `running`, although `_run`
  says "state already auth_failed" (trader.py:254, FR-004);
- a fill that the virtual balance cannot fund is recorded but not booked, because
  `_apply_fill` ignores the answer of `InventoryTracker.apply_fill` (FR-010);
- the kill switch turned off and on again within an iteration shows `paused` while
  an order is open (trader.py:447, FR-015);
- `stop` during startup leaves an earlier process's orders open (trader.py:838);
- fills between the last poll and `shutdown` are never read (FR-010);
- when `account()` fails inside `_testnet_reset`, the trader goes on in the session it
  has just ended (trader.py:900, FR-016);
- a pair switch after the loop gave up does not start it again
  (market_maker_loop.py:345, specs/009 US4);
- a tick that raises in its V3 step after the LP book has stepped (market_maker_loop.py:399:
  the step and the scan behind it are outside the `try` blocks that restore the books), or
  that is cancelled while it awaits the flash arbitrage (406), leaves the LP book ahead of
  the database: "the same checkpoint/restore on a failed persist" (specs/002 plan.md:146)
  holds for a refused commit only. `LpIsSaved` says how far ahead, and that the next row
  catches up;
- `_after_block` awaits between the swaps of a snapshot; when `on_pending` replaces
  one of them meanwhile, `del self._watched[...]` raises and the outcomes of the
  swaps already resolved in that block are lost (watcher.py:629; it takes three swaps);
- an anchor replaces a tracked block without a look at its hash: when the price has left
  the window (pool_state.py:274), at the periodic re-anchor, after a gap, and when a
  catch-up of more than 16 blocks leaves blocks out, a reorganisation goes unseen and the
  swaps of the dead block are not verified again (specs/004 FR-014). `RedoneAfterReorg`
  excepts `hidden`; without the exception it fails in `mempool_reorg`;
- so it is when a call fails inside a redo, when a second reorganisation comes in the
  middle of one, beyond the depth limit, and below the tracker's history (`RedoneAfterReorg`
  fails with `rpc_redo`, with `MaxReorgs` 2 and 9 blocks, or with `Checkpoints` below
  `MaxDrop`);
- `_close_stale_records` closes the rows of an earlier process only as far as it can read
  them: when the read is refused, and beyond 500 rows, they stay pending;
- a nonce check may be put off for three blocks, SC-003 allows one;
- the scan of a block is cached by its number (watcher.py:386): after a reorganisation
  a prediction may use the scan of the block that was replaced.

In the LP book, the flash arbitrage, the predictions and the evaluation:

- a swap simulation that raises inside `_rebalance` leaves the accrual in the ledger but
  not `last` (lp_paper_book.py:137; it leaves the tick through market_maker_loop.py:399, where nothing
  restores the book): the interval is accrued twice
  (specs/002 SC-003; the exception `ghost.raised` of `Reconciles` and `ExactIsTrue`);
- the guard against a bound tick that was cleared and initialised again between two
  reads (a counter above the global one) does not notice every such case (the exception
  `ghost.cleared`);
- a range of less than 2 bps with a tick spacing of 1 may miss the pool's tick;
- a reorganisation between the reads of the flash-arbitrage service makes an "exact"
  estimate differ from the simulation (`forked`), and a replaced block of the same
  number is not simulated again, because `_last_block` is compared by number;
- the ternary search of `best_size` can be off by the rounding of its plateaus; a V3 leg
  that yields nothing is estimated, but the executor reverts it;
- the universal router's decoder hands the wrapped ether to the next command that
  spends a balance, even when its input is another token or part of it was spent;
- a swap whose price limit has already been passed is predicted without it and without
  a flag; a prediction near the smallest price raises, and the swap is not watched;
- a fill is labelled by no look when the first later snapshot has one side only, when
  it precedes the acknowledgement's time, or when the rest of the order was cancelled
  before that snapshot; a tick that could not be saved shortens what can be replayed.

## 4. What is proved

TLAPS proves the following for every value of the constants that the named
assumptions allow (`LabConstants`, `LoopConstants`, `WatcherConstants`,
`TraderConstants`, `MathConstants`, `PoolConstants`, `FlashArbConstants`, `LpConstants`,
`SizesAssumption`: bounds are naturals, sizes positive, sets as declared). Each theorem comes from an inductive invariant, with one lemma per action.
Where a theorem has a hypothesis the code breaks the property without it (section 3),
except for three exclusions for the sake of an invariant. Revoked keys: with them as the only
fault, TLC finds `ResetsAreReal` and `NoFillSkipped` true in the bounds of the runs. Raises
in `_after_block` and rivals in `RedoneAfterReorg`: TLC finds it true with `after` as the
only fault of `mempool_reorg`, and with two rivals, no fault, 6 blocks and a reorganisation
of one. And one block of depth in the same theorem, named below.

### The lab

`SimLabProofs`. `LabInv` is `TypeOK`, `OneActiveRun`, `LineBounded`, `CreatedInPast`,
`HistoryInv` and `HourlyLimit`. `HourlyLimit` is a statement about every run ever
created; the code only counts the stamps it still has. The bridge is `HistoryInv`: every
run of the last hour has a stamp that no pruning has removed, so a count of stamps below
the limit is a count of runs below the limit. `CreatedInPast` gives that stamps only age.
`LabImplementsLedger` is the refinement: `Spec => ImplementsSafeLedger`, the ledger
without its liveness. Pruning and `_keep_newest` delete finished runs only
(`PruningOnlyDeletes`, `SubmitOnlyDeletes`), so a submission is an `Accept`; the end of a
run is a `Finish`; the stages between are stutters (`StepOfLedger`).

`LineInv` says that the ids in the line rise, that they are the
waiting runs, and that a worker's run is at that worker alone. From it follow
`LineIsWaitingRuns`, `FirstComeFirstServed` (the head of a rising line is its oldest run)
and `DeletedOnlyWhenDue`, for which the two ways to delete are taken apart: by age, and
by the number of newer runs of the same visitor.

### The paper loop

`PaperLoopProofs`. `LoopInv` is `TypeOK`, `RestingIsFunded`, `PositionCapped`,
`KillMeansNoQuotes`, `BookIsSaved` and four facts about the task (it runs while a tick is
in progress, one restart is owed at most, errors are left while it runs, and the LP book's
checkpoint is not ahead of the book). A tick is one
composition of operators on a broker record; each stage (fills evaluated, booked, quotes
approved, submitted) has a lemma that maps a sound broker to a sound one, for all four
fill modes and every fill the model may choose. The rollback is sound because the
checkpoint is.

`LoopCrossedQuoteMatures` is the action property of the latency model: a quote's streak
goes up by one in every tick that it survives, through all stages of the tick and the
rollback, which puts back the streaks too (`BookIsSnapshot`).

`LoopLpIsSaved` has no hypothesis: with any venues, operators and failing steps the LP book
is ahead of its last row by exactly what the tick in progress has put into it and what
ticks that raised in the V3 step, or were cancelled behind it, have left. Every refused
commit rolls back to the tick's checkpoint, which `CheckpointBehind` makes a number that
`lp` is not behind of, so that the difference counts.

### The trader

`TestnetTraderProofs`. `ControlInv` has no hypothesis on the faults: it says for every
program counter where the walk of a list goes on, whether a session is open, and, from
the confirming reads of `cancel_all` on, that the exchange holds no live order.
`OneLiveSession` and `QuietOnlyWhenConfirmed` follow from it, for any number of failing
calls of all kinds, resets and crashes.

`RealInv` says that what the trader asks the exchange about is
unknown there only after a reset, for every record and for every order a walk has still
to visit. It assumes no 429 on a POST, no revoked keys and no `stop` that runs out of
patience: those leave a record `new` that never reached the exchange.
`TraderResetsAreReal` follows.

The second half is under the same hypotheses. `CountInv` says that a client id is used
once and that no fill is booked twice. `SkipInv` adds that none is skipped
(`TraderNoFillSkipped`), when every POST is answered or refused: otherwise the cursor may
pass a trade of an order whose exchange id is not known yet. `DeadInv` says that the
records list every live order, and that the side loop of `_quote` has met every live order
of its side before it places; `TraderOneOrderPerSide` and `TraderWrittenOffIsDead` follow.
It assumes that no connection drops after a POST was executed (the client takes that for
a refusal) and that the exchange is not reset. A POST whose answer is lost is allowed.

`HeldInv`, under the hypotheses of `DeadInv`, bounds the position. `OvershootBounded` speaks
of the balance after the fills were read; what can still come is the trades of bids on the
tape that the cursor has not reached, and the rest of the live bid. `Within(b)` says that
the balance with both is at most `b`. A fill and a reading of fills leave the sum alone
(`HeldFill`, `WithinRead`; the latter rests on `ReadBase`, what the fold of `_read_fills`
over the tape adds to the balance, proved by induction over the trades), a cancelled bid
lowers it, and only a bid that is sent raises it, by one order. So it is enough that
`Within(MaxBase)` holds from the approval of a bid in `_quote` to its POST. `_quote` approves
on the balance alone, without looking at what is ahead of it; that this is sound needs
`OneAhead`: between a reading of fills and `_quote` no order is placed, so the unread trades
and the live bid are one order's, and its parts add up to `Size` (`QuoteWithin`, from
`DoneOK`).

### The watcher

`MempoolWatcherProofs`. `TrackerInv` says that ids are handed out in order, that a header
in flight whose block is still on the chain names the block before it, and that every
tracked entry is exact or its block is off the chain. `PoolStateIsExact` alone is not
inductive: an entry is made from a header read several awaits earlier, and only the order
of the ids rules out that a block which left the chain comes back. The model's chain has
that property; a real one can return to a branch it left, and what is proved is silent on
an anchor read during such a double switch.

`WatcherNothingLost` comes from `FollowInv` and has no hypothesis: a swap is in one place on
its way from the queue to its final row, or among those that an error has lost; it is watched
before its pending row is written; and what a block has resolved in memory is a part of the
snapshot it walks. Every fault adds to `lost` exactly the swaps whose row it keeps from being
written (a prediction that raises one, a verification that raises those resolved in the
block, a refused write those of the batch), and a pending row that comes late adds the swap
it overwrites. Rivals that replace one another and a second announcement are part of it.
`TrackerInv` bounds the numbers of the tracked blocks for it, so that the newest of them
exists (`MaxOfBounded`, from well-foundedness).

`WatcherRedoneAfterReorg` comes from `Redoable`, which names the chain `old` that the
reorganisation cut back to its first `f` blocks. `Stretch`: what is tracked is a stretch of
one of the two chains, without holes, and once an entry is dead the later ones are.
`Chained`: the headers of the nested calls of `_apply` have consecutive numbers, and while
they nest all are on the chain; so the calls are never more than the dead blocks, the
predecessor of each is there to be read, and each fits when the one below it is done.
`Place`, `Newest` and `Anchoring` tie the block task's program counter to the last tracked
block. `Held` is the point: a swap verified in a block that can still be given up is
watched, resolved in the block being verified, or recorded in `_resolved_by_block` under a
number the tracker still has; what `_trim` and the pruning forget cannot be given up any
more (`Aged`). When the newest processed block is on the chain, `Stretch` says that every
tracked block is, so a swap verified in a dead block can only be watched.

Anchors are allowed at every block (the window, the period, a gap) as long as none of them
replaced another tracked block: `Anchoring` says what a header that is to be anchored knows
of the entry below it, and a replacement that it cannot exclude sets `hidden`. A swap whose
verification was lost by a refused write is in `lost`, which `Held` and the property name.

Its hypothesis is `OneReorg`: one reorganisation, at most as deep as `_MAX_REORG_DEPTH` and
the tracker's history, no call that fails while it is redone, no `_after_block` that raises
and no rivals. A reorganisation one block deeper than `_MAX_REORG_DEPTH` is still redone,
which the theorem does not claim. A block that raised in `_after_block`, or for a rival taken
out of its snapshot, is applied again only after a rewind that the invariant does not
follow; `after` and rivals are excluded for its sake. `mempool_reorg` satisfies the
hypothesis, and failing calls outside a redo, late announcements, refused writes, raising
predictions and any interleaving with mining are left free.

### The executor

`FlashArbProofs`. `FlashInv` says of every block of the chain, not only of the last, that
the contract holds what it was given: a reorganisation goes back to an earlier one. Under
it lies `TradeOK`: a trade is refused before a token moves, or it ends with the contract's
balances as they were and the profit with the owner. Its heart is two facts about integer
division, `OutIsAccepted` and `InIsAccepted`: for all reserves, amounts and fees, what
`getAmountOut` offers and what `getAmountIn` asks for (rounded down, and down plus one)
satisfies the pair's invariant. `FlashHeldIsGifts`, `FlashRefusedBeforeMoving` and
`FlashOwnerIsPaid` follow. That the V3 pool answers with amounts the contract can pay is
not assumed: in every block the pool's price is between its bounds and its liquidity is
some of the positions that can be minted (`PoolOK`, a part of `Fine`), and on such a pool the swap loop ends with integers (`PoolAnswers`, from `SwapLoopOK` of
`PoolMathProofs`).

`FlashEstimateIsExact` compares two computations of one trade: the scanner's, on the tick
window it loaded, and the contract's, on the pool itself. `ServiceInv` ties them together
over the awaits between them: until a reorganisation takes the block of the snapshot, that
block is still on the chain under its number, the snapshot is a reading of it (`Reads`), and
the candidate is what the scanner made of the snapshot (`Pinned`), however many blocks were
added since. The loaded window is a part of the pool's, and a swap that ends inside it
without running out of ticks takes every step as it would over the whole pool
(`SimulateAgrees`, by induction over the iterations: the next tick found in the window is
the pool's next tick). Then each direction is followed through the contract's callbacks to
the revert that carries the result (`ForwardSimulation`, `BackwardSimulation`).

The theorem is `Simulable => EstimateIsExact`. `Simulable` says of the candidate that the
search found a size (over an empty range it raises in the code, `dex_arb_scanner.py:91`),
and, for the reference size of a candidate without a profit, that both legs move something
and the loss is within the simulator's subsidy (`executor_simulator.py:107`): otherwise the
contract reverts with another error than its result. `cand.optimal`, a size with a profit,
needs neither. TLC finds `Simulable` and `ServiceInv` true in every state of `flash_arb`.

### The LP book

`LpBookProofs`. `LpConstants` asks for no width: `Q32`, the spacing, the fee and the unit are
any numbers, and the table of prices is any that rises (`RatiosGrow`). `PoolMathProofs` has
what it needs of `PoolMath`: `MulDiv` and its rounding, the amounts between two prices, the
swap step, which stays between its two prices (`SwapStep`), and the swap loop, which keeps
to the pool's prices and pays out a natural number (`SwapLoopOK`, by induction over its
iterations).

`BookInv` types the pool, the reader and the ledger and says with `Consistent` what the
ledger's entries mean together. Its step is followed stage by stage (accrual, burn, swap,
mint, each early return). `BookNeverOverdrawn`: a mint takes no more than is held, although
the liquidity is rounded down and the amounts are rounded up; the heart is that rounding up
an amount of a liquidity that was rounded down from it gives at most the amount
(`Fit0`, `Fit1`), so that the code's retry loop ends at its first attempt.
`BookReconciles`: the difference between the value of the position and the sum of its parts
is the same before and after each stage but the mint, where it falls by the dust.

`BookExactIsTrue` is about counters that wrap. `GrowthInv` says that the counters inside the
range at the last snapshot, plus the growth that happened since, is the counter inside the
range now, modulo 2^256, through swaps that cross the bounds, through mints that initialise
them and burns that leave them. Its hypothesis `GrowthFits` is that no interval sees 2^256
or more of growth: beyond it two snapshots cannot tell. In the states of `lp_book` TLC finds
it true.

### The evaluation

`ShadowEvalProofs`. The theorems have no hypothesis on what fails. `SessionInv` has seven
parts. `SessionType`; `InTime`, the order of acknowledgements, trades and ticks; `Unbroken`,
a tick for every snapshot until one is not saved; `Agrees`, the records in memory are what
the trades read so far make them, saved or not; `Capped`, the exchange fills no order beyond
its size; `Shown`, an order that had not filled or been cancelled before a tick is in that
tick; and `Reproduces`, the live books are those the ticks replay to.

`Reproduces` speaks of a replay over all orders (`Replayed`), because the session showed its
books orders that a failed flush never wrote. The recording replays the orders that have a
row. A book evaluates each order alone, so this is the part of the full replay that
concerns them (`PartAll`), and what is missing from it are fills of orders without a row.

`SessionReplayReproduces`: the session evaluates a tick with the orders as they are then,
the replay with the orders as they ended. The two agree because what a tick reads of an
order (its side, price, size and acknowledgement) no later step changes (`SameReplay`, by
induction over the ticks), and because a book is evaluated alone: the fills of a model do
not depend on which other models are replayed beside it (`AloneAll`).

`SessionModelsAreOrdered` is an induction over the ticks with the quantities filled so far in
four books at once (`InOrder`): whenever a stricter model fills, every looser one has filled as
much or fills now. `SessionFillsAreLabelled` follows the last look at an order through the
ticks: the first look at or after a fill is the one whose interval holds it. The fill in
question is the first that has a row, which need not be the first on the exchange; that the
order is still in the tick's window follows because an order that filled did so with its
last trade (`FilledLast`, from `Capped`), not with one whose row is missing.

## 5. What is only model-checked

- Everything about `SwapPredict`, whose properties compare the predictor with the pool over
  whole router calls and whole blocks of events, and so need folds over sequences whose
  steps are themselves loops; `OpensInRange` of `LpBook`, which holds or not by the rounding of a few prices to ticks (section 3 has a width for which
  it fails).
- What the hypotheses of section 4 leave out and the code keeps: `RedoneAfterReorg` with
  rivals or with a raise in `_after_block`, and the trader's properties with revoked keys.
- Liveness (`KillClears`, `StopEnds`, `OrdersSettle`, `SwitchRestarts`, `CatchesUp`, and the
  leads-to of `ImplementsLedger`): the prover has no fairness and no ENABLED.

Induction over data is done where a proof needs it by hand: the induction theorems of the
library take an operator as a parameter, which the provers cannot instantiate, so a set of
the indices up to which a fact holds (`UpTo`) is shown to be everything below the bound.

## 6. What is not modelled

- Numbers: floating-point prices and fees of the trader and its rounding to the
  exchange's rules, the full 256-bit width of the pools, `amm_pool.py` and
  `arbitrage_scanner.py` (floating-point formulas without state).
- The fit of the fill model (`calibration.py`: Newton steps on a likelihood, and the gates
  on its result), PnL and medians of the comparison: numerical optimisation.
- The LP book's time in range and pool share; the scanner's flags and missed slots of a
  prediction; the allow-revert bit of a router command.
- The frames of a recording and the lab's engine (`simlab/recorder.py`, `engine.py`): a pool
  job that ends or raises. Backtests: sequential drivers of the same broker and book.
- A plain `TestnetError` inside `cancel_all` (an answer that is no JSON), and signed
  requests that take effect after the client gave up: the exchange refuses them
  after `recvWindow`, 5 s, and the client waits 10.
- The watcher's scan cache, its forced modes, its retention, its `state` for the dashboard, transactions
  without a sender, and the eviction of old hashes from `_recorded`.
- SQL, HTTP, formatting, metrics, the dashboard, ABI decoding: the code around the
  state rather than the state.

## 7. Plan

What is modelled is what the code's state calls for; what is left is mostly proof:

1. `MathIsExact` of the predictor, from the lemmas about the swap loop in `PoolMathProofs`;
   `SimulateAgrees` is the part of it that one swap needs.
2. `Recorder` (`simlab/recorder.py`): frames, gaps and failures of a recording, with
   `SimLab`'s pool job as its abstraction.

The list of disagreements in section 3 is the first place to look when the code
changes: each names the fault that brings the trace back.
