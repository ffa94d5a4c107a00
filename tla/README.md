# Verification of bkTrader

bkTrader is a Go platform that trades futures live: strategies emit signals, a
live session turns them into orders, an exchange adapter submits and syncs the
orders, a settlement engine books fills and moves positions, and background
services supervise and recover the sessions.  Beside the platform stands a body
of Python research (`src/research`): replay engines, an entry harness and a
series of timing studies whose figures decide which strategy goes live.  This
directory holds TLA+ models of the trading core and of that research, the TLC
runs that check them on small instances, and the TLAPS proofs that hold for
every instance.  Everything is translated from the code
under `src/`; `PROJECT.json` maps each definition to the lines it models.

## 1. Inventory

| Part | State it keeps | Operations | What is hard |
| --- | --- | --- | --- |
| Order settlement (`service/order.go`, `fill_reconcile.go`) | order rows, fills (real, synthetic, remainder), position row | create, submit, sync, cancel, settle, retry | handlers read an order, wait for the exchange and write the copy back; trades come late and in parts |
| Binance adapter (`live_registry.go`) | none (replies are computed from two requests) | submit, query, trades, cancel | lost answers, trades not shown yet, an order without an exchange id |
| Stores (`store/memory`, `store/postgres`) | all tables | CRUD, settlement transaction, session state (blind and compare-and-set), leases | the in-memory settlement lock is global, Postgres locks one order |
| Live session loop (`live_execution.go`, `live.go`) | `session.state`, last dispatched order | sync, dispatch, timeout cancel, recovery | which orders it keeps syncing |
| Live session control (`live_session_control.go`) | desired and actual status, request id, version | request start or stop, scan, finish, reset | a scan works from an old snapshot while requests change |
| Account flow (`live_account_flow.go`) | account lock, sessions | launch, stop | sessions listed before the lock is taken |
| Runtime leases (`runtime_lease.go`) | lease row per resource | acquire, heartbeat, release | an owner that stalls past its TTL |
| Fill sync (`fill_sync.go`) | fills | manual sync, rebuild | rebuild does not touch the position |
| Recovery and reconcile (`live_recovery*.go`, `live.go`) | gate per account and symbol | adopt the exchange position, close verification | pending settlement must block adoption |
| Runtime supervisor, node agent (`runtime_supervisor.go`, `nodeagent`) | restart plans, suppressions | probe, plan, execute | repeated failures, stale plans |
| Event bus, dashboard broker (`runtime_event_bus.go`, `dashboard_broker.go`) | queues | publish, consume | full queues, slow subscribers |
| Pure algorithms (`domain/trading_replay.go`, `order_intent.go`) | none | replay, classify | equivalence with the live engine |
| Replay engines (`research/backTest.py`) | position, stop, re-entry window, trade log | walk bars and quotes or ticks, build the tick stream, read the log | three engines that share rules and differ in order; windows inclusive at both ends; chunk boundaries |
| Entry harness (`research/entry_redesign`, `scheduler/pipeline.py`) | ledger, summary, attribution, violations, files | decide an event, aggregate, assert, write, rank | look-ahead; three sets of checks of the same facts; early returns that leave files behind |
| Dynamic timing (`scripts/dynamic_timing`) | events, thresholds searched, trades | look every few seconds, enter, wait or skip; search; judge on later events | causality; a search that must keep its best; gaps in the bars |
| Pre-breakout timing (`scripts/pre_breakout_timing`) | delay matrix, labels, classifiers, reports | simulate delays, label, learn, report, verify | two programs that must agree; row numbers after re-indexing |
| Path C (`scripts/path_c_unified`) | gates, pool, labels, tree, decision | explore, expand, label, learn, check, report | stages that compute the same pool or tree again |
| Pretouch refinement (`scripts/pretouch_refinement`) | feature groups, arms, best arm | extract, run arms, ablate, check, report | what each feature reads; copies of one filter |
| Unified timing and probability (`scripts/timing_probability_unified`) | event pools, models, trades, windows | generate events, impute, filter, learn, size, roll, reprice, report | what forward results depend on; windows that overlap |
| Go strategies, paper trading, charts, logs, alerts, CLI, web console | various | various | numeric or presentation code, no shared state of the kind above |

A settlement is right when fills never exceed what the exchange executed, never
fall back, the position moves by exactly the new fills, and an order with
missing trades is eventually settled.  Control is right when an old request
never overrides a newer one and a lease has one live owner.  Research is right
when nothing it reports depends on what was not known at the time of the trade,
when a trade is booked once, and when two places that compute the same figure
agree.

## 2. Plan

Settlement comes first because a wrong fill or position is wrong money, control
second because every other writer of a session goes through its row.  The
research comes third: it is most of the repository's Python, and a look-ahead or
a trade counted twice there becomes a live strategy.

| Module | Contents | State |
| --- | --- | --- |
| `FillSettlement`, `FillSettlementProofs` | submission, sync, cancel, settlement and retry of live orders | done |
| `LiveSessionControl`, `LiveSessionControlProofs` | control requests, scanner, start, stop, delete, account stop, startup recovery, evaluations, crash | done |
| `FillLedger` | abstract specification: executed lots are recorded once, with the position; `FillSettlement` implements it | done |
| `Backtest`, `BacktestTick`, `BacktestMinute`, `TradeLog`, `TickEvents`, `BacktestProofs` | the replay engines, the log readers and the tick stream of `backTest.py` | done |
| `EntryDecision`, `EntryReports`, `EntryPipeline`, `EntryProofs` | the entry harness: deciding one event, what is derived from a ledger, one run of the default subset | done |
| `TimingExecution`, `DelayStudy`, `Learners`, `DynamicTiming`, `DynamicStudy`, `PreBreakout`, `PathC`, `EnhancedFeatures`, `Refinement`, `TimingStudies`, `FoldFacts`, `DynamicProofs`, `PathProofs`, `TimingProofs` | the execution simulator and what the studies share, the four studies built on it, and what they promise | done |
| `BreakoutEvents`, `UnifiedModel`, `UnifiedStudy` | events of several time frames, the models, and the unified, union and time-frame programs | done |
| `SignalRuntime`, `RuntimeLease` | the signal runtime's own desired and actual status with restarts and suppression; leases with a clock, composed so that one owner runs a session | next |
| `LiveLaunch` | launch of a template, which holds the control lock and calls operations that try it again (`live.go:2113`), and the locks of several strategies | next |
| `PgSettlement` | Postgres transactions of two orders on one position row, manual sync and rebuild of fills | next |
| `PositionReconcile` | reconcile gate, adoption of the exchange position, close verification against pending settlements | later |
| `RuntimeSupervisor` | restart plans, back-off and suppression, node agent | later |
| `EventBus` | bounded queues, redelivery, dashboard broker | later |
| `FillReconcile`, `TradingReplay` | the reconciliation plan with prices and fees, and the replay of trades, as functions checked against reference definitions | later |

Theorems to add, with the modules still to come: mutual exclusion of lease
owners up to the stall the code allows, and what the reconcile gate guarantees
about adoption.

## 3. FillSettlement

Variables: `order` (rows), `real` and `placeholder` (stored fills), `position`,
`exchange` (the exchange's record of each order, external) and `worker` (one
record per goroutine: program counter, the copy of the order it read, the
reply it collected).  A handler is a sequence of actions because each exchange
request is a point where others run; a settlement transaction is one action
because the in-memory store holds `settlementMu` for all of it.

| Code | Actions |
| --- | --- |
| `CreateOrder`, `submitLiveOrder`, `submitRESTOrder` | `CreateOrder`, `PlaceOrder`, `PlaceOrderFails`, `SubmissionAborted` |
| `applyLiveSubmissionResult`, `settleImmediatelyFilledLiveOrder` | `ApplySubmission`, `ApplySubmissionError`, `FinishSubmission` |
| `SyncLiveOrder`, `syncRESTOrder` | `SyncLiveOrder`, `QueryOrder`, `FetchTrades`, `FetchTradesFails`, `RequestFails` |
| `CancelLiveOrder`, `cancelRESTOrder` | `CancelLiveOrder`, `CancelOrder`, `RequestFails` |
| `applyLiveSyncResult`, `finalizeExecutedOrder` | `UpdateOrderWithoutFills`, `SettleRealFills`, `SettleSyntheticFill`, `SettlementFails` |
| `liveSettlementPendingOrderSymbols` | `RetryPendingSettlement` |
| exchange and process (external) | `Match`, `Expire`, `Trim`, `Crash` |

What is abstracted.  Quantities are lots and a trade is one lot; prices, fees
and the tolerance of float comparisons do not appear.  The order status that
the exchange reports goes through `MappedStatus` (`mapBinanceOrderStatus`).
A FILLED order without trades is retried `EmptyTradeLimit` times before a
synthetic fill stands in.  `RealPlan`, `SyntheticPlan`, `Upgraded` and
`NewToPosition` are `BuildFillReconciliationPlan` by quantity; which of several
equal trades are taken when there is no room for all is left open.  The
cooldown of `shouldBackfillTerminalFilledLiveOrder` is left out: it only delays
a sync; so is its case of a FILLED order without `lastFilledAt`
(`live_execution.go:1578`), in which the code syncs once more than the model.
Two branches are left out: a fill of an order that reconcile recovered moves no
position when the account snapshot shows none (`order.go:1555-1565`; reconcile
is not modelled), and an order submitted as FILLED that its own answer cannot
settle is synced at once (`order.go:661-671`), which in the model is the sync of
some worker later.  The session loop's order is any order that `NeedsSync`; the model does
not track `lastDispatchedOrderId`.  Postgres, which locks the order and not the
position, is not covered (see `PgSettlement` above).

`FillLedger` is the abstract specification.  It knows how many lots of each
order the exchange executed, how many the stored fills account for, and the
signed position; `Execute(o)` adds executed lots, `Record(o)` records some of
the lots executed and not yet recorded and moves the position by as many.
`Ledger` in `FillSettlement` maps `exchange`, the sum of real fills and
placeholders, and the position row to it; `ImplementsLedger` says that every
behaviour of settlement is one of the ledger.  Orders, copies, replies, kinds of
fills and workers disappear in the mapping; most steps become stutters.

## 4. LiveSessionControl

One live session row.  `row` holds the status and the control keys of
`session.state`: desired and actual status, request id, version, force flag and
the id of the request that failed.  Every goroutine has a place (`pc`) and the
session it read last (`copy`); the scanner also has the request it serves
(`task`).  `lock` is the control operation lock of each process, which is only
ever tried.  `asked` is a history of accepted requests: a request id is a
position in it, which stands for the random UUID of the code.

| Code | Actions |
| --- | --- |
| `RequestLiveSessionStart/StopWithOptions`, `ResetLiveSessionControlState` | `LoadForRequest`, `AcceptRequest`, `RetryRequest` |
| `DeleteLiveSessionWithForce` | `LoadForControl`, `ClientLock`, `ClientRefused`, `ClientStopRuntime`, `DeleteClear`, `DeleteMark` |
| `StopLiveFlowWithForce` | `LoadForControl`, `ClientLock`, `ClientRefused`, `ClientStopRuntime`, `FlowStop` |
| `scanLiveSessionControlRequestsOnce` | `ScanSession`, `InitializeLegacyRequest` |
| `markLiveSessionControlActual` | `MarkLoad`, `MarkCommit`, `MarkStale`, `LoadStale`, `RecordStaleDiscard` |
| `StopLiveSessionWithForce` | `LoadForOperation`, `OperationRefused`, `OperationLocked`, `StopRuntime`, `StopStatus` |
| `StartLiveSession`, `recoverRunningLiveSession` | `LoadForOperation`, `PrepareStart`, `SyncRuntime`, `EnsureRuntime`, `Block`, `MarkBlocked`, `OperationFails`, `StartStatus` |
| `RecoverLiveTradingOnStartup` | `RecoveryList`, `RecoveryLock`, `RecoveryNote` |
| `triggerLiveSessionFromSignal` | `EvaluationLoad`, `EvaluationWrite` |
| stop and restart of the runner | `Crash` |

Why the steps are cut where they are.  Each store call is atomic (the in-memory
store has a mutex, Postgres one UPDATE statement), and anything may run between
two of them, so one action makes at most one store call, or reads the row it has
just updated.  `UpdateLiveSessionState` replaces the whole state: a writer that
does not know of the control keys writes back those it read.  That is modelled
by writing `copy[a].state`.  `UpdateLiveSessionStateIfControlRequest` compares
id and version first (`Unchanged`).

What is abstracted.  Checks for positions, orders, adapters, readiness and the
reconcile gate are nondeterministic outcomes of the step that makes them.
`PrepareStart` stands for the several writes a start may make before it syncs
the runtime: they carry the same control keys.  Likewise `EnsureRuntime` is one
optional write where the code may make two (`live.go:4508`, then 4529 or 4536).
`ControlErrorCurrent` compares request ids and leaves out the version, which
changes with the id, and the times of error and request
(`live_session_control.go:697-711`): the clocks of API and runner are taken to
agree.
The later writes of an
evaluation do too; other evaluations stand for them.  Audit events and scanner
statistics are left out.  Signal runtimes are left out except for the session
writes their start and stop cause.  `markLiveSessionControlActual` takes keys
that the latest state lacks from the session it was handed; among the control
keys that concerns `desiredStopForce` only, and `MarkedState` does the same.
A reset deletes that key and so makes no promise about force, which is why
`OperationMatchesRequest` compares the flag only with requests that set one.

## 5. Replay engines

`Backtest` is `run_backtest_enhanced`: a cursor over signal bars (`BarOpen`,
`BarSkip`, `BarEnd`) and over the quotes of a bar.  A flat quote looks for a
breakout and for a re-entry (`FlatSide`, `ReEntry`); a quote in a position
looks for an exit before it moves watermark, protection and trailing stop
(`HoldStep`); the circuit breaker pauses; the end marks to market.
`BacktestTick` (`run_tick_full_scan_dual`) adds the jump past the ticks that
share the timestamp of an entry or exit, `BacktestMinute` (`run_backtest_1min_granularity`) the
older order of branches.  `TickEvents` is `_build_tick_event_stream` with its
chunks, the minute it carries over and the sort at its end, `TradeLog` the three readers of a log.
`MCBacktest` puts the five side by side, one "study" per behaviour.

Prices are integer ticks, distances half ATRs.  The balance is left out; sizes
are kept because the code branches on them (`SizesFollowTheBar`: the n-th real
order of a bar has the n-th size of the schedule), and whether an exit breaches the
drawdown limit is a choice.  A bar without an ATR counts as no gain
(`Gains`, for the `atr > 0 else 0` of the code).  `DataAssumption` and `SettingsAssumption` say no
more than that quotes, bars and parameters are numbers and that a schedule has
a first, positive size.

## 6. Entry harness

`EntryDecision` holds the pure steps from trigger to ledger row; `EntryReports`
metrics, flags, attribution, the counters of `InvariantChecker` and the
assertions that compute the same facts again; `EntryPipeline` one run of
`run_default_subset`: baseline, then candidates, each with its early returns,
the files in the order they are written, and the ranking.  The events loader is
a protocol without implementation, so it hands out any events of the month.

A part of a ledger is the set of the positions of its rows, so metrics are
figures of sets and the counters cardinalities.  The drawdown is the worst sum
of the trades after one up to another, which is the running maximum less the
running sum of the code.  The ranking gives every candidate its place;
candidates that tie share it, and the report lists those by identifier.

Met while modelling: the default subset's `persistence_*` and `retest_*`
candidates have D = 0 and can never trade; the metrics of `gate001` always equal
those of `nogate` because a rejected trade keeps its row and its profit, so the
gate filters nothing and `gate_dependent` is never reached, against
`entry_redesign/README.md:33` and `pipeline.py:981` (a finding);
`assert_invariant_P6` looks for splits in a summary that never holds any
(`assertions.py:459`), so it only reads the counter, as it does in the model,
and `ChecksAgree` compares the windows themselves; of `assert_invariant_P8` the
counter is kept, as the round trip of a JSON file is outside the model;
`run_default_subset` passes no events loader; its exit status is 0 even after an
abort, and 1 when a candidate of the list has no id (`run_default_subset.py:357`
is outside the `try`).  `Init` takes the output directory to be empty: files an
earlier run left there are not modelled.

## 7. Timing studies

`TimingExecution` is the walk of a position over bars that all studies share
(stop, break-even lock, trailing, time limit, slippage and fees) and the match
of ledger and events.  `DynamicTiming` is the step loop and its two layers of
searches; `DynamicStudy` adds what it is given and what it promises.  `DelayStudy` trades every event under four delays and a pullback;
`Learners` are the classifiers by what they try and keep.  `PreBreakout`,
`PathC` and `Refinement` are the programs over them, one action per stage of
`main`; `EnhancedFeatures` says which bars each feature reads.  `TimingStudies`
puts the four side by side, as any of them may run (it extends `DynamicStudy`
and holds an instance of each of the other three), and states their properties;
`MCTiming` gives it ledgers, events and bars.  Fitting a tree
or a forest is external: what a fitted learner answers is one of a few rules the
environment chooses.  Resampling is a rotation the environment chooses.

What is left out.  Path C finds its files: a missing one raises before any
state is made (`gate_explorer.py:587`, `expanded_data_layer.py:115`), and of the
names a bar file may have only the exact one is used
(`expanded_data_layer.py:71`).  In `EnhancedFeatures` an event whose levels
raise (`enhanced_features.py:905`), a run without the extended bars (197-221)
and a bar file found by the middle of the month (526) are left out: every event
has the bars its features read.  `ChosenLearnerIsBest` covers the
tree and forest depths the code tries, 3 to 5.

Met while modelling: both flow features of dynamic timing are the constant 0.5;
the overfitting flag is never raised when the train sum is not positive; the
optimised pullback configuration is never used and `verify_pullback` counts rows
without data as triggered; in Path C strategy A is unreachable, the regime is
chosen with hindsight (`classifier_trainer.py:466`), events without data are
labelled "fast" and the final row of the report holds the constant 116; in
the refinement the leave-one-out and train sums of two and three regimes are
always 0, `run_ablation` filters "skip" also for two classes, and the csv of
trades is always empty.

## 8. Unified study

`BreakoutEvents` makes bars of a time frame from seconds, finds T2 and T3
events, and fills in features from the hours before them.  `UnifiedModel` has
the pools, the split by time, the quality filter, the speed gate, the timing
tree, the probability forest, sizing and repricing.  `UnifiedStudy` has the three
programs: "unified" with robustness checks, ablation and decision, "union" with
one or several windows, and "frames".  A program that raises stops as "failed".
Forward events that keep no column are all skipped, at even odds
(`robustness.py:395-411`); those that keep other columns than the train events
make the fitted model raise.  The cost threshold is the median of the known
costs (`unified_runner.py:342`).

What is left out.  `get_hourly` joins months whose files do not overlap; the
code neither sorts nor drops duplicates when they do (`feature_computer.py:117`).
`FillPrice` adds the slippage where the code multiplies by one plus it
(`adverse_fill.py:107`): both are worse for the trade, which is all
`WorseFillsNeverPay` needs, and the choice of the same or the next close is not
part of that property.  `WindowsPartition` reconciles what the windows hold; a
trade that no window holds is outside both of its sides.

Met while modelling: the overfitting flag compares a forward sum at share 0.30
with a full sum at 0.80 (`robustness.py:440`), and the ablation has the same
mismatch; the filter to ETH makes the mean of BTC 0, so `strong_go` and H4 are
out of reach (`unified_runner.py:327`); with both pools skipped the union raises
for want of `touch_time` (`union_strategy_runner.py:717`); forward validation
imputes with the forward set's own medians (`robustness.py:387`), so
`ForwardIsFrozen` speaks of the union program only;
generated events carry signal levels of 0.0 and an ATR that includes the whole
signal bar; the delay of a regime is chosen with hindsight
(`timing_classifier.py:398`).

## 9. Runs

Passing runs.

| Run | Instance | Shows |
| --- | --- | --- |
| `settlement_one_order` | one reduce-only SELL order of 2 lots, two workers, limit 3 | `NoOverfill`, `UnsettledIsRetried`, `PositionFollowsFills`, `FilledNeverFallsBack` while stale copies, late trades, lost answers, failing settlements and restarts combine |
| `settlement_two_orders` | BUY of 1 and SELL of 2 lots, one worker | `ImplementsLedger` when the position opens, grows, closes and flips |
| `settlement_liveness` | one BUY order of 2 lots, the session loop and an HTTP sync | `FilledOrdersSettle` |
| `control_requests` | two HTTP requests of any kind, one evaluation, recovery, API and runner processes | `OperationMatchesRequest`, `ErrorStopsRetries` |
| `control_convergence` | one HTTP request of any kind, one evaluation, recovery, one crash, one process | `ScannerConverges` |
| `backtest_studies` | three signal bars of up to three quotes each, four parameter sets, tick files of up to three ticks, logs of up to four rows | no exit uses the path inside a quote (`EngineNoPathInsideAQuote`), zero-size breakouts in window mode (`EngineWindowModeTradesAreReal`), order sizes that follow the signal bar (`EngineOrderSizesFollowTheBar`), a stop that only tightens, pairs in the minute engine, readers that agree (`LogReadersPairUp`), chunks that do not show (`StreamIsTheTape`), and that every replay ends |
| `entry_pipeline` | the baseline and one of eight candidates, five kinds of events, seven environments | `NoLookAhead`, `AttributionAddsUp` (silo by silo and over the whole ledger the same trades are counted), `ChecksAgree`, `FilesTellStatus`, `RunEnds` |
| `timing` | the four studies on a few events and all paths of four bars | `TimingIsCausal`, `ProtectedTradesPay`, `SearchKeepsBest`, `ProgramsAgree`, `ChosenLearnerIsBest`, `PoolIsTheOneReported`, `OneTreeIsJudged`, `FeaturesArePointInTime`, `ChecksRepeatTheArm` |
| `unified` | the three programs over the event files, months and learners of `MCUnified` | `FilledFeaturesArePointInTime`, `ForwardIsFrozen`, `WindowsPartition`, `WorseFillsNeverPay` |

Runs that TLC refutes, each with a finding in `PROJECT.json`.

| Run | What the text says | What the code does |
| --- | --- | --- |
| `foreign_trades` | order, fills and position are consistent | an order without exchange id is synced with all trades of the symbol |
| `control_lost_request` | an older request cannot overwrite a newer one | a start writes back the state it read before the newer request |
| `backtest_pairs` | the log is a sequence of entry and exit pairs | a breakout inside a re-entry window is overwritten by the re-entry on the same quote |

`PROJECT.json` also lists disagreements that the models contain but no run of
their own refutes: a sync without fills writes an old `filledQuantity` back; an
account stop leaves the desired status of an earlier start; a start that read
the session before it took the lock undoes a delete; a reset in the middle of a
start makes STARTING a target; the last position of the minute engine is
booked twice; attribution rows and symbol shares of two studies are taken from
other events; and several in reports.

Bounds and why they are enough.  Two lots are the least with a partial fill, a
remainder and a trimmed order; two workers the least with a stale copy, and
further workers only write further stale copies of the same order.  Two orders
of opposite side are needed for a position that flips.  `EmptyTradeLimit` is 3 as in the
code where the retries themselves matter and 1 in the liveness run and the run
of two orders.  Two clients are the least for a request that overtakes another;
with the old states that recovery and an evaluation write back, a request also
loses its compare-and-swap three times and is refused.
`Legacy` is empty in the runs: a session without a request id but with a desired
status also comes from a delete in progress, so the legacy path is taken.
`MaxCrashes` is 1 where crashes matter.  The safety
theorems hold for all values of these constants.
Three bars are the least in which a re-entry window opens, is used and times
out; three ticks the least with two in one minute and a boundary inside a chunk;
four rows of a log the least with two pairs.  Two months and two symbols make
four silos, and two events the least that share one.  In the studies three or
four events are the least with train and test rows on both sides of a split and
a label that is a minority; the instances of `MCTiming` and `MCUnified` list
files in which a join fails, a month is missing, a bar is late, a class is
absent, and an event lies exactly on a boundary.

The workers of settlement and the clients of control are interchangeable, so the
safety runs use symmetry; the liveness runs do not.  Deadlock is not checked in
the runs of settlement and control: all orders may be settled, all requests
served and the session deleted.

Fairness.  The session loop is triggered by every signal event and by
`syncActiveLiveSessions`, so it syncs again as long as `NeedsSync` holds;
requests and settlements may fail any number of times but not for ever
(`SessionFairness`, strong fairness of their success), and the exchange shows
all trades of an order in the end.  The HTTP sync has no fairness.  The control
scanner ticks every five seconds, and none of its operations blocks: the lock is
tried, the waits for a runtime and the exchange have deadlines (`Fairness`, weak).  A
client that has sent its command is served; it need not send one.  Signals and
crashes need not come.  In `settlement_liveness` an order that is cancelled
or expires is left out: it is never FILLED afterwards.  The engines and the
harness are single threads that stop only at their end (`AllSpec`, `EntrySpec`:
weak fairness of the next step); the other studies claim no liveness.  Deadlock
is checked in `backtest_studies`, where the end stutters explicitly; elsewhere a
finished program may stop.

Each property has a mutant in `PROJECT.json`: a fault a change to that code
could plausibly bring, defined just before the definition it replaces, under
which TLC refutes the property.

## 10. Proofs

TLAPS checks all proofs; the assumptions on constants (`QtyAssumption` and so
on) are typing assumptions plus, for control, that goroutines have distinct
names.

`FillSettlementProofs`, for any orders, workers, quantities and limits:

* `TypeCorrect`.
* `PositionFollows`, `FillsGrow`: from types and the lemmas on the pure steps
  (`ApplyFillEffect`: a fill changes the signed position by exactly its
  quantity; `UpgradedTotal`: an upgrade keeps the larger of trades and
  placeholders).
* `NeverOverfilled`, `UnsettledRetried`: from the inductive invariant `IInv`.
  `NoOverfill` is not inductive, because a settlement works from a copy of the
  order and an old reply.  `RowInv` says what any copy of a row, stored or in a
  worker's hands, may claim (trimmed only to what the exchange executed, never
  more filled than the stored fills); `ReplyInv` that a reply that said FILLED
  is still true, since FILLED is final at the exchange; `SubmitInv` that an
  order is placed once; `RecordInv` and `LedgerInv` tie the exchange's record
  and the fills together.  `NeverOverfilled` assumes `ForeignTrades = 0`; the
  run `foreign_trades` shows that it must.
* `RefinesLedger`: `FillSettlement` implements `FillLedger`.  `LedgerInit` maps
  the initial states; `LedgerMoves` maps every step: `StepFills` says a step
  settles one order or leaves fills and position alone, `OneRecord` that the
  exchange's record changes for one order and never in a step that settles,
  `RecordStep` that it only grows, and `LedgerInv` in the next state that what is
  recorded had been executed.  It needs `ForeignTrades = 0` for the same reason.

`LiveSessionControlProofs`, for any clients, evaluations, crashes, legacy
statuses, in one process or two:

* `TypeCorrect`.
* `OperationsAsRequested`, `ErrorsAreCurrent`: from `IInv`.  Requests can be
  lost, but not mixed: `RowsFaithful` says that the row and every copy of it
  carry the desired status and force flag of the request whose id they carry,
  because everyone writes whole states; `TaskFaithful` says the same of the
  scanner's task and where it is with it.

`BacktestProofs`, for any tapes, parameter sets and numbers of bars and quotes,
about all three engines at once (`AllSpec`):

* `TypeCorrect`, `NoPathKnown`, `WindowTradesReal`, `MinutePaired`, and the
  action properties `StopTightensOnly` and `OrderSizesFollow`.  The work is in
  lemmas about one quote (`FlatSide`, `HoldStep`, `MinuteFlat`, `MinuteHold`):
  each says what the quote may do to types, stop, window and log; the actions
  add the frame.  The inductive invariant `AllInv` strengthens the properties by
  `PendingUnused`: in window mode a breakout left pending is of this bar or the
  one before, and once the bar has traded it is not of the side the bar may
  trade.  Without it an order could take the first size of the schedule from a
  pending breakout although it is the second of its bar.

* `ReadersReportThePairs`, for logs of any length.  The property speaks of the
  end of the log; the inductive `ReaderInv` says of every prefix that the reader
  holds the last entry no exit has used and has reported the pairs whose exit it
  read, in order.

`EntryProofs`, for any candidates, events, calendars and environments:

* `FilesAreTruthful`, from `DiskInv`.  How a candidate's run ends is a function
  of its axes and the environment (`Status`), and so are its files (`Kinds`);
  `ProgressInv` says how far the candidate at hand has come, `ResultsInv` and
  `FilesInv` that every result and every file is that of some candidate.
  `SameId` is why a shared directory does no harm: candidates of one
  identifier are one candidate, or are all rejected.
* `NothingIsForeseen`, from `DiskInv` and `LedgerInv` (the rows at hand are rows
  of events the candidate decided on).  `Agree` says that two events cannot be
  told apart up to a second; `DetectSame`, `EvaluateSame`, `PosttouchSame`
  and `ResolveSame` that each step of the decision then answers the same. The
  post-touch gate is where `H <= D` is needed: it trusts its caller.
* `ChecksTellTheSame`: counter and assertion read the same set of rows in two
  ways, and a counter is zero when its set is empty.  P9 needs the mean of the
  summary: with no notional of zero the priced rows are all rows, and both
  compare the same two products; with one both complain.

The timing studies compute with folds, selections and insertion sorts, so their
proofs need induction over data.  The library's induction theorems take an
operator as a parameter and cannot be used; `FoldFacts` states induction for a
set instead (`Induction`, from `WFMin`: a set of numbers that is not empty has a
least one; `SeqInduction` from that) and derives what `FoldLeft`, `Where` and a
sum over a set compute, one element at a time (`FoldAppend`, `RunAppend`,
`FoldType`, `SetFoldType`).  The operator that is folded is a constant of the
module; each proof about a fold instantiates it.

`DynamicProofs`, for any ledger, events, bars and lists of thresholds, about
`DynamicSpec`; `InvOf` is the inductive invariant of all three:

* `DynamicTimingIsCausal`.  `InvOf` says that what an evaluation holds is the run of
  the chosen thresholds over the test events (`IsEvaluated`); a bar after the time of a look is in none of the
  selections `step_features` makes, so each look sees the same of the bars cut off
  at the entry, and by induction over the looks so does the whole wait.
* `DynamicProtectedTradesPay`.  `WalkInv` says of a position after any number of bars
  that its stop is never further from the entry than its risk, and that a stop the
  break-even rule or the trailing rule moved lies above the entry by the cost lock.
  For the trailing rule that needs `TrailStart >= breakeven_at_r`.
* `DynamicSearchKeepsBest`.  `SearchInv` says that all combinations are tried or still
  to do, and that the best so far scored no less than any tried; the scores are
  integers (`ScoreIsInt`), so the best of them exists.  The second search tries the
  result of the first as well, since its lists hold the defaults.

`PathProofs`, about `path_c_unified`, for any events, bars, learners and bounds:

* `TheTreeIsTheOneJudged`, from `PathInv`.  `TrainRowsAlone`: the medians are
  those of the train rows, so the train rows are the same whatever stands in the
  place of the test rows; `ScoreIsLeftOut`: the score of a tree takes nothing
  else from the state.  `PathInv` carries the score and the test sum from the
  training over the comparison of the depths to the report.
* `ThePoolIsTheOneReported`, from `PoolInv`: the number reported and the pool
  expanded later are those of one pool (`Completed`), though the exploration only
  counts names and adds a difference of sets (`PoolSize`, `ReportedSize`) and the
  expansion builds a sequence without duplicates (`OnceFacts`, `CompletedFacts`).
  `RelaxedNeverFirst`: the rules never choose the relaxed entries, because the
  direct pool holds all of them.

`TimingProofs`, about the other studies:

* `TheDynamicStudyKeepsItsPromises`: the three properties of the dynamic study when any
  of the four runs.  The others never come to the stages the properties speak of
  (`Elsewhere`).
* `TheChecksRepeatTheArm`, from `RefineInv`: each arm was judged by the trades of
  the learner it keeps (`ArmIsJudged`), and the rows put together a second time
  are those of the arm (`CheckedTrades`).  The best of the arms is one of them
  only when their sums are numbers; that is proved too: the results are rows of
  the matrix (`RebuiltAreDelays`), what an arm resolves to is one of them
  (`ResolvedIsDelay`, also for the choice with hindsight), and a sum over the
  silos of such results is an integer (`DelayTotalIsInt`).
* `TheLearnerTakenIsTheBest`, from `LearnInv`: the learners were trained on the rows
  of the labels that are still there, their scores are integers (the trades of all
  delays have returns, `PreDelaysOfOne`), each family keeps its deepest score
  (`DeepestScoresMost`), and the best of four is taken (`BestOfFour`).

What these proofs assume of the inputs.  `InputsAssumption`, `PreAssumption` and
`RefineAssumption`: files are sequences of rows whose times, prices and returns
are numbers, as the parsers of `data_layer.py` and the csv readers deliver them.
`ListsAssumption`: the lists of thresholds are not empty, name fields of the
defaults, hold the default of each field in the second layer, and the layers
share no field; the two grid searches of the runner are written that way.  `ExecutionAssumption`:
trailing starts at a gain no smaller than the break-even rule's, as in the
default parameters of `execution_sim.py`.  `PathAssumption`: the events of a file
have names of their own; the names hold symbol and time.

`CalendarAssumption`, `CandidatesAssumption`, `EventsAssumption`,
`LimitAssumption`, `SecondsAssumption` and `RowsAssumption` are types.

Only model-checked: the liveness properties `FilledOrdersSettle`,
`ScannerConverges`, `EngineReplayEnds` and `RunEnds` (liveness under fairness is
outside the prover's reach) and the refuted properties of section 9.  Of the
research: `AttributionAddsUp` and `StreamIsTheTape`, which compare whole outputs of
recursions over bars and quotes; `ProgramsAgree` and `FeaturesArePointInTime`, which
compare two programs and two runs of a recursion that every feature has for
itself; and the four properties of the unified study.  Induction over data as in
`FoldFacts` would apply to them, one instance for each of their recursions; it
has not been done.

## 11. Not modelled

Section 2 lists what the plan still has: the other Go services that share state
(leases, signal runtimes, launch, Postgres transactions, reconcile, supervisor,
event bus).  Outside of it: the Go strategies and model training (numeric code
on market data), paper trading (a single process simulation of the live loop),
alerts, logs and health reports, HTTP routing, command line tools and the web
console.  Of the research, one-shot sweeps and comparisons
(`eth_q1_breakout_t3_shape_compare.py`, `breakout_shape_expansion.py` and the
like) repeat the replay engines and the execution simulator on other parameters
and print tables; model fitting, bootstrap statistics and the layout of reports
are left out.  `PROJECT.json` lists every part with its reason, and under
`hazards` also those that no property covers yet.
