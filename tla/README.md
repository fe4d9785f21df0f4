# Apex Quant engine: specifications

TLA+ modules, model-checking runs and machine-checked proofs for the parts of
this repository that keep state and run beside each other: the autonomous
execution engine and the state processor that share the `live_book` table, the
asynchronous event bus, the supervisor daemon with the heartbeat it watches, the
order router with its test-net broker, the accounting core, the integration
harness and the live ingestor. The backtests and portfolio simulators, which decide
what the live parts trade, are modelled too: 34 loops over bars as programs of one
interpreter, and eleven portfolio simulators as desks of one state machine.

## 1. Inventory

State, operations and interaction of each part; the hard behaviour; what makes
it correct. `PROJECT.json` lists the same components with their files, and the
hazards of each at their line.

| Part | State | Operations | Hard behaviour | Correct means |
|---|---|---|---|---|
| Autonomous execution engine (`v3_architecture/live_data_collector.py`, `initialize_wallet.py`) | tables `live_book`, `paper_wallet`; flag `system_frozen` in memory | one visit per asset and minute: stop / target / trail, or bounds, watchdog, insert | every step is a connection of its own; crashes and restarts between them; exceptions in mid-transaction | exposure caps, wallet equals settled rows, stops never fall, a freeze ends the entries |
| Live state processor (`live_state_processor.py`) | the same `live_book` | `process_live_candle_tick`: read the slot, then write by id or insert | interleaves with the engine | nothing paid twice, closed stays closed |
| Event bus (`research/operational_hardening.py`, `data_pipeline/live_platform_harness.py`, `extended_soak_tester.py`, `live_websocket_consumer.py`) | a bounded queue and a worker per subscriber | publish with `DROP_OLDEST` or `CRITICAL_BACKPRESSURE`; worker get / callback / task_done; shutdown | several publishes asleep on one queue, a publish interrupted between subscribers | bounded, nothing lost, order, delivery |
| Supervisor (`supervisor_daemon.py`) and the engine it watches (`live_paper_engine.py`) | heartbeat file; recovery counter, time of the last recovery; the process and its streams | look every 10 s: quiet, nominal, stale; C-c or new session, start; pulse in two steps | death between two steps of a pulse, failing commands, a start that never pulses, reconnects | a dead engine is restarted or given up, no more than three fruitless recoveries, a restart is left in peace |
| Paper broker and journal (`execution/paper_orders.py`, `storage/trade_journal.py`, scoring and detectors) | one position, cash; journal on disk | tick exits, candle roll-over entries | none is reached: the engine reads columns its detectors do not make, so no trade is authorized | see "Not modelled" |
| Clearance ledger (`master_orchestrator.py`) and replay chamber (`historical_replay_engine.py`) | `portfolio_state.json`; one trade per symbol with two targets | clearance, register, deregister; per bar stop, first target, break-even, second target | none is reached: the score is given no displacement flag and never authorizes | see "Not modelled" |
| Router, brokers, accounting (`execution/risk_router.py`, `demo_broker_v*.py`, `data_pipeline/accounting_core.py`) | a position counter; exchange orders; journal, positions, balance | validate, count, await the order; record a fill | counter around two awaits, lost answers, purge, repeated trade ids | no exposure without a slot, fill is all or nothing |
| Integration harness (`research/*.py`, `data_pipeline/market_event_bus.py`) | tables positions, orders, system_events | coordinator, kill switch, order insert, recovery | halt only at five errors in a minute, ids of one second, death between storing and counting | what was recovered and made since is what the vault holds |
| Ingestor (`data_pipeline/live_data_ingestor.py`) | one queue, count of unfinished packets | feed, worker, shutdown by join | cancellation at any await, join against a worker that stops on a flag | shutdown ends |
| Bar engines (`vNext_*.py`, `simulate_*.py`, trade loops of `v2_architecture` and `v3_architecture`) | capital and measured peak, one position in two halves, stop, target, phase of the setup | per bar: partial exit, stop, target, average, raised stop, drawdown, entry | order of events inside one bar, gaps between bars, look-ahead over the higher timeframe, results booked between two measurements | exits at prices the market passed, losses bounded by the risk, no look-ahead, a report that agrees with the capital |
| `core_vNext` (state machine, swings, key zones, sizing, governor) and `live_execution_daemon.py` | strategy phase, pivots, zones, positions' heat, day's equity | per bar updates; heat and drawdown gates | a phase a bar, pivots confirmed late; positions are never registered with the governor | a new setup for each position, pivots only from the past |
| Portfolio simulators (`v2_architecture/portfolio_*.py`, `factor_risk_engine.py`, `unified_portfolio_validator.py`, `execution_cost_simulator.py`, ...) | balance, peak, open positions with their risk | settle, measure, survey the signals of a tick, allocate slices, scale by drawdown | ticks with exits and entries together, partial slices, absorbing halt, positions left open at the end | heat and bucket within their caps, every position settled once and on time, drawdown limited |
| Statistics over ledgers, downloads, analyzers, legacy kernel, dashboards | little or none | sequential | none that a model would add to | not modelled |

Engine, processor, forward-test scripts and dashboard meet in the file
`data/forward_testing_vault.db`; the bus joins socket readers to strategy and
database callbacks inside one asyncio loop; supervisor and paper engine meet in
the heartbeat file.

## 2. Plan

Done, in this order:

1. `LiveBook`, `ExecutionEngine`, `LiveBookWriters`; the engine proved, then the two
   writers together.
2. `EventBus` with the abstract `OrderedFeed`; its safety and the refinement proved.
3. `Supervisor`, its safety proved.
4. `TradeLoop` with one program per backtest (`CapitalPrograms`, `ResearchPrograms`);
   its invariants and action properties proved.
5. `Portfolio` with one desk per simulator (`PortfolioDesks`); its invariants and action
   properties proved.
6. `OrderRouter`, `AccountingCore`, `IntegrationHarness`, `LiveIngestor`; the safety of
   the first three proved.

Every invariant and every action property of a passing run is a theorem. What is left to
TLC is liveness (section 5).

One passing run per composition, a bound for every counter, and a violation run
only for a documented promise that the code does not keep.

## 3. The modules

### LiveBook and ExecutionEngine

`LiveBook` is the table: `book` is the sequence of rows (an id is a position,
rows are never deleted), and its operators are the queries and updates both
writers run: open rows, the sample of `calculate_adaptive_allocation_risk`, the
insert, the move of a stop. Prices are small positive integers, an R multiple is
an exact fraction; the `1e-8` in the processor's division is left out, so is
everything only printed or logged (`risk_alerts`).

`ExecutionEngine` is `AutonomousExecutionEngine`. `pc` names where the process
is between two database accesses, `turn` the asset, and `job` the locals a step
hands to the next:

| Action | Code |
|---|---|
| `StartCycle`, `StayFrozen`, `SleepMinute` | `run_engine_loop` |
| `NoData` | no candles after the retries, or too few |
| `ManageOpen` | the read of the open row and the choice of stop, target, trail or hold |
| `NoSignal`, `Signal` | the horizons do not agree / do; price, low and high of the candles |
| `CheckBounds` | `check_portfolio_bounds` and the reward/risk test |
| `Watchdog` | `detect_software_anomalies`: freeze, error or pass |
| `Enter`, `SettleExit`, `ExitRaises`, `Trail` | the write and its commit, or the exception that undoes it |
| `SeedWallet` | `initialize_wallet.py` |
| `Crash`, `Restart` | the process dies and somebody starts it again (nothing in the repository does; `docker-compose.yml` restarts another program); memory is lost, the tables stay |

The balance of the wallet is a product of settlements, so `wallet` keeps the
settlements (row, R, at half risk or not) rather than a rounded number. The
watchdog's second query compares `entry_time`, cut to whole seconds, with the
time a minute before; the model keeps four ages of an asset's newest row:
certainly inside the window, undecided, exactly one sleep old (undecided too,
because of the cut), certainly outside. The history variable `barred` holds, once the
engine is frozen, the assets that may not get a row any more: the one it was frozen at and
those entered since. Nothing else reads it.

### LiveBookWriters

Adds `LiveStateProcessor.process_live_candle_tick` as a second process. sqlite
begins the transaction at the first write, so the read that the decision rests
on is not protected: `TickManages` and `TickSignals` read and decide,
`TickWrites...` write and commit later, and the engine may act in between. `tick` is
what a call carries from the one to the other, and `WritersTypeOK` says of what type.

### EventBus and OrderedFeed

The three copies of the bus agree line for line. asyncio runs one coroutine until
it suspends, so `running` says who holds the loop: a publish goes from subscriber
to subscriber (`Offer`) without interruption until it finds a full backpressure
queue and sleeps (`Park`); when a sleep ends and there is room it continues
(`Resume`). `put_nowait` follows the test without an await, which is why the test
in a loop is enough. Workers: `Take` and `Finish` when the callback suspends;
`Work` when it does not (the database sinks), in which case the worker keeps the
loop until its queue is empty. Publishers: `ReceiveAndPublish` awaits each
publish (harnesses), `ReceiveAndSpawn` and `StartTask` start a task per frame
(`HighSpeedWebSocketConsumer`). `Shutdown` cancels the workers. The initial state
chooses the kind of publisher, so one run covers both.

`OrderedFeed` is what a subscriber may rely on: only received frames, none twice,
and, when publishes are awaited, in order and for a backpressure subscriber
without gaps.

### Supervisor

The heartbeat file is the only thing the daemon and the engine share. A pulse has
two steps, `PulseBegins` (opening for writing empties the file) and `PulseEnds`; the
engine may `Die` before, between and after them, alone or with its tmux session, and
its streams `Connect` and `Disconnect` on their own. After a start `Boot` may never
come: `bootstrap_memory` asks without a time limit.

The daemon looks when its sleep is over: `LookWhileQuiet`, `LookAtEmptyFile` (the
`ValueError` that is passed over), `LookNominal`, `StandDown`, or an attempt.
`BeginRecovery` is everything up to the three seconds of sleep, `CompleteRecovery`
the rest; `RecoveryFailsAtOnce` and `RecoveryFailsLate` are the exception in either
half, which counts the attempt but sets no time. The incident log is written between the
start of the engine and the setting of the time: when it raises, the engine runs and no quiet
time begins (`RecoveryUnlogged`), and a nominal look may fail in the same way before it
clears the counter. Time passes in `Clock`; the seconds
inside a recovery are shorter than its unit. Three history variables say what really
happened: recoveries begun since the last pulse, the time since the daemon last
started an engine, and whether that start could be logged. The file is there from the beginning, as it is part of the repository.

### TradeLoop, CapitalPrograms and ResearchPrograms

Every backtest writes out the same loop again; they differ in the order of its steps.
A *program* is what one script does in a bar: the steps before it looks at the position
(`opening`), those of a bar that begins with a position (`holding`) and without one
(`idle`), the conditions of an entry, how rows of the higher timeframes are labelled, and
which rows its report counts. `Init` picks a program, `NextBar` loads its steps into
`todo`, and each action is one step:

| Action | Code (`vNext_institutional_volatility_master.py`, unless named) |
|---|---|
| `NextBar` | `for i in range(...)`; the bar may lie anywhere, also away from the close before it (`bar.from`) |
| `Filter` | a condition that sends the bar to `continue` |
| `ScaleOut` | half of the position at two risks, stop behind the entry |
| `StopOut`, `TakeProfit` | the stop, then the target |
| `TrailOut` | v3: low at or below the average of a higher timeframe |
| `RaiseStop` | `vNext_institutional_master_matrix.py`: stop at the last swing |
| `Untouched` | the exit is not reached |
| `Measure` | peak and drawdown |
| `Enter`, `NoEntry` | a signal whose stop and target pass the script's conditions, or none |
| `Advance`, `Reset` | `_tick_state_machine` of `core_vNext/strategy/unified_strategy.py` |

Prices are ticks from the entry in the direction of the position, so LONG and SHORT
branches are one. Position sizes are left out: capital is counted in ticks of two halves.
Fee and slippage of a fill are one amount, and the small buffer of the break-even stop is
one tick. What the indicators say is a choice of the environment. `LastRow` is the row that
`searchsorted` finds for an entry bar, where both frames are labelled with their open or both
with their close, and `Ahead` how many entry bars are still to come before the last row that is
used is complete, after `shift` and the rows a pivot waits for. pandas labels weekly and monthly
rows with their last day, whatever the others are labelled with; the slowest style, which uses
them, is modelled with the labels of the intraday frames.

### Portfolio and PortfolioDesks

A *desk* is one simulator over a ledger of finished trades: whether its clock ticks at
entries, at entries and exits, or not at all (`Replay`); what limits the risk of new
positions (heat cap, factor bucket, nothing); the risk scale of each drawdown tier; and
when it measures the drawdown. `NextTick`, `Settle`, `Survey`, `Allocate`, `PassOver` and
`EndTick` are the parts of one pass of the event loop in its order: close what is due,
measure, collect the signals of the tick, give each its slice by priority. The equal
priorities of two signals are resolved either way. `current_heat` is kept as a variable,
and `HeatCapped` says that it is the sum the code computes. Money and drawdown are
rounded down to units and basis points.

### OrderRouter

A signal is checked and counted before the first await (`Route`), then awaits the clock
(`Post`) and the order (`Answer`, `Fail`). The exchange is the environment: it may accept,
reject or fill an order, also after the broker has given up on the answer. The panic
switch (`CallPurge`, `CancelAll`, `PurgeAnswered`, `PurgeFails`) is called when no route is
under way, as in `run_router_gauntlet`; there the signals are awaited one by one, here any
number may be under way.

### AccountingCore

`tables` are the tables as the open transaction sees them, `stored` the committed ones. A
fill is `Journal`, `Reposition`, `Deduct`, `Commit`; `Rollback` is an exception (a lock
held by another program), `Die` the death of the process. The average entry price is kept
as what the position has cost. A SELL goes from the journal to the commit, as in the code.

### IntegrationHarness

One tick through coordinator, kill switch and order table, each on a database connection
of its own: `PublishTick`, `Coordinate`, `InspectHealth`, `StoreOrder`, `CountOrder`. Other
programs log critical events and open positions in between (`LogCritical`,
`OpenPosition`), a locked vault raises (`CallbackRaises`) and the bus goes on, the process
dies (`Sever`) and comes back (`Reboot`). Time is in seconds, the resolution of order ids.

### LiveIngestor

`start_ingestion_pipeline` with its producer and worker. An action is what a task does
between two awaits that suspend it: the worker's write is synchronous, so once woken it
empties the queue (`Drain`) before any timer of the producer can fire. `Cancel` clears
`is_running`, then `join` waits for the packets not yet marked.

`MCServices` runs these four beside each other as alternatives: they share no state, and a
behaviour is one of each kind, chosen in its first state.

## 4. The runs

| Run | Checks | Bounds |
|---|---|---|
| `execution_engine` | `TypeOK`; `ExposureBounded`; `WalletMatchesBook`; `HalvedAfterLosses`; `StopsOnlyRise`; `FrozenEntersOnce` | 3 assets of which 2 crypto, prices 1..4, 3 rows, 1 crash, 2 slots, 1 crypto slot, sample of 2, ratio 2 |
| `live_book_writers` | `WritersTypeOK`; `NeverPaidTwice`; `ClosedIsFinal` | 1 asset, 2 rows, 1 crash |
| `event_bus` | `TypeOK`; `QueuesBounded`; `Accounted`; `RecentKept`; `FeedsImplemented`; `EverythingSettled` | 2 subscribers, queues of 2, 6 frames |
| `supervisor` | `TypeOK`; `BreakerHolds`; `RestartsAreSpaced`; `ReadableDeathHandled` | thresholds of the code in units of 5 s, 3 attempts, 2 symbols |
| `bar_engine` | `TypeOK`; `Bracketed`; `Reported`; `FillsArePassed`; `StopsOnlyTighten`; `LossesAreBounded`; `DrawdownKnown`; `FreshSetup` | 34 programs, prices -2..5, stops -2..1, targets -4 and 4, ratio 1, bars of at most 5 ticks, 2 positions |
| `portfolio` | `TypeOK`; `HeatCapped`; `BucketShared`; `DrawdownLimited`; `EverythingSettled`; `LastResultMeasured`; `HaltIsFinal`; `SettledOnTime` | 11 desks, every ledger of 4 trades within 4 ticks that 3 assets can make |
| `services` | `OrdersKnown`; `LedgerAgrees`; `OrdersRecovered`; `ShutdownCompletes` | router: 5 signals, 2 slots; accounting: 4 fills, 3 crashes; harness: 3 seconds, 2 errors, 2 reboots; ingestor: queue of 3, 4 packets, 2 sessions |
| `death_is_handled` | violated: an engine that dies in the middle of a pulse is never restarted | as `supervisor` |
| `profit_booked_as_loss` | violated: a stop above the entry is settled at -1 R | as `execution_engine` |
| `duplicate_shield` | violated: two open rows of one asset | as `live_book_writers` |
| `lookahead_free` | violated: an entry rests on a row of the higher timeframe that is still in progress | as `bar_engine`, with the 2 programs that claim it, ratio 3 |
| `subscriber_isolation` | violated: a strategy callback that hangs starves the database | as `event_bus` |

Why the bounds are enough. The code has three assets, all USDT, six slots, three
crypto slots, a sample of five and a ratio of four; with three assets, one row
each, none of its caps can bind unless something else writes the table, so the
runs use caps of two and one, which do bind, and an asset outside crypto. Three
rows let an asset be closed and entered again, fill the sample of two and settle
one more trade after it. Prices 1 to 4 contain a stop, an entry, a target at twice
the risk and a stop trailed above the entry. The engine has no recovery of its own: a restart
starts the loop on the tables as they are and forgets the freeze, so a second crash adds
no step that the first one does not have. For the bus, six frames fill both queues of two,
put one frame in the strategy's callback and leave publishes asleep; two or more
sleepers on one queue occur with a task per frame.

`MaxRows`, `MaxCrashes` and `MaxFrames` bound only the model; when the rows are used
up `BookFull` goes on to the next asset, so the engine's other behaviour continues.
The bus run switches deadlock detection off: the bus really stops after `Shutdown`,
and the model when its frames are used up; `EverythingSettled` is what excludes a
publish that sleeps forever.

The supervisor needs no bound of its own: ages stop where the code no longer tells them
apart, and the thresholds 5, 10, 45 and 60 s are kept exactly.

The bar loop: at a risk of two ticks the scale-out lies at four, with a bar of five a scale-out,
a raised stop and its touch fit in one bar; the targets are the four risks of the scripts
for a risk of one. Stops at 0 and 1 and a target of -4 are what the scripts accept that only
compare distances. The second position shows what the first leaves behind (setup, peak,
drawdown). Any bar may follow any other, so a bar may open beyond a stop, a target or the
scale-out. No property of this run reads `ahead`, so one entry bar to a row is enough there;
`lookahead_free` has three, one at the beginning, one within and one at the end of a row.

The simulators: a slot of 20% and a heat cap of 25% replace 1% and 6%. With the shipped
figures and three assets the cap never binds; here two positions reach it with a partial
slice, and two losing trades reach the drawdown tiers and the halt. Multiples -1 and 2 are a
loss and a win; four ticks let exits and entries share one.

The services: five signals of which four buys and one too large for two slots; two fills of
one symbol, one of another and a sale; ids collide when two ticks share a second; a queue
of three below four packets.

Fairness appears in three components. For the ingestor: a woken worker is run, and `join`
returns when nothing is unfinished, which is what the asyncio loop does with ready tasks. For the supervisor: time passes and the daemon's
loop goes on, which is what `while True` with sleeps does as long as the daemon lives;
nothing is asked of the engine. For the bus: weak fairness of every publish that is ready
or finds room after its sleep, and of every worker. asyncio runs ready coroutines in
turn and a sleep of a millisecond ends; that a callback returns is an assumption
about the callbacks, which the run `subscriber_isolation` drops for the strategy. The
other runs assume none, their properties are safety properties.

## 5. What is proved

Each theorem holds for every value of the constants that the named assumption admits; TLC
evaluates the assumption in the runs.

`ExecutionEngineProofs`, for any assets, order, prices, caps, sample size and number of
crashes (`LiveBookAssumption`, `EngineAssumption`), and `LiveBookWritersProofs`, the same
with the processor as a second writer:

| Theorem | Statement |
|---|---|
| `ExecutionEngineProofs!TypeCorrect` | `Spec => []TypeOK` |
| `ExposureIsBounded` | `Spec => []ExposureBounded` |
| `WalletIsExact` | `Spec => []WalletMatchesBook` |
| `HalvingIsEarned` | `Spec => []HalvedAfterLosses` |
| `StopsRise` | `Spec => StopsOnlyRise` |
| `FreezeBoundsEntries` | `Spec => FrozenEntersOnce` |
| `WritersTypeCorrect` | `WritersSpec => []WritersTypeOK` |
| `PaidOnce` | `WritersSpec => []NeverPaidTwice` |
| `ClosedStaysClosed` | `WritersSpec => ClosedIsFinal` |

`EventBusProofs`, for any subscribers, policies, ceiling, publishers and number of
frames (`BusAssumption`), and `SupervisorProofs`, for any thresholds, symbols and
number of attempts (`SupervisorAssumption`):

| Theorem | Statement |
|---|---|
| `BusTypeCorrect` | `Spec => []TypeOK` |
| `QueueFullNeverRaised` | `Spec => []QueuesBounded` |
| `NothingLostOrDoubled` | `Spec => []Accounted` |
| `OnlyTheOldestDropped` | `Spec => []RecentKept` |
| `BusImplementsFeed` | `Spec => Feed(s)!Spec` for every subscriber `s` |
| `SupervisorTypeCorrect` | `Spec => []TypeOK` |
| `BreakerNotCheated` | `Spec => []BreakerHolds` |
| `QuietTimeKept` | `Spec => RestartsAreSpaced` |

`TradeLoopProofs`, for any programs, prices, stops, targets and ratio of the frames
(`TradeLoopAssumption`), and `PortfolioProofs`, for any finite ledgers, desks, slots and caps
(`PortfolioAssumption`):

| Theorem | Statement |
|---|---|
| `TradeLoopProofs!TypeCorrect` | `Spec => []TypeOK` |
| `ExitsAreHonoured` | `Spec => []Bracketed` |
| `FillsAreInReach` | `Spec => FillsArePassed` |
| `ReportIsTrue` | `Spec => []Reported` |
| `StopsTighten` | `Spec => StopsOnlyTighten` |
| `LossesBounded` | `Spec => LossesAreBounded` |
| `DrawdownIsKnown` | `Spec => DrawdownKnown` |
| `SetupsAreFresh` | `Spec => FreshSetup` |
| `PortfolioProofs!TypeCorrect` | `Spec => []TypeOK` |
| `OpenRiskIsCapped` | `Spec => []HeatCapped` |
| `BucketIsShared` | `Spec => []BucketShared` |
| `DrawdownIsLimited` | `Spec => []DrawdownLimited` |
| `LastResultCounts` | `Spec => []LastResultMeasured` |
| `NothingLeftOpen` | `Spec => []EverythingSettled` |
| `ExitsAreOnTime` | `Spec => SettledOnTime` |
| `HaltIsForGood` | `Spec => HaltIsFinal` |

`ServicesProofs`, for any signals, fills, instruments and bounds (`RouterAssumption`,
`LedgerAssumption`, `HarnessAssumption`):

| Theorem | Statement |
|---|---|
| `ExposureIsKnown` | `RouterSpec => []OrdersKnown` |
| `BookedWhole` | `LedgerSpec => FillsAreAtomic` |
| `LedgerAgreesWithJournal` | `LedgerSpec => []LedgerAgrees` |
| `RecoveryIsExact` | `HarnessSpec => []OrdersRecovered` |

`FiniteSums` holds what several of them share: a non-empty set of naturals has a least element
(the row a query returns first), and a sum over a finite set gains a term, loses one, is
monotone and keeps proportions. The sums of the community modules are defined by recursion
over a chosen order of the set. The library's induction theorem takes a predicate as a
parameter, which the provers cannot instantiate; `SubsetInduction` takes a set of subsets
instead, and follows from the well-foundedness of strict inclusion.

### The engine and the second writer

`ExposureBounded` and `WalletMatchesBook` are not inductive: the insert happens two
steps after the check, and the settlement one step after the read. `JobFits` adds
what a local still means when it is used: the row a write is about is open and belongs
to the visited asset, a new stop is above the row's, and the bounds that let an entry
through still hold at the insert. `IInv` is the conjunction of `TypeOK`, `JobFits` and
the two invariants, and `StepKeepsIInv` goes through the actions. It rests on three
lemmas about the updates of the table (`InsertEffect`, `CloseEffect`, `StopEffect`)
that say which ids are open or closed afterwards. `HalvingIsEarned` maps the sample
of closed losing rows injectively to earlier settlements, by `WalletMatchesBook`.

`FrozenEntersOnce` needs the order of the visits: in a frozen engine every barred asset lies
behind the next visit (`BarredBehind`), because the loop goes through the assets once and looks at
the flag before it begins again. `AssetOrder` names no asset twice (`EngineAssumption`).

With a second writer `JobFits` is false, and so is `ExposureBounded` (`duplicate_shield`): the
row may be closed, or another opened, between a read and its write. `WInv` keeps what is left.
The engine carries the id of a row in the book that no exit has settled (`EngineCarries`:
only the engine settles, and it reads open rows), the processor the id of a row or an entry above its stop
(`ProcessorCarries`), and every row was entered above its stop (`RowsPriced`, without which an R
multiple has no denominator). No write of either process sets a row back to `OPEN`, however
stale its read.

### The bus and the supervisor

The bus's `TypeOK` and `QueuesBounded` are inductive together: `put_nowait` follows the
test of the queue in the same step, after a sleep too. `BusInv` adds, for each subscriber, that
queue, callback, handled and dropped frames are those offered to it, each once, and for awaited
publishes that they are consecutive (`ContiguousOf`): what is queued runs without gaps up to the
newest frame offered. That is why the oldest frame of a full queue is `Ceiling` older than the one
that replaces it (`OnlyTheOldestDropped`). For the refinement, each step is mapped to a `Receive`,
a `Give` of the frame whose callback is done, or a stutter. `Work` takes a frame and is done with it in one
step. TLC checks the same for the two subscribers of the harness (`FeedsImplemented`).

`BreakerHolds` needs the invariant that a recovery since the last pulse means a pulse too
old (`FruitlessIsStale`): the counter is cleared only at a fresh pulse, and then nothing
is fruitless. `QuietIsCounted` identifies `last_recovery_time` with the real start when the start
was logged; after one that was not, the daemon's own sleep is all that is counted.

### The backtests

`Bracketed` speaks of the time between bars, but what keeps it happens within one: `StepsInOrder`
(what is left of a bar still has the stop after a scale-out, and nothing is opened while an exit
is due) and `Guarded` (an exit that is no longer due has been compared with this bar, and one that
is due lies within what the market passed since the close before, `Lowest` and `Highest`). Nothing
is asked of the market. `FillsArePassed` follows because a price that was on the far side of the
last close and is touched now was passed in this bar: inside it, or in the gap before it.

What a trade earned rests on `Ledger`: the steps left of a bar with a position hold no entry
(`Placed`), and a position knows what it has booked (`Staked`). Whole, it has booked nothing and
its stop is at most its risk away; halved, it has booked two risks less a fee and its stop lies
behind the entry. `StopsTighten` and `LossesBounded` are read off a step from there.
`DrawdownIsKnown` needs `Audited`: in the bars of a position, either the first step measures or
the last one does and none before it leaves the bar. `SetupsAreFresh` needs `Forming`: in bars
without a position the phase never runs ahead of the bars counted since the exit, because
`Advance` comes after `Enter` and once.

`TradeLoopAssumption` says of the scripts what these proofs use of them, and each conjunct can be
read from the lists of steps in `CapitalPrograms` and `ResearchPrograms`, on which TLC evaluates it:
the break-even buffer is within one risk; managing and entering are never in the same bar (`HoldsOrEnters`); a ledger of multiples never
sells half, only such a ledger exits at an average, and a script with a buffer does not raise its
stop otherwise (`BooksOneWay`); the place of `Measure` and `Advance` (`MeasuresEachBar`, `AdvancesOnce`); and where the
script compares the side of the target, that is at least one risk away and the fee is at most a
risk (a stop is at least 0.6% away, a fill costs 0.06%).

### The simulators

`Timely` (an open position's exit lies ahead once the tick's closings are over) and `Surveyed`
(during the allocation, heat and what is available add up to the cap, and the drawdown is that
of the present balance) stand beside `HeatWithin` and the types. `HaltIsForGood`
shows that the halted state is closed under every action.

`HeatSummed` says that `current_heat`, which the code adds up anew at each tick, is the sum over the
open positions through every settlement and allocation. `Sharing` follows the division of a
bucket: what is left is enough for the candidates that are left, and those that got theirs got
the same. `Measured` keeps `max_dd` at or above the drawdown of the balance outside the
settlements.

`DrawdownIsLimited` counts every stake as if it were lost (`Cushion`): the balance less the open
stakes stays within 25% and `AtRisk` of the peak, where `AtRisk` is the heat cap, or one trade
and its costs in a replay. A loss then moves an amount from one side to the other, and an
allocation is only made below 25%. The amounts are rounded down as in the model, and the bound
accounts for that. `PortfolioAssumption` adds for these that the ledger is finite, a trade ends
after it begins and loses at most its risk (the multiple is at least -1, as the ledgers of the
loops have it), the initial balance is positive, a desk that replays has no limit, and one that halts
has the heat limit or replays.

### The services

For the router, the slots taken are exactly the counted buys (`Slots`), an order is at the
exchange only after it was posted (`Posted`), and a purge finds no route under way (`Wiped`).
For the accounting core, `Progress` says what the open transaction has written at each step;
`FillsAreAtomic` follows from it, and `LedgerAgrees` by adding one term to the sums with each
committed buy.

### Only model-checked

Liveness: the bus's `EverythingSettled`, `ReadableDeathHandled` and `ShutdownCompletes`, whose
fairness is out of the prover's reach. `LiveIngestor` has no other property. The counterexamples of the
violation runs are TLC's as well. That the scripts and desks of the repository are those of
`CapitalPrograms`, `ResearchPrograms` and `PortfolioDesks` is not a matter of proof: the
theorems hold for any others that meet the assumptions.

## 6. Not modelled

- Indicator arithmetic, position sizes, downloads, formatting, dashboards, and the statistics
  that scripts print about a finished ledger.
- The paper broker and the journal, because `live_paper_engine.py` asks for the columns
  `regime`, `Swing_High` and `Swing_Low` (lines 127 to 133), the detectors produce
  `Regime_Status` and `Sweep_Event`, and so the score is at most 45 of the 70 it needs: no
  order is ever placed. In the same way `historical_replay_engine.py` hands the score a ratio
  but not the key `displacement`, so that it stays at 35 or less and the clearance ledger of
  `master_orchestrator.py` is never asked.
- `PortfolioHeatGovernor`: `register_position` is never called, its heat is always zero. The daily
  equity it starts from is that of the first request of the day. `live_execution_daemon.py`
  never opens a trade.
- The first-generation stack (`backtesting`, `strategy`, `filters`): `core/interfaces/contracts.py`
  no longer defines the names they import; `core/main.py` does not import either. The testers
  under `backtests/` wait for a column `Trade_Authorized` that nothing makes.
- The forward tester (`v3_architecture/forward_testing_engine.py`), which looks at the newest bar and
  records nothing, and the older test-net brokers, which place one order and print the answer.

## 7. Observations

What the models make visible and no run claims to be wrong:

- Every `vNext` and `simulate_*` script labels the rows of its higher timeframes with their
  opening time, so an entry can rest on up to `Ratio - 1` bars that are still to come; the run
  `lookahead_free` shows it for the two that say otherwise. v2 and v3 label with the close.
- Exits are booked at the stop or the target also when a bar opens beyond it, at a price nobody
  traded. `data/BTC_USDT_1h.csv` has such bars: line 27 closes at 44926.3 and the low of line 28
  is 44926.5; line 254 closes at 47451.1 and the high of line 255 is 47451.0.
- A freeze lets the cycle it happens in run on: each asset that is still to be visited can be
  entered once (`FrozenEntersOnce`). `system_frozen` lives in memory, so a restart lifts it.
- When the supervisor cannot write its incident log after a start, no quiet time begins, and the
  next look, 10 s later, may interrupt an engine that is still loading (`RestartsAreSpaced`).
- Scripts that take stop and target from the last swings compare only distances: a stop above
  or a target below the entry of a LONG is accepted. `Managed` leaves them out of `Bracketed`.
- The exit at the average (v3) can be booked at a price above the bar. The diagnostic suite
  skips the exits of ETH and SOL in a quiet bar.
- Reports that count rows count a partial exit as a trade; one that counts exits calls a
  break-even exit that does not pay its fee a loss although the position gained. A position
  open at the end of the data is never booked. A drawdown measured before the exits misses
  the last result.
- `portfolio_scheduler.py`, `portfolio_event_engine.py` and `loss_cluster_analyzer.py` multiply the
  drawdown tier, which is itself a risk of 0.75% to 0.25%, with a slot of 1%
  (`Suffocating`); the firewall and the validator use the tier as the risk. The scheduler
  settles a position only at the next entry.
- `risk_router.py`: nothing lowers the count of positions and nothing sets the cooldown.
- `emergency_kill_switch.py`: the row `SYSTEM_HALT` is never read again, a halt lapses with the
  minute it looked at. No step of the pipeline inserts a position, so the ceiling of the
  coordinator binds only for positions of other programs.
- `live_data_ingestor.py`: the worker empties the queue before the producer's next timer, so
  the queue never holds more than one packet and its ceiling is never reached.
