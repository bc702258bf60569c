# A TLA+ model of autr-back

autr-back is an automated trading system for a few symbols on Bybit. Several
Python processes, each in a container of its own, share Redis (queues, locks,
flags, heartbeats), a database (trades, positions, candles) and one exchange
account. This directory holds TLA+ modules translated from that code, the TLC
configurations that check them on small instances, and TLAPS proofs that every
safety property these runs check holds for all values of the constants.

Paths below are relative to the package, `src/autr/` of the repository, unless
they begin with `docs/`.

## 1. The system

| component | code | state it keeps | operations | talks to |
|---|---|---|---|---|
| Collector | `services/run_collector.py`, `services/collector.py`, `infra/db/quant_store.py` | candles in the quant store; one thread per symbol | a collection cycle, then one tick per symbol, and again | Bybit (public), quant store, `queue:ticks:<symbol>` |
| Strategy consumer | `services/run_strategy_consumer.py`, `strategies/*`, `domain/regime.py` | in memory: strategy, trailing stop, `in_position`, `bars_since_trade` | pop a tick, follow strategy changes, decide, push a signal, switch automatically | ticks, quant store, Redis flags, `queue:signals`, positions table at start |
| Executor | `services/run_executor_consumer.py`, `services/executor.py`, `domain/reconcile.py` | none between signals; lock and `processed:<id>` keys in Redis; trades and positions in the database | `execute_buy`, `execute_sell`, `reconcile` at start and every idle interval | `queue:signals`, exchange, database, notifier |
| Position state machine | `domain/state_machine.py` | a `PositionState` | `transition` | imported by the executor, never called |
| Bybit client | `infra/bybit/client.py` | none | orders, balances, positions, prices; every call through a retrying `_call` | the exchange |
| Redis adapter | `infra/redis.py`, `infra/queue_keys.py` | keys, lists, expiry times | push, pop, lock, mark, heartbeat | all processes |
| Trade tracker DB | `infra/db/*` | trades, positions, snapshots, signal logs | insert, open, close, list | executor, API |
| Trading API | `api/routes/trading.py` | none of its own | start and stop, strategy change, manual orders and positions, parameters | Redis flags, database, exchange |
| Position service | `services/position_service.py` | positions table | open, close, update prices, auto-close | exchange, database, without the symbol lock |
| Strategy settings | `services/strategy.py`, `strategies/strategy_params.py`, `ops/lifecycle.py` | the API's own strategy object; presets table | start-up and seeding, update parameters, save a preset; the request to change the symbol, which fails | database |
| Funding arbitrage | `services/run_funding_arb.py`, `services/funding_arb_executor.py`, `strategies/funding_arb_strategy.py` | none between cycles; both legs live on the exchange | `_cycle`: ticker, status, decide, open or close a pair | exchange, Redis |
| Watchdog, heartbeats | `services/run_watchdog.py`, `ops/heartbeat.py` | when each silent service was last reported | check heartbeats, notify | Redis, notifier |

How they interact: the collector pushes ticks; the strategy consumer pops
them and pushes signals; the executor pops signals and trades. The API steers
all of them only through Redis keys, read at the consumer's leisure. Nothing
flows back: the strategy is never told what became of a signal. Both Redis
lists are bounded and lose their oldest entries, a popped entry is gone before
it has been handled, and the exchange account is shared by the executor, the
API and the arbitrage.

What is hard here:

- every `await` is a point where another process, or the API, may act;
- a container may die between an accepted order and the record of it;
- `_call` sends an order again after a timeout without an id by which the
  exchange could tell that it is the same order;
- the locks expire (10 s and 15 s) whatever their owner is doing, and are
  deleted without asking who set them;
- many failures are swallowed and answered with a value that reads as a fact: a
  balance of 0, no position, a price of 0;
- what one step read is used several awaits later;
- `asyncio.gather` gives up at the first exception and leaves the other
  collection threads running into later cycles;
- the same fact is kept twice: a candle in two stores with different insert
  rules, a profit in the trades and in the positions (legal calls part the two,
  see section 4), parameters in an object and in a table.

What makes the parts correct:

- *Executor*: at most one open row per symbol; no order for a processed id;
  marks, trades and orders never run ahead of each other; one process at a time
  in a critical section; locks do not stay set; the table comes to agree with
  the account whatever failed.
- *Strategy*: a trailing stop only rises and is acted on; no signals while
  trading is stopped; `in_position` is what was last pushed; API requests are
  heard.
- *Arbitrage*: an opening with a refused leg leaves nothing; the short exceeds
  its spot leg at most by what accepted orders left unfilled; never more than one
  lot of it; danger closes the pair.
- *Position service*: a position is sold once, and rows opened by hand coexist
  with those of the executor and of reconciliation; a closed position keeps its
  price and profit; automatic closing decides by the price it has just read, or
  by age.
- *Strategy settings*: an acknowledged parameter or preset is in the table, and
  a start with the object's symbol would build what is in use.
- *Collector*: ticks catch up with the exchange after any failure, and closed
  candles are stored as they closed.
- *Watchdog*: a service that stays silent is reported and stays reported, and
  its recovery is reported too.

`PROJECT.json` lists these hazards at their lines, under `hazards`, with the
properties that cover them.

## 2. Modules

| module | models | lines to read first |
|---|---|---|
| `PositionLifecycle` | the promise: the four-state machine of `domain/state_machine.py`, widened by the two corrections of `reconcile` and by the sale of a balance no row stands for | `Next` |
| `Executor` | the order path of one symbol, any number of executor processes | `Execute`, `Reconcile`, `Environment` |
| `MCExecutor` | `Executor` on small instances | |
| `ExecutorProofs` | theorems about `Executor`, its refinement of `PositionLifecycle` among them | the `THEOREM`s, `RowInv` |
| `SumTheorems` | no code: what the sums of the community modules compute | `SumRemove` |
| `StrategyConsumer` | the strategy process, the four `decide()` methods, the API's switches, the collector's ticks | `Process` |
| `MCStrategyConsumer` | `StrategyConsumer` on small instances | |
| `StrategyConsumerProofs` | theorems about `StrategyConsumer` | `DecisionInv` |
| `FundingArb` | the arbitrage loop and its two sagas | `Cycle`, `Order` |
| `FundingArbProofs` | theorems about `FundingArb` | `LegsInv` |
| `PositionService` | the API's orders, openings, closings and automatic closing, composed with `Executor`, whose account and table they share | `Serve`, `Beside` |
| `MCPositionService` | `PositionService` on a small instance | |
| `PositionServiceProofs` | theorems about `PositionService`, and the executor's own next to the requests | `SoldInv`, `ApartStep` |
| `PositionMarks` | prices in the positions table: repricing, closing by request and by criteria, the executor's sale and reconciliation | `MarkRow`, `Criteria`, `CloseRow` |
| `MCPositionMarks` | `PositionMarks` on a small instance, with symmetry | |
| `PositionMarksProofs` | theorems about `PositionMarks` | `HeldInv`, `AloneInv`, `QuoteInv` |
| `StrategySettings` | the API's strategy object, the presets behind it, and the requests that change either or should | `UpdateParams`, `Store`, `Startup` |
| `MCStrategySettings` | `StrategySettings` on a small instance | |
| `StrategySettingsProofs` | theorems about `StrategySettings` | `SyncInv` |
| `Collector` | the collection cycle, its threads and the two candle stores | `CollectSymbol`, `Main` |
| `Watchdog` | the heartbeat checks, alerts and recoveries | `CheckOnce` |
| `Pipeline` | `Collector` and `Watchdog` composed through the heartbeat keys | `PipelineNext` |
| `MCPipeline` | `Pipeline` on a small instance | |
| `PipelineProofs` | theorems about `Pipeline` | `ThreadInv`, `StoreInv` |

In all of them an action is the code between two awaits that touch something
another actor can see, and `pc` names the await a process is at. Definitions
named `...Bug` are one-mistake versions of the definition that follows them.
They belong to no specification; `PROJECT.json` names the property each one
breaks, which shows that the property can fail.

### Executor

Redis: `queue` (`queue:signals`, oldest first), `processed`, `lock`. The code
stores "1" under the lock key; the model stores who set it so that properties
can speak of an owner, and `DeleteLock` never looks. Database: `ledger` (ids
recorded by `add_trade`), `rows` (open rows of `positions`). Exchange: `held`,
the base balance, and `orders`, the number of accepted orders per signal.
Per process: `cur` the signal in hand, `qty` the quantity or balance it works
with, `tries` the attempts of `_call`, `snap` the rows it has read.

| action | code |
|---|---|
| `PopSignal`, `PopTimeout`, `Restart` | the loop of `run` and its reconciliations; a popped signal is lost if the following calls raise |
| `AcquireLock` ... `ReleaseLock` | `execute_buy` and `execute_sell`, await by await |
| `SizeOrder`, `OrderAnswered`, `OrderRejected`, `OrderTimedOut` | `calculate_safe_order_size`, `place_order`, `_call`, `_get_filled_qty` |
| `ReconcileBalance` ... `ReconcileCreate` | `Executor.reconcile`; the notifier call before the repair can raise and ends it |
| `Publish`, `Redeliver`, `OutsideTrade`, `Crash`, `ExpireLock` | the strategy, a repeated push, trades by hand, a dead container, the TTL |

Quantities are integers. The price is constant, so a quantity stands for its
value, and `MinOrder` is both the smallest order and the dust threshold of
`reconcile`. `faults` counts crashes, failed calls, lost answers and outside
trades; `MaxFaults` bounds them together, so they come in every mix.

### StrategyConsumer

Redis: `enabled`, `auto`, `active` and the length of the tick list; `newest` is
the side of the last pushed signal. `close` is the latest candle's close.
Process: `strategy`, `stop`, `inPos`, `bars`, and the locals of the tick in
hand. The indicators of a tick are a free choice between "entry", "exit" and
"neither"; what the engines add of their own, the stop and the cooldown, is
computed. Two of the four engines are in the instance: `dual_timeframe` has the
stop and exit rules of `regime_trend`, and `breakout_volume` is
`regime_trend` without an exit by indicator, a subset of its behaviours.

`wasOn` is a history variable for `QuietWhenStopped`.

### FundingArb

`perp` and `spot` are the two legs on the exchange, `seen` what the cycle read
before it asked for the status, `size` the quantity of a close. Funding is one
of three ranges cut by the two thresholds; basis and margin are beyond their
limits or not. `Order` is one order through `_call`: it is accepted and answered,
is refused, or loses answers and is then executed any number of times up to the
attempts, reported as success or failure. An accepted order is a success
whatever it fills (`Filled`), down to nothing; the history variable `unfilled`
adds up what accepted orders left. `mishaps` counts each kind of failure
separately, a partial fill being one of them, because the properties say which
kinds they survive. All openings use the same `Lot`, since `_calc_qty` depends
only on the price.

`DrainSpot` is the executor on the same account: `execute_sell` sells the whole
base balance, the spot leg of the arbitrage with it.

### PositionService

`PositionService` extends `Executor`: the two share `held`, `rows` and the
failure count, and `Beside` lets every step of `Executor` happen with the
requests unchanged. Added state: `paper` (`PAPER_TRADING` of the API process)
and, per request, `call`, which holds the operation, the row in hand, its
quantity and the rows still to close.

| action | code |
|---|---|
| `ManualOrder`, `OpenPosition`, `CloseOne`, `AutoClose` | `POST /order`, `/positions/open`, `/positions/close`, `/positions/auto-close` up to their first await |
| `PickRow` | `get_position_by_id` and the two early returns of `close_position` |
| `CallAnswered`, `CallRefused`, `CallTimedOut` | `place_order` through the retrying `_call`; the service books what it asked for, not what was filled |
| `Book` | `add_trade` with `create_position` or `TradeTrackerDB.close_position` |
| `ApiCrash` | the API process dies with all its requests |

`sold` and `call[..].shared` are history variables: the rows a close request has
sold, and whether two requests held one row at the same time. Rows are numbered
and a new row takes the least number nobody remembers (`FreshOnly`), which
stands for a fresh uuid without telling apart states that differ by it.

### PositionMarks

The same table seen from the other side: `PositionService` follows quantities
and orders at a constant price, `PositionMarks` follows prices at a constant
quantity. A handler is a request of the API, a sale of the executor or one of its
reconciliations. `rows` holds status, entry price, `dollar_amount` (`cost`), current
price and whether the row has reached `max_days_open` (`old`). Entry price and cost
need not be equal: a live `open_position` takes the market's price and keeps the
client's amount. Profit and percentage are functions of these, so they are
computed, not stored; percentages are compared without dividing. The trades
table is left out.

| action | code |
|---|---|
| `Refresh`, `ReadPrice`, `SelectOpen`, `MarkRow` | `/positions/update-prices` and the first half of `/positions/auto-close`; `get_current_price` answers 0 for an error; PostgreSQL commits row by row |
| `Criteria`, `PickRow`, `ReadPrice`, `Trade`, `CloseRow` | `auto_close_positions_by_criteria`, by loss, profit or age as asked, and `close_position`, whose tracker looks at the row once more before its `UPDATE ... WHERE id` |
| `CloseOne` | `/positions/close`, at the market's price or at one the client gives |
| `Sell`, `Sale`, `SelectRows`, `PickRow`, `CloseRow` | `execute_sell`: an order, then every row that is open by then is closed whole, whatever the order filled |
| `Reconcile`, `ReadPrice`, `SelectRows`, `Decide`, `PickRow`, `CloseRow`, `Insert` | `reconcile`: nothing, or close every row it read, enter the balance as one, or both |
| `Open`, `GrowsOld`, `PriceMoves` | `create_position` by executor or service, the days, the market |
| `Fails` | a call of any of them raises |

`call[..].alone` and `call[..].fresh` are history: no other handler at any time so
far, and the rows selected carry the quote.

### StrategySettings

| variable | in the code |
|---|---|
| `object` | `app.state.trading_strategy`: its symbol and its parameters |
| `presets` | table `strategy_presets`, the rows of the object's strategy |
| `call` | the requests under way; `body` is the row to be written |
| `told`, `stale` | history |

`UpdateParams` is `POST /trading/params` up to its `await`: the object has
changed when `Store` saves it. `SavePreset` and `Store` are `POST
/trading/presets/...`. `ChangeSymbol`, `Load` and `Replace` are `POST
/trading/symbol`, which never gets further: `change_symbol` calls
`build_strategy` without its `trade_tracker_db`, so `Replace` ends the request
with an error and the object stays (section 4). `Startup` is `on_startup`: seed,
then load the preset of `STRATEGY_SYMBOL`. A preset is a partial function, and
keys no parameter has are stored but skipped when it is applied (`Merge`).
Conversion of values, and the requests refused with 422, change nothing and are
left out. An update may name any symbol, which the code does not validate; one
that is not supported would make a row nobody loads. An update and the start of
the process are the only ways the object's symbol changes.

`told` is what the answer to the last request about a symbol said its row is, and
is given up when requests overlap or one fails. `stale` says that the object may
differ from its row: after an overlap, after a failure, and after a preset has
been saved over the one in use.

### Collector, Watchdog, Pipeline

A candle is a number and a form: fetched while `forming`, or `final`. `store`
is `raw_ohlcv` for one symbol and interval; `backend` decides what inserting an
existing candle does. `threads` are the running calls of `collect_symbol`: those
of the current cycle and those a failed cycle left behind (`late`). `pc` is where
`_async_main` is, `tick` the bar of the last tick pushed. Of the other symbols
only their exceptions reach this one (`OtherRaises`), and of the raw tables
nobody reads only the failure of their writes (`Raise`).

| action | code |
|---|---|
| `StartRun`, `Gathered`, `PublishTick`, `RecordHeartbeat`, `EndFailedRun`, `Restart` | `_async_main`; `start_run` and the `end_run` of the handler can end the process, which joins its threads first |
| `FetchKline`, `StoreKline`, `ComputeFeatures`, `Raise` | `collect_symbol`, with the errors each part swallows or lets through |
| `BeginCheck`, `Alert`, `Silent`, `Recovery`, `LostRedis` | `Watchdog.check_once`, service by service |
| `Age` | the alert threshold of a service passes |
| `OtherBeat`, `ExpireBeat` | heartbeats of the other services; a key outlives its TTL |
| `Kill`, `WatchdogCrash`, `CloseBar` | a dead container, the exchange |

`beats` is what `Collector` writes and `Watchdog` reads. `heard` (what the
channel was last told) and `muted` (recoveries it will not hear of) are history
variables of the watchdog, `overlap` is the collector's: a thread of an earlier
cycle was still running when this one began.

## 3. Runs

| run | configuration | checks | shows |
|---|---|---|---|
| `executor_single` | one executor, two signals, two lots in the account, two faults, lock may expire at any time | `TypeOK` `OneOpenRow` `LedgerBackedMarks` `NoLeakedLock` `NoOrderForProcessed` `ReconcileAgrees` `Converges` `LockAlwaysFreed` `FollowsLifecycle` | as deployed, the table and the account come together after any two failures, at most one row is open, and the executor implements `PositionLifecycle`, its corrections and untracked sales included |
| `executor_pair` | two executors, one fault, TTL covers the critical sections | `MutualExclusion` `OrderOnlyUnderLock` `NoOrderForProcessed` | the symbol lock does its work under that assumption |
| `lock_expiry` | one executor, TTL does not cover | `OrderOnlyUnderLock` fails | finding 1 |
| `lost_answer` | one executor, one fault | `OneOrderPerSignal` fails | finding 2 |
| `blind_reconcile` | one executor, one fault | `OrphansAreFlat` fails | finding 3 |
| `strategy` | two engines, prices 2 to 4, one fault | `TypeOK` `StopHonoured` `BeliefWasTold` `StopNeverFalls` `QuietWhenStopped` `StopsOut` `RequestsHeard` | stops, stop command, belief and requests survive every interleaving with the API and the collector |
| `funding_arb` | two mishaps of any kind, two attempts per order | `TypeOK` `OpenUndone` `NoNakedShort` `OneLot` `EventuallyClosed` | a refused opening is undone, the short outgrows its spot leg at most by what orders left unfilled, one lot of it at most, danger closes |
| `arb_close_rollback` | one mishap | `BothLegsOrNone` fails | finding 4 |
| `position_service` | one executor, one signal, two requests, one fault, one unit held at most | `ApiTypeOK` `SoldOnce` `ApiConverges` | only overlapping requests sell a row twice, and the reconciliation repairs whatever requests and executor do to each other without a lock |
| `position_marks` | two positions, two handlers, at once or in turn, one failure | `TypeOK` `ClosedIsFinal` `ClosedForItsQuote` | a closed position keeps its price unless requests, sales or reconciliations overlap; automatic closing that is alone, and whose update did not fail, goes by the price it just read, or by age |
| `settings` | two symbols, four requests, two at a time, one failure | `TypeOK` `NothingUnsaved` `ToldIsStored` | what a client was told is stored, and a start would build the object in use, unless requests overlap or fail, or a preset is saved over the one in use |
| `pipeline` | either store, three bars, a window of two, one failure, two services | `PipelineTypeOK` `NoRegress` `CatchesUp` `DeadReported` `RecoveryReported` | collection recovers from every failure, orphaned threads included; the watchdog reports silence and recovery |

Bounds, and why they are enough:

- *Two signals* give a buy followed by a sell, and two of either; a third only
  repeats what a processed id and a second id can do to each other. A signal
  may be delivered twice.
- *Two row ids* (four with two executors): a closed row is never read again, so
  its id is free once no process remembers it.
- *`MinOrder` 2, lot 2, at most 4 held*: a fill leaves nothing, dust of 1, or a
  tradable rest; two lots let a duplicate order be seen.
- *Two attempts* per order: a first whose answer is lost and a last. Further
  attempts add further copies of the same order.
- *Two faults*: one to diverge and one to disturb the repair.
- *Prices 2, 3, 4, stop distance 1*: a stop rises, stays, and is hit, and never
  is 0, which the code would read as no stop. Cooldowns of 2 and 1 differ, so a
  strategy change matters to the count, which saturates at the longest.
- *Two requests, one signal, one fault* in `position_service`: two requests race
  each other, and one races the executor or the reconciliation. One unit is
  enough for two requests to sell it twice. Four row ids are never used up, which
  `ApiTypeOK` checks.
- *Prices 9 and 10, limit 11 percent* in `position_marks`: of a cost of 9, a move
  between the two meets the limit exactly, and of a cost of 10 it does not. Two
  handlers leave a mark and look at it again, or overlap. Automatic closing is
  asked to close for loss, or for profit and age.
- *Four requests, two at a time, two symbols, two parameters* in `settings`: two
  requests overlap or fail, and two more meet what they left behind. The
  built-in preset of one symbol sets one parameter, so that seeding, a saved
  preset and an update all differ.
- *Three bars, a window of two* in `pipeline`: a candle is fetched while forming,
  again when closed, and then leaves the window. One failure is enough to orphan
  a thread, kill a process, lose an alert or a heartbeat. The executor stands for
  the services before the collector in the watchdog's list.
- *One tick* in the list: a tick carries no data, only its presence matters.
- *Lot 2, two attempts* make a leg 0, half a lot, a lot or more; half a lot is a
  partial fill.
- The `processed` mark, which lives 3600 s, does not expire in the model.

`CHECK_DEADLOCK` is on everywhere but in `settings`, where the API has nothing to
do once the requests of the bound have been made.

**Fairness.** `WF_vars(Process(p))`: a consumer's loop never blocks for longer
than its pop timeout (`_POP_TIMEOUT`), all calls have timeouts, exceptions are
caught in the loop, and containers restart by policy. Restart after a
crash is part of the process and shares its fairness. `WF_vars(ExpireLock)`:
Redis expires keys. In `StrategyConsumer` only the process is fair: nothing is
assumed of the API or the collector, and `StopsOut` has the ticks it needs as a
premise. In `PositionService` the event loop of the API goes on with one of
its requests (`WF` of all of them together, which is less than fairness to
each). In `Pipeline` the collector's loop, its threads, the watchdog's check
and the passing of its threshold are fair; no candle has to close, no
service has to beat and no key to expire. Faults are bounded, never fair, so
liveness properties say what happens after the last one.

## 4. Findings

1. *The lock does not cover the order* (`lock_expiry`). The key lives 10 s and
   is not renewed, while one `place_order` may take five attempts of 10 s with
   back-off. `docs/auto-tr_arch_doc_v0.2.md:146` says no order without the lock.
2. *One signal, two orders* (`lost_answer`). `place_order` is retried without
   an `orderLinkId`. `docs/auto-tr_arch_doc_v0.2.md:137` forbids a duplicate order.
3. *A blind reconciliation closes live rows* (`blind_reconcile`). A balance that
   could not be read is 0.0, which is Case 1 of the `reconcile` docstring. The
   next successful reconciliation creates a row again, which is why `Converges`
   holds nevertheless.
4. *Closing has no rollback* (`arb_close_rollback`), which the header of
   `services/funding_arb_executor.py` promises without exception.

Met while modelling, without a run of their own. Where a passing property states
the exact condition, it is named:

- A sale needs no open position: one that fills in part closes every row, and the
  next sell signal sells the rest. `docs/auto-tr_arch_doc_v0.2.md:171` and
  `domain/state_machine.py` have no exit from NONE; `FollowsLifecycle` holds only
  because `PositionLifecycle` admits it as `SellUntracked`.
- An unfilled leg of the arbitrage is a success: `place_order` reports one for any
  accepted order, and the executed quantity reaches only a message. A spot leg that
  is not filled leaves the short alone and nothing is rolled back, which the
  header of `services/funding_arb_executor.py` promises. `NoNakedShort` says by how
  much the short may exceed its spot leg, and `OpenUndone` excludes partial fills.
- The symbol cannot be changed: `POST /trading/symbol` ends with a `TypeError` on every
  call, since `api/routes/trading.py:1064` passes no `trade_tracker_db` to the function
  `ops/lifecycle.py:50` stores, although the repository's README and the docstring
  of `change_symbol` say that it changes the coin (`Replace`).
- Profit is kept twice, in `trades` and in `positions`, and legal calls part the two
  without any failure or overlap: `POST /order` books a trade and no row; a live
  `open_position` takes the market's entry price and the client's
  `dollar_amount`; a sale that fills in part closes every row; positions opened
  through the API are `long`, those of the executor `spot`, and the service closes
  either with a `long` trade, while `GET /pnl/<symbol>` counts `spot` only. No line of
  the repository says that the two agree, so nothing here states it. The sum
  includes realized profit, although the field is called `unrealized_pnl`.
- A price that could not be read is 0 and marks every position at -100 percent,
  which is a stop-loss for automatic closing (premise `faults = 0` of
  `ClosedForItsQuote`).
- A repricing that overlaps a close, the executor's and the reconciliation's
  included, overwrites the closing price and profit (`ClosedIsFinal`), and two
  overlapping closes sell twice (`SoldOnce`).
- What `/trading/params` and the presets store reaches the API's own object
  only. The strategy consumer takes its parameters from `BUILTIN_PRESETS` and
  its symbol from the environment. The example of `POST /trading/presets` in the
  repository's README sets `ema_fast`, `ema_slow` and `atr_multiplier`, which no
  strategy has (`Merge` skips them).
- A preset saved over the one in use is not loaded, and the next update of the
  parameters overwrites it (premise `~stale` of `NothingUnsaved`).
- PostgreSQL keeps the forming candle: the collector says `INSERT OR REPLACE`,
  the PostgreSQL store turns it into `ON CONFLICT DO NOTHING`, so a candle keeps
  the values it had at its first fetch, although `infra/db/quant_store.py:346`
  promises the interface of the SQLite store. `CatchesUp` says what each store
  holds.
- `/trading/symbol` asks `is_active` of an object that never trades, since
  trading is enabled by a Redis flag, so the guard its docstring speaks of never
  refuses anything. `ChangeSymbol` has no such guard.
- The watchdog notifies and nothing else; `docs/auto-tr_arch_doc_v0.2.md:269`
  says that it restarts. An alert Discord refuses counts as sent until the
  threshold passes; a refused recovery message is never repeated. The arbitrage
  records a heartbeat nobody watches.

`EventuallyClosed` has three premises rather than their disjunction for a
reason: the basis is read with the ticker and the margin one await later, so two
alarms that alternate may both be missed for ever.

## 5. Proofs

Every invariant and every action property of the passing runs, and the
refinement of `PositionLifecycle`, is a theorem, proved for all values of the
constants that the `ASSUME`s of the modules allow. TLC evaluates those in every
run of the module. What a theorem assumes beyond them is in its `ASSUME`, and in
the second column here.

| theorem | assumes | property |
|---|---|---|
| **`ExecutorProofs`** (`Spec` of `Executor`) | | |
| `TypeCorrect` | | `TypeOK` |
| `Exclusion`, `OrderUnderLock` | `TTLCovers` | `MutualExclusion`, `OrderOnlyUnderLock` |
| `Idempotence` | `TTLCovers`, or one process (`Exclusive`) | `NoOrderForProcessed` |
| `MarksBacked`, `NoLeak` | | `LedgerBackedMarks`, `NoLeakedLock` |
| `OneRow` | finitely many processes (to count them) | `OneOpenRow` |
| `ReconciliationAgrees` | one process (`Sole`) | `ReconcileAgrees` |
| `ImplementsLifecycle` | one process | `FollowsLifecycle` |
| **`PositionServiceProofs`** (`ApiSpec`) | | |
| `RowsAreSoldOnce` | | `SoldOnce` |
| `ApiTypeCorrect` | infinitely many row ids, finitely many processes and handlers | `ApiTypeOK` |
| `ExclusionBesideApi`, `IdempotenceBesideApi` | as without the API | `MutualExclusion`, `NoOrderForProcessed` |
| `MarksBackedBesideApi`, `NoLeakBesideApi` | | `LedgerBackedMarks`, `NoLeakedLock` |
| **`PositionMarksProofs`** | | |
| `TypeCorrect`, `ClosedRowsAreFinal`, `PickedForItsQuote` | | `TypeOK`, `ClosedIsFinal`, `ClosedForItsQuote` |
| **`StrategyConsumerProofs`** | | |
| `TypeCorrect`, `TrailingStop`, `StopIsHonoured`, `Quiet`, `BeliefTold` | | `TypeOK`, `StopNeverFalls`, `StopHonoured`, `QuietWhenStopped`, `BeliefWasTold` |
| **`StrategySettingsProofs`** | | |
| `TypeCorrect`, `ToldStored`, `Saved` | | `TypeOK`, `ToldIsStored`, `NothingUnsaved` |
| **`FundingArbProofs`** | | |
| `TypeCorrect`, `AtMostOneLot`, `OpeningUndone`, `ShortIsCovered` | | `TypeOK`, `OneLot`, `OpenUndone`, `NoNakedShort` |
| **`PipelineProofs`** | | |
| `TypeCorrect`, `ClosedCandlesStay` | | `PipelineTypeOK`, `NoRegress` |

Hardly any of these properties is inductive. What each proof adds, and why:

*The executor.* `TypeInv` is `TypeOK` with `SignalInv`: from `acquire` to `release` a
process holds a signal, without which `cur[p].id` need not be an id.

- `LockInv`: when the TTL covers, a process in its critical section is the one
  the key names. `MutualExclusion` alone would let a second process in through
  a free key. The key changes only in `AcquireLock`, which needs it absent, in
  `ReleaseLock`, and when it expires, which with `TTLCovers` waits until its
  owner has left (lemma `LockStep`).
- `UnmarkedInv`: from `check_processed` to the order, the id in hand is unmarked.
  Marks are set only at the end of a critical section, so exclusion carries the
  check over the awaits. Without it another process could mark the id in
  between, hence the assumption.
- `LedgerInv` adds to `LedgerBackedMarks` what the steps in flight rely on: at
  `trade` the order was accepted, and after `trade` the id is in the ledger.
- `RowInv`: what each program point of a sole executor knows of the table. A buy
  past `check_open_positions` finds it empty until it inserts; the rows a
  reconciliation has read are the open ones until it closes them; it creates a
  row only into an empty table; and no row has quantity zero. `OneOpenRow`,
  `ReconcileAgrees` and the refinement all follow from it. For the refinement, one
  lemma per group of actions shows which pairs of positions it can connect, and
  that each is a `Lifecycle` step or a stutter. The mapping reads the order in
  flight before the table, so a sale without an open row is an exit from NONE and
  needs `SellUntracked`: what the theorem says is that nothing else leaves the
  machine of `domain/state_machine.py`.

*Executor and API together.* `ApartStep`: a step of the composition is a step of the
executor or leaves Redis, ledger, orders and processes alone. So the executor's
inductive invariants hold next to the API without a new proof of their steps.
`RowInv` does not: the API writes the same table, and `OneOpenRow` is false there.
For the rows:

- `TableInv`: row ids are unique, and whoever has a row in hand knows its
  quantity; it rests on `FreshOnly`, since a new row that took a remembered id
  would be closed for the old one.
- `SoldInv`: without failures, a row that was sold and is still open has a
  request about to close it, and two requests that hold the same row both know
  that they share it. `SoldOnce` speaks of one step; what makes it true is that
  nobody can pick a sold row without meeting its seller.
- `ApiTypeOK` says that a free id always exists. With finitely many ids that
  depends on the bounds, which TLC checks; the theorem takes infinitely many, as
  uuids are meant to be, and `FiniteInv` shows that only finitely many are ever
  in use.

*Positions and their prices.* `HeldInv`: what a handler holds and reads is what its
kind of work allows; a row in hand exists, and a sale or a reconciliation that
has gone past its price has one. It makes the types inductive, since `Insert`
would otherwise enter a row at price 0. `AloneInv`: a handler that has met no
other is the only one, and the rows it is about to mark or close are open.
`ClosedIsFinal` follows, although the `UPDATE`s go by the id alone. `QuoteInv`: such a
handler has marked every open row it is done with at its own quote, which the
closing criteria then look at.

*The strategy.* `DecisionInv`: the decision in hand fits `in_position`, and a stop that
was not hit lies below the price the decision looked at, up to the push.
`FlagInv` and `BeliefInv` say what the flag read and the last push imply at each await.
`StopNeverFalls` needs the types only.

*The settings.* `CallInv`: a request that knows of no overlap is alone, so an
update still finds the object as it left it. `SyncInv`: unless an update is under
way or something is stale, building the object from its row gives the object.

*The arbitrage.* `LegsInv` follows the difference of the legs through the sagas: `Owed` is
what the point of the saga allows the short to exceed the spot leg by. As long
as the mishaps are of the kinds a property names, the short is at most the
spot leg, `Owed` and what orders have left unfilled (`Covered`), or exactly the
spot leg and `Owed` (`Balanced`). `LotInv`: without blind
reads and lost answers an opening finds no short.

*The collector.* `ThreadInv`: a thread that is nobody's orphan belongs to the cycle that
waits for it, and without an overlap there is only one thread. `StoreInv`: without
an overlap, that thread asked for candles after every candle stored as final
had closed. So its answer cannot turn one back; with an overlap it can, which
is why `NoRegress` names it.

*Sums.* The quantities of the table and the mishap counts are folds. `SumTheorems`
proves what they compute, and that the order in which they pick elements does
not matter. The library's induction theorems take an operator, which the
installed provers cannot instantiate; the proofs look at a least counterexample
instead, which the well-foundedness of the naturals and of finite sets gives
(`LeastNatural`, `LeastSubset`).

Only model-checked: the liveness properties `Converges`, `LockAlwaysFreed`,
`StopsOut`, `RequestsHeard`, `EventuallyClosed`, `ApiConverges`, `CatchesUp`,
`DeadReported` and `RecoveryReported`, which are beyond the prover (fairness needs
`ENABLED`). The properties of the four runs that expect a violation are false, so
there is nothing to prove.

## 6. Plan

Order of the modules: the order path first, because money moves there, then
what drives it, then what shares the account with it.

1. Done: `PositionLifecycle`, `Executor`, `StrategyConsumer`, `FundingArb`.
2. Done: `PositionService` on top of `Executor`, `PositionMarks`, and `Collector`
   and `Watchdog` composed in `Pipeline`, `StrategySettings`.
3. Done: theorems for every safety property of the runs.
4. Left: `TradingPipeline`, the strategy's belief, the signal queue and the
   executor in one specification. The executor is checked for every sequence of
   signals, so what the composition adds is when `in_position` differs from the
   table, and for how long.
5. Left: the safety halves of the liveness arguments as theorems, such as that a
   check of the watchdog that ends without a failure leaves every silent service
   reported or due to be reported again.

## 7. Not modelled

- *Regime rules* (`domain/regime.py`): thresholds over floating-point series
  without state; the model lets the classifier suggest any strategy of its map.
- *Portfolio snapshots, signal logs, status and health routes, request ids*:
  append-only records and read-only queries that no decision reads.
- *Several symbols*: symbols share nothing but the exceptions of a collection
  cycle, which are modelled, and the periodic reconciliation's loop variable in
  `run_executor_consumer.py:76`, which follows the last signal's symbol.
- *The trades table*, but for the ids the executor looks up (`ledger`): trades, the
  one `POST /order` books included, are read by queries only.
- *Settings, logging, application wiring*: no state that changes.
- *Indicator arithmetic*: floating-point series; the model lets the indicators
  say anything at any tick, which covers what they compute.
- *The notifier*: one HTTP call without state. Where its failure matters, in
  `reconcile` and in the watchdog, it is one of the outcomes.
- *`domain/risk_policy.py`*: never called. *`domain/ids.py`*: identifiers are
  distinct model values.
- *The trading loops inside `strategies/`*: the consumers have replaced them.
