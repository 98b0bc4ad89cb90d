# Formal models of intraday-trader

`intraday_trader` trades one US or HK symbol intraday: a strategy turns a live
price stream into signals, a pipeline turns signals into orders, and a loop
keeps track of what is held and of the one order it is waiting for, from two
sources that do not agree at every moment: the broker's stream of order updates
and its REST API. This directory models the parts where order of events, lost
answers and cancellation decide whether that is right, model-checks them with
TLC and proves the main results with TLAPS. Paths below are relative to
`src/src/intraday_trader/` unless they start with `docs/`.

## Inventory

| component | state | operations | hard part | correct when |
|---|---|---|---|---|
| Live core: `scripts/run_live_trading.py`, `live_components.py` (`TradingState`) | tracked position, active order, last stream status | `handle_trade_update`, the signal step and the refresh of `trading_loop`, `_handle_execution_result`, `_auto_cancel_test_order` | coroutines share the state; updates, REST answers and fills overlap; answers and updates get lost | one order at a time, always released; an entry only from flat; position = broker's in the end |
| Pipeline: `execution/targets.py`, `order_plan.py`, `executor.py` | none | `signal_to_target`, `build_order_plan`, `build_close_plan` | lot rounding, sign of a close | a close ends flat |
| Session: `live/session.py`, `_run_stream_with_reconnect` | tasks, pending cancellations, backoff | connect, lose, cancel, join, back off; `_shutdown` | who waits for whom, where a cancellation goes | one trading loop; it reconnects; a signal ends it and leaves no order |
| Broker: `broker_handler.py`, `brokers/alpaca.py` | the stream object | REST calls that return `None`/`False` for failures, over a session that repeats failed requests; stream start/stop | failures look like answers; a repeated request may be a second order | one order for a plan; a status that releases an order is that of an order that is over |
| Futu adapter: `brokers/futu.py` | contexts | the same calls with return codes; no stream | status mapping, `cancel_all_orders` over a list that ages | the same, and a sweep that says True has asked for all |
| Risk checks: `risk_manager.py` | volume, return and price histories | liquidity, exposure | stale inputs, size before rounding, the same check for a CLOSE | fills within the limit when the inputs were right |
| QEE: `qee_execution_backend.py`, `qee_target_exporter.py` | files | export a target, run the engine | no active order is set | never more than one entry |
| Errors: `exception_handler.py` | breaker state, error records, emergency flag | `CircuitBreaker.call`, `retry_with_backoff`, `safe_execute` | threads, time, re-entrance | no call while open; bounded retries |
| Database: `db_handler.py` | tables, one temporary table | `initialize_db` with late columns and TimescaleDB, upsert through the temporary table | processes at the same time, failures and kills between steps | a save that returned is in the table |
| Parquet store: `storage/parquet.py` | a file per table | read, merge, write | the same | the same |
| Commands: `scripts/run_backfill_data.py`, `run_update_data.py`, `data_utils.py` | position of the download; a cache file per range | windows, retries; database, cache, provider | windows of any length over a provider that answers in days, or not at all | no bar is passed over unasked; every command ends |
| Providers and quality: `data_providers/`, `data_quality.py` | none | `get_bars`; a report | every error is "no data" | (see Store) |
| Strategies and engine: `strategies/`, `backtest/engine.py` | order reference, stop, `_forced_liquidation_done` | `next`, `notify_order`, `place_entry` | callbacks, limit orders that wait, refusals | one order and position at a time; a stop of this position |
| Validator: `consistency_validator.py` | results of the last run | three tests, some of which may raise, a report | matching within tolerances, zero counts | matches are closest; status agrees with the tests |
| Analytics, plots, dashboard, configuration, CLI | none that others use | pure functions, start-up | | |

How they interact: `session.main` installs `_shutdown` for SIGINT and SIGTERM
and runs `run_trading_session`, which builds the system and awaits
`start_live_trading`: one REST read of account and position, then
`_run_stream_with_reconnect`, which sets up the stream (callbacks
`handle_trade`, `handle_bar`, `handle_trade_update`), starts `trading_loop` as
a task and runs the stream until it breaks. `handle_trade` and `handle_bar` put
items in `data_queue`; `trading_loop` takes them, asks the strategy, checks
risk and sends at most one order; updates of that order come back through
`handle_trade_update`. All of it runs on one event loop, and REST calls block
it. Where the engine is QEE, `_execute_trade` hands the signal to
`qee_execution_backend` instead, which writes a target and runs the engine.

The data side is separate processes: `intraday data backfill` and `update-data`
fill the table that a backtest reads, through `data_utils` (database, cache
file, provider) and `DBHandler` or its parquet backend. The strategies run on
backtrader in `run_backtest`, and the validator compares what they traded with
what was traded live.

## Modules

- `OrderPlan` - the pipeline as operators on sides and share counts.
- `LiveTrading` - `TradingState` and the coroutines, with the broker.
- `OrderLifecycle` - the abstract specification: orders worked one after the
  other. `LiveTrading` implements it, and `BrokerOrders` once for each plan.
- `StreamSession` - the tasks of a session.
- `CircuitBreaker` - threads that retry a function through one breaker.
- `BrokerOrders` - the order calls of both adapters, between the executor and
  the venue.
- `RiskGate` - the risk checks and the two ways to trade behind them; uses
  `OrderPlan`.
- `Store` - the commands that fill and read the market-data store.
- `BarPromise` - the abstract specification of the store. `Store` implements
  it.
- `Backtest` - the strategies on backtrader; `Consistency` - the tests of the
  validator as operators; `Validation` - a backtest whose fills are compared.
- `MC*` - instances for TLC; `*_proofs` - theorems.

### LiveTrading

One action is what runs between two awaits. `position`, `active` and
`streamStatus` are `current_position_qty`, `active_order_id` and
`last_known_stream_status`; `loop` is where `trading_loop` is.

| action | code |
|---|---|
| `Init` | `start_live_trading`: a failed position read is taken for flat |
| `HandleTradeUpdate` | the whole handler. An update it cannot read changes nothing; otherwise: stream status, release of the active order, the database call that raises, the position |
| `Trade(signal)` | one queue item with a signal: gate, `_execute_trade`, `place_order`, `_handle_execution_result` |
| `RefreshPosition`, `RefreshOrder` | the two REST reads of the 300 s refresh. The event loop is blocked between them (`LoopFree`), the broker is not |
| `AutoCancel(o)` | the single cancel attempt of a test order |
| `Disconnect`, `RestartLoop`, `Connect` | what a reconnection does to this state. The loop restarts before the stream is up |
| `BrokerFill`, `BrokerEnd` | the broker (external): partial fills, cancellation, expiry, rejection, each pushed if connected |

What an update looks like is a parameter, since the code does not settle it.
`handle_trade_update` calls `update_data.get("order_id")`, "status" and
"filled_qty" and adds the quantity to the position as it is (lines 312-314 and
381-385). `setup_stream` gives the callback straight to the Alpaca library
(`broker_handler.py:437`), whose object has its order nested and no `get`, as
the default handler just above it shows (393-398). No code turns the one into
the other. `form` is one of

- "native": the object as delivered. The handler's first statement raises, the
  error is logged, and only the refresh moves the position and releases an
  order. This is the program as it is.
- "order": a dict with the fields of the order, whose quantity is unsigned and
  counts from the start of the order, so that the handler's sum is wrong.
- "change": a dict with the signed quantity of the event, which is what the
  handler adds up.

`OpenOrderIsTracked`, `ImplementsLifecycle`, `ActiveReleased` and
`EventuallyInStep` hold for all three (`live_faults`): they rest on the gate and
on the refresh. `ExposureBounded` and `NoFlip` hold before the first refresh for
"native", where what is held stays unseen only while its order is active, and
for "change" (`live_quiet`); with "order" the loop closes more than is held.
`StaleByOneOrder` is about "native". No property says that the position is the
broker's at every quiet moment: with "native" it is not until a refresh.

The broker's answer to `place_order` may be lost (`orphans`). A refused order
changes nothing. Left out: prices, cash, ids, the QEE branch (it returns before
any of this), the logging-only `_post_order_reconciliation`, and
`_verify_state_once`, which nothing calls. A failed risk check or strategy HOLD
is a step that changes nothing. Alpaca's and Futu's adapters have no `api`
attribute, so a CLOSE always takes the market-order fallback.

### StreamSession

The main task (`main`: setup, streaming, join, stopws, backoff, ended), the
trading loop's task, the auto-cancel task, and cancellations that were requested
and not yet delivered. `finally` is three waits: the join of the loop, the stop
of the stream, the backoff. `asyncio.wait_for` is modelled as in Python 3.10,
the only version `pyproject.toml` allows: when the item has arrived, a
cancellation that comes before the task runs is dropped (`LoopProcess`). This is
the library's behaviour, not the project's, and is marked external. A signal
while the main task joins the loop cancels only the loop: the main task catches
the error it then gets and goes on (lines 764-767).

### CircuitBreaker

`call` holds the breaker's lock from its decision to the end of the function, so
`pc[c] = "calling"` is the lock: `Enter` and `Refuse` are the decision,
`Succeed`, `Fail` and `FailUnexpectedly` the accounting. Around it each caller
runs `retry_with_backoff`: a refusal is an exception like any other there, and
uses up an attempt. Time is `sinceFailure`, capped at the timeout. Delays,
error records and callbacks are left out. Only the tests use the class today; it
is modelled as the library piece that `with_circuit_breaker` offers.

### BrokerOrders

A call is a sequence of requests with the venue's steps in between. `NoAnswer`
is the `urllib3` session of `broker_handler.py` 36-54, which repeats a POST too:
the request may have arrived (`PostUnanswered`) or not (`PostFails`). Alpaca
takes a client order id once, and `execute_order_plan` gives each plan one of
its own; Futu is asked once and gives a return code. `MapFutuStatus` is
`_FUTU_STATUS_MAP` with "open" for what the table does not have: `SUBMIT_FAILED`
and `TIMEOUT` never end for the caller, which `EndedIsReported` leaves out by
name. Other statuses of the venues that no line names, and that neither end nor
release an order, are left out as further names for "open". `SweepOne` goes
through the orders listed by `cancel_all_orders`; Alpaca's handler counts
failures and answers True, Futu's answers False. Nothing under `src/` calls
`cancel_all_orders`; it is modelled as the call the adapters offer.

`Lives` ties the two sides together: what the live loop takes an order for is
`OrderLifecycle`, and for each plan both adapters give it that. The order is
"working" or "ended" as the venue has it, and tracked until `get_order` answers
with a status on which `trading_loop` releases it.

### RiskGate

`Trade` is what `trading_loop` does with a signal from line 977: the liquidity
check, the exposure check with `default_order_qty` added to what is held, for a
CLOSE too, then `_execute_trade`, which rounds to lots or hands a target to QEE.
`value = 0` stands for `None` and for a portfolio value of zero: both read as
the initial capital (line 1005). Amounts are whole numbers and ratios are
compared by cross multiplication, so nothing is rounded. `docs/risk-engine.md`
(16) has `update_market_data` run at every bar, but nothing in the program calls
it, only tests do: `fed` is FALSE for the program, whose histories stay empty
and whose liquidity check therefore always passes, and TRUE for a caller that
feeds them. Every property is stated for both. With `fed`, a price of 0 is
alerted and recorded, and the next call divides by it and raises
(`ReturnComputes`); the docs (47-53) say that the alert keeps later calculations
from crashing. It is left at this note, since the program does not get there. An
order is filled at once: how it is tracked is `LiveTrading`'s subject. VaR,
drawdown and position sizing keep no state and are left out. Of the limits in
`docs/risk-engine.md`, `max_leverage` is read by no code and `max_concentration`
only by `_risk_check`, which nothing calls.

### Store

A process (`proc[c]`) runs one command at a time, and one action is one call to
the database, file, provider or cache. With SQL a save is `replace` (the shared
temporary table), `upsert`, drop; with parquet it is `read`, `write`, and two
writers that meet are "mixed". `Open` is `initialize_db`: it makes the tables
and the hypertables, then adds the two late columns (`AlterTable`). On a
PostgreSQL without TimescaleDB the hypertables raise, and the handler of that
error (`EnableTimescale`, lines 114-123) enables the extension, makes them and
returns without the check: such a process, marked `skipped`, may go on to save
into a table without the columns, which fails. A kill during a write may leave
the file cut short (`torn`). A bar is a day and a slot. `_backfill_window` cuts
windows of any length into days: `WindowLo` and `WindowHi`. What the provider
did not give is in `missed`, a history variable, as are `acked` and
`overlapped`.

`BarPromise` is what a caller of `save_market_data` relies on: the table only
grows, and a save that returned stays in it. The promise ends with the first two
saves that overlap; that they may lose rows, with either backend, is in the
model and outside of the promise.

### Backtest, Consistency, Validation

A bar arrives (`NewBar`), the broker settles what is pending (`Completes`,
`Refused`, `StaysPending`, each with `notify_order`), `next` decides
(`BaseNext`, `HoldNext`). The indicators are a score of five values, which the
strategies read differently; the trailing stop is exact, as a multiple of the
ratio's denominator. `self.order` is the last of `orders`; a second one is
possible in the model, and `OnePosition` says it does not happen.
`Consistency` has the three tests with scores as ratios, and `Validation` runs
any of them on the fills of the backtest and a list of live trades. A pass of
the inner loop of `_match_trades` is a function of how far it got (`BestMatch`);
trades are compared and counted by their index. `validate_consistency` runs the
tests it was named (`Named`) and takes one that raises for failed (`Failing`);
a performance test without metrics on one side is failed too. Only the
comparison of metrics is abstract: `within` is the set of those within
tolerance.

## Runs

| run | asks | result |
|---|---|---|
| `live_quiet` | without faults and refresh, is exposure bounded, and does a close stop at flat? | holds, 38,489 states |
| `live_faults` | with any form of update and one of each fault, is there one order at a time, is it released, what does a refresh miss, does the position converge? | holds, 308,963 states |
| `session` | one loop, reconnects, ends on a signal? | holds, 22,770 states |
| `breaker` | does the breaker protect a failing function, and recover? | holds, 4,862 states |
| `live_refresh_race` | is an entry ordered only from a flat account? | violated: a refresh releases an order whose fill it did not see |
| `session_reconnect` | does it always reconnect? | violated: a dropped cancellation |
| `session_signal` | does a signal leave no order? | violated |
| `store` | is what a save reported there, is no bar passed over, does every command end? | holds, 332,132 states |
| `orders` | one order for a plan, is a released order over, is an ended one reported? | holds, 596,468 states |
| `risk` | what do the risk checks bound, and what do they block? | holds, 109,224 states |
| `backtest` | one position, the right stop, the right matches, a status that agrees? | holds, 921,118 states |
| `backtest_force` | is a forced exit ordered on the last bar? | violated: at the first bar of a position |

Each violation is a finding in `PROJECT.json` with the sentence of the docs or
the code it contradicts.

Bounds. Orders are for two shares, so that they fill in part. `live_quiet` has
four orders (entry, close, entry, close) and three starting positions;
`live_faults` two orders and one failed REST call, lost answer and
disconnection, so that a fault hits the first order and the second one follows,
with each form of update and a database attached. `live_refresh_race` has
"native" updates and no fault: two orders and one refresh between them are
enough.
`session` has a cap of 5 s on the delay, which is reached after three failures,
two queued items (one in hand, one waiting) and three signals (one per wait of
`finally`).

`breaker` has two threads, a threshold of two and five exceptions: enough to
trip, fail a probe, and fail uncounted.

`store` has two processes, since an overlap takes two, two days of two bars, and
windows of three bars: a window then starts and ends inside a day, which is
where the cut into days can go wrong. A page of three bars cuts an answer for
both days short. Two commands and one kill. A database is up to date, from
before the late columns, or that without TimescaleDB. `orders` has two plans of
two shares, two requests for one call (six in the code) and two failed requests,
so that both requests of a call may fail or each call lose one. `risk` checks an
entry of two shares that is sent as a lot of three, at prices the limit allows
or not, with three signals and three disturbances. `backtest` has five bars of
three prices: enough for an entry, an exit, another entry and its exit, each
filled a bar after its order; live trades are up to two in the order of their
times, near or far, on either side. All three tests are run or only that of the
performance, and that one may fail to run.

`CHECK_DEADLOCK FALSE`: a live run stops when its bounds are used up, a session
when it has ended, `store`, `orders` and `risk` when their bounds are used up, a
backtest when it is over; `breaker` never stops and is checked for deadlock.

Fairness. `LiveTrading!Fairness`: the broker ends every order (they are all
`time_in_force="day"`), the event loop runs a ready callback, the refresh falls
due and its REST calls return, a stopped loop is started again. Nothing is
assumed of fills, signals, the cancel task or the stream coming back. The bound
on disconnections is part of this: the refresh timer is local to `trading_loop`
and restarts with it, so with endless disconnections no refresh would come.
`StreamSession!Fairness`: the main task and the trading loop run when ready;
nothing of the stream, the broker or signals. `CircuitBreaker!Fairness`: time
passes, the function returns and, with its exceptions bounded, is well in the
end; a thread gets the lock if it is free again and again (strong fairness, what
the scheduler gives a waiting thread); callers go on calling, without which no
breaker of this design ever closes. `Store!FairSpec`: a process that is not
killed takes its next step; nothing of the provider, which may answer with
nothing for ever. `BrokerOrders!FairSpec`: a call that was made returns, and a
known order is asked about again and again, as the refresh of the live loop
does; nothing of the venue.

## Proofs

All for every value of the constants that satisfies the assumption of the
module (`ConstantsAssumption`, `SessionAssumption`, `BreakerAssumption`,
`StoreAssumption`, `OrdersAssumption`, `RiskAssumption`, `BacktestAssumption`,
`ConsistencyAssumption`, `ValidationAssumption`). What a theorem assumes beyond
that stands in its statement.

- `LiveTrading_proofs`: `TypeCorrect` (`TypeOK`), `OneOpenOrder`
  (`OpenOrderIsTracked`) and `Refinement` (`Lifecycle!Spec`), with all faults.
  `OpenOrderIsTracked` is not inductive: a terminal update could be a lie about
  the active order, and an order with a lost answer could become active. The
  invariant adds `UpdatesTrue` (a terminal update in the stream is about an
  order that is over) and `active \notin orphans`. The refinement then follows
  step by step: the gate opens only in phase "ended".
  `RefreshMissesOneOrder` (`StaleByOneOrder`) is what the refresh is worth with
  updates that cannot be read: it reads the position first and the order after
  it, so what it misses is fills of the order it releases. Its invariant adds
  that the active order is the one placed last and that the bound holds between
  the two reads too. `NoSilentEnd` (`EndIsAnnounced`, with `MaxDrops = 0`, for
  updates that can be read) is the safety half of `ActiveReleased`: an active
  order that is over always has its releasing update in the stream. It says what
  the refresh is needed for, which is lost connections and unreadable updates.
- `LiveQuiet_proofs`: `OneEntryAtMost` and `CloseStopsAtFlat`, under `Quiet`: a
  stream that does not drop, no refresh, no database, no lost answer, and
  updates that cannot be read or carry the change of the position. Failed REST
  calls and cancellations are allowed, and `position = brokerPos` at the start
  is what a successful first read gives. With updates of the change, `ChainInv`
  says that those in the stream lead from the tracked position to the broker's
  (each update's `before` plus `delta` is the next one's `before`), which
  survives a handler step at one end and a fill at the other. With updates that
  cannot be read the gate never opens again, and the one order sent was sized
  from the right position. The invariant adds that at most one order is open,
  that its end is the last update, and that the open order was sized from the
  position at which it was placed. A second order sent for a lost answer does
  stack entries, which is why `Quiet` excludes it.
- `StreamSession_proofs`: `NeverTwoLoops` (`OneLoop`), `SessionTypeCorrect`,
  whose only arithmetic is the bound of the delay, and the safety halves of the
  two liveness properties: `SignalsAreFinal` (`NoAttemptAfterSignal`: no stream
  is set up after a signal has reached the main task) and `WaitsAreAnswered`
  (`JoinedIsCancelled`: the loop being joined is over, is about to be cancelled,
  or is the one whose cancellation `wait_for` dropped).
- `CircuitBreaker_proofs`: `BreakerTypeCorrect`, `ClosedMeansBelow`,
  `OneProbeAtATime`, `ProbesAreSpaced`. `ProbesSpaced` needs, beside
  `ClosedBelowThreshold`, that a half-open breaker has its timeout behind it
  (`BreakerInv`): that is why it may be called at once.
- `Store_proofs`: `StoreTypes`, `ColumnsAreThere`, `RuinStays`, `NoSaveIsLost`
  (`AckedStored`), `NothingSkipped` (`BackfillFills`), `StoreKeepsPromise` (the
  refinement) and `CommandsGoForward` (`CommandsAdvance`). `SafeInv` holds while
  no two saves have overlapped: at most one process saves, the temporary table
  is its batch, the file is as it read it, and every bar before a backfill's
  position is in the table or was missed. The lemma `NoGap` is why windows of
  any length leave none: a window starts with the day in which the one before
  ended. `Upgraded` is why a save finds its columns: a process gets past the
  check with the columns there, or by the handler that enables TimescaleDB
  (`skipped`, and then the theorem claims nothing of it), or without a database,
  and then it does not save. `CommandsAdvance` is the argument for
  `CommandsEnd`: position, attempts and `Ahead` (the steps still to come at each
  program counter) go forward with every step of the process and back with no
  one else's; fairness turns that into an end.
- `BrokerOrders_proofs`: `OrdersTypes`, `PlacedOnce`, `NoneReleasedEarly`,
  `SweepAsksAll` and `AdaptersImplementLifecycle` (`Lives`). `Single` says that
  a plan not yet sent has no order, that a Futu call under way has none either,
  and that no two orders have one plan. `Grown` (no step takes an order back to
  work, or its cancellation back) is what makes an old report stay true, and
  with `NoneReleasedEarly` what maps every step to one of the abstract
  specification or a stutter.
- `RiskGate_proofs`: `RiskTypes`, `EngineHoldsOneEntry`, `FillsAreWithin`
  (`ExactChecksHold`), `NoWayOut` (`OverLimitIsStuck`), and `LotRounding` about
  `RoundToLot`, which `LiveTrading` uses too. `Target` says that the engine only
  ever has targets between flat and one entry; `Checked` carries the inequality
  of the check to the fill: a trade at the price leaves the equity as it is, so
  the limit moves with neither. `NoWayOut` is about single steps and needs no
  more than the types.
- `Validation_proofs`: `BacktestTypes`, `OneAtATime` (`OnePosition`),
  `StopOfThisPosition` (`StopTrailsThePeak`), `ForcedOnTheFirstBar`
  (`ForcedAtOnce`: what the code does where `backtest_force` shows that it does
  not wait for the last bar), `TheClosestIsMatched` (`MatchesAreClosest`) and
  `PassedIsGood` (`AllPassedIsGood`). `OneInv` adds that an order that is not at
  a limit never survives a bar, which is why buy-and-hold, which looks at no
  pending order, never has two; the fills are then round trips. `StopInv` adds
  that the stop is right from the order on, before it is filled. The loops of
  the validator need induction over their length, which the lemma `Induction`
  gives for a set of naturals, from the well-foundedness of `<`; `Recursion`
  says from it that a recursive function on `0..n` has the value its definition
  says. `BestMatchFound` carries the loop's own invariant: after `i` trades,
  `best` is the first of the closest so far. For `PassedIsGood`, a passed test
  has at least its own score (a signal test 4/5, a performance test 3/4, an
  execution test 4/15 from its rate alone), and a third of their sum is over
  3/5.

Only model-checked: everything under fairness (`ActiveReleased`,
`EventuallyInStep`, `ReconnectsOrLoses`, `SignalEnds`, `Recovers`,
`CommandsEnd`, `EndedIsReported`, and the liveness part of
`ImplementsLifecycle`), which is out of the prover's reach. Every other property
of a passing run is a theorem. The other way round, `EndIsAnnounced`,
`NoAttemptAfterSignal`, `JoinedIsCancelled`, `CommandsAdvance` and
`ForcedAtOnce` are proved and stand in no configuration: each is the part that
needs no fairness of a property that does, or the counterpart of a finding. They
hold in TLC as well, added to the configuration of their module
(`EndIsAnnounced` to one without disconnections, such as `live_quiet.cfg`). The
violation runs are counterexamples and need no proof.

## Not modelled

- Analytics, plots, reports and the dashboard: functions over float series, and
  rendering. VaR and sizing functions of `risk_manager.py` likewise.
- Configuration, command lines and logging: read once at start-up.
- Trade logs and account snapshots of the stores: rows are appended and read
  back by nothing else.
- The checks of `data_quality.py` decide nothing: whatever they find, a report
  is written and the command ends (`WriteReport`). `docs/workflow-cookbook.md`
  (line 158) takes the report for proof that data is complete. An index that was
  sorted first cannot fail the check for order, and rows that are missing at the
  ends of a range are not looked for.
- The grid of parameter optimisation and backtrader's analyzers, which read
  results only. `BaseStrategy.stop` (279-310) looks for an analyzer named
  "trades" that the engine registers as "tradeanalyzer", and so does nothing.
- `EnhancedTradingSystem._verify_state_once` and `_risk_check`, which nothing
  calls, and the log-only `_post_order_reconciliation`.
- Growth of `data_queue`, delays between retries, error statistics.
- The components are checked one by one where they meet in one call: `RiskGate`
  fills an order at once, `LiveTrading` takes a failed check for a HOLD, and
  `BrokerOrders` has the calls without the loop. A composition would multiply
  their states without a property that needs two of them.
