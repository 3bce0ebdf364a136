# A verification of crypto-trading-mcp

TLA+ modules, TLC configurations and TLAPS proofs kept beside the Python code of
`src/src/crypto_trading_mcp`. File names below are relative to that directory; `docs/` is the
repository's.

## 1. The system

The program trades on paper: agents analyse a market and propose a trade, the planner and the
risk engine turn the proposal into a plan, and the paper engine sends it to a simulated
exchange that keeps the orders and a portfolio. Around this core are an autonomous loop that
repeats it once a minute, a durable kill switch, a sandbox executor with an order ledger and
reconciliation, a learning system that retrains and promotes models, a backtest, a webhook, a
dashboard and a command line. Real-money execution is disabled by construction.

| Component | State it keeps | Operations | What is hard |
|---|---|---|---|
| Portfolio (`portfolio/manager.py`) | cash, realised result, fees, one position per symbol | open, close, snapshot, reset_day | partial closes, two sides, errors raised half way |
| Paper exchange (`exchange/paper.py`, `trailing.py`, `fees.py`, `slippage.py`, `models.py`) | orders, seen client ids, prices, stale symbols, api failure counter, halt, position rules | create, cancel, expire, price update, end of day, halt, failure simulation, rules | resting orders against protective exits, partial fills, halts, retries with one client id |
| Paper engine (`paper/`) | exchange, kill switch, session, STOP file, persisted orders and fills | start, stop, safe_restart, reset, execute_approved_plan | gates in order, a stop between gates, saves after the fact |
| Autonomous loop (`autonomous/`) | running flag, stop event, thread, processed keys | start, stop, run_once | two drivers of run_once, a crash between fill and save, a stop that times out |
| Order ledger and sandbox execution (`orders/`, `sandbox/execution.py`, `lifecycle.py`, `delta_sandbox.py`) | intents by idempotency key, order states | persist, mark, execute, reconcile, cancel_all | ambiguous answers, restarts between persist and submit |
| Stage-2 runtime and durable kill switch (`sandbox/stage2_runtime.py`, `live/durable_kill_switch.py`) | stored and in-memory switch, cycle state | start, run_cycle, recover, activate, deactivate | a crash between the store and the memory, a flag that is read before the order it should stop |
| Reconciliation (`reconciliation/service.py`) | none | compare | comparing the right two snapshots |
| Live gate and stages (`live/stages.py`, `gate.py`, `policy.py`) | stage, audited changes | promote, demote, evaluate | promotions and demotions in any order; a policy names a stage of its own |
| Risk engine (`risk/`) | limits | merge, evaluate | three sources of limits merged field by field; absent data |
| Proposal orchestration (`orchestration/`, `agents/`, `llm/`) | breaker latch, phase | analyze, propose, evaluate_proposal | two looks at the market, answers that are broken or absent |
| Compliance and planner (`compliance/`, `execution/planner.py`) | none | plan, evaluate | rounding, the side of a stop |
| OKF policy (`okf/`) | none | resolve, gates, breakers, models | thresholds at equality; absent data; breakers with limits of their own |
| Learning (`learning/`) | trades, failure log on disk, calibration, versions, champion, proposals | on_trade_close, run_retraining, validate, roll back | threads without a lock, a status that is read before it is acted on, a log rewritten as a whole |
| Webhook (`webhook/tradingview.py`) | nonces, keys, arrivals | handle | replay at the edges of three windows |
| Market data (`market/`) | cache, health | get_or_set, gateway, snapshot, indicators | two fetches for one entry of the cache |
| Dashboard (`dashboard/`) | shared runtime, history of events, a queue per client | requests in a thread pool, publish, web socket | shared state without a lock, a client that connects while an event is delivered |
| Backtest and strategy (`backtest/`, `strategy/`) | none beyond one run | replay, signals, features, folds, metrics | look-ahead, leaks between folds, labels by position in a list |
| Exchange adapters, credentials; command line, server and tools | — | I/O and formatting | — |

They interact by calls on shared objects. The loop, the dashboard's requests and the tools call
the orchestrator and one paper engine from several threads; the engine calls its exchange, the
exchange its portfolio. The Stage-2 runtime calls execute, which writes the ledger and asks the
exchange; the kill switch reaches it through a copy in its arguments and through the store. The
learning engine is called after a trade, by any of these threads. The webhook, the live gate and
the market gateway are called with nothing but the clock between the calls.

## 2. Plan

The order is by what a wrong step would cost: first what moves money and positions, then what
must survive a crash, then what decides whether to trade, then what feeds and watches it.

1. *Done.* The paper core: `RunningTotal`, `Portfolio`, `OrderLifecycle` (what a venue promises
   about an order), `PaperExchange` (refines it), `MCPaperExchange`; proofs of the books.
2. *Done.* What survives a restart: `OrderPlacement` (what an idempotency key promises),
   `SandboxExecution` (refines it), `KillSwitch`, and `Stage2Runtime`, which composes the last
   two; proofs of the safety properties of all three.
3. *Done.* What drives: `PaperEngine` (the gates of `execute_approved_plan` against the
   kill switch, a reset and a second plan; the turnover limit), with proofs of all its properties, and
   `AutonomousLoop` (start, stop that times out, the file of processed keys), with its liveness.
4. *Done.* What decides: `RiskEngine`, `TradeProposal`, `MarketAnalysis`, checked case by case, and
   theorems about them for every limit, trade and book.
5. *Done.* What learns and what is replayed: `Learning`; `Indicators`, `Signals`, `Backtest`, with
   `RiskEngine` inside.
6. *Done.* The edges: `Webhook`, `MarketGateway`, `LiveGate`, `EventStream`, side by side in `MCEdges`;
   proofs of all four.
7. *Done.* The theorems the first proofs left: the rest of the exchange with its refinement, the
   loop, the decisions of the walk, the learning, the webhook.
8. *Done.* Theorems about the replay: all six properties of its run, so that every safety property that a run
   checks is also a theorem.
9. *Left.* Code: the prediction ensemble M4, the parser of the strategy files, the web-socket feed, the
   cycle and health records of the Stage-2 runtime.

## 3. Modules and the code

| Module | Code | Extends or instantiates |
|---|---|---|
| `RunningTotal` | (arithmetic) the sum of an integer function over 1..n, as a recursive function | |
| `Portfolio` | `portfolio/manager.py` as operators on a record of cash, realised result, opening fees and one position per symbol | `RunningTotal` |
| `OrderLifecycle` | abstract: `ORDER_TRANSITIONS` of `exchange/models.py` | |
| `PaperExchange` | `exchange/paper.py` with `trailing.py`, `fees.py`, `slippage.py` | `Portfolio`, instance of `OrderLifecycle` |
| `OrderPlacement` | abstract: what `orders/ledger.py` and `execute` promise of a key | |
| `SandboxExecution` | `sandbox/execution.py`, `lifecycle.py`, `delta_sandbox.py`, `orders/ledger.py`, `compare` of `reconciliation/service.py` | instance of `OrderPlacement` |
| `KillSwitch` | `live/durable_kill_switch.py` over `live/kill_switch.py` over `risk/config.py` | |
| `Stage2Runtime` | `sandbox/stage2_runtime.py`, the loop of `cloud_paper.py` | instances of `SandboxExecution` and `KillSwitch` |
| `PaperEngine` | `paper/engine.py`, the turnover limit of `compliance/policy.py`, the kill and reset requests of `dashboard/routes.py` | |
| `AutonomousLoop` | `autonomous/loop.py` | |
| `RiskEngine` | `risk/config.py`, `risk/engine.py`, the resolver and the three gates of `okf/` | |
| `TradeProposal` | `agents/implementations/consensus.py`, `execution/planner.py`, `orchestration/proposal.py`, `okf/circuit_breakers.py` | `RiskEngine` |
| `MarketAnalysis` | the snapshot of `market/data.py`, `llm/providers.py`, the other agents, `orchestration/orchestrator.py` | `TradeProposal` |
| `Learning` | `learning/engine.py`, `memory.py`, `calibration.py`, `retraining.py`, `champion_challenger.py`, `scheduler.py`, `rollback.py`, `validation.py` | |
| `Indicators` | `market/indicators.py`, the session levels of `strategy/features.py` | |
| `Signals` | `backtest/signals.py`, the features of `strategy/features.py`, the models of `okf/strategies.py` | `Indicators` |
| `Backtest` | `backtest/engine.py`, `splits.py`, `metrics.py` | `Signals`, instance of `RiskEngine` |
| `Webhook` | `webhook/tradingview.py` | |
| `MarketGateway` | `market/gateway.py`, `cache.py`, `health.py` | |
| `LiveGate` | `live/stages.py`, `policy.py`, `gate.py` | |
| `EventStream` | `dashboard/event_bus.py`, `websocket.py`, `cycle.py`, two requests of `routes.py` | |
| `MCPaperExchange`, `MCSandboxExecution`, `MCPaperEngine`, `MCLearning` | small instances for TLC | the module of the same name |
| `MCTradeProposal` | a walk over the cases of a decision, and what must hold of each | `MarketAnalysis` |
| `MCBacktest` | candles for TLC, and what must hold of signals, folds and metrics | `Backtest` |
| `MCEdges` | four scenes, one of each part at the edge; the properties of their modules | instances of the four |
| `*Proofs` | theorems and their proofs | the module of the same name (`EdgesProofs`: `MCEdges`; `TradeProposalProofs`: `MCTradeProposal`; `LearningProofs`: `Learning` and `MCBacktest`), `TLAPS` |

Operators named `<Definition>_<Word>` are mutants: the definition with a plausible bug. They are
used by nothing; each shows that the property it is paired with in `PROJECT.json` can fail.

**PaperExchange.** Each public method is one action, named after it. Two methods loop, and an
exception or a rejection half way leaves what was done so far: `on_price_update` is a first action
(`PriceUpdate`), one action for each order that was open when it began (`TickSkip`, `TickFill`,
`TickReject`, `TickRaise`), and `ManagePosition`; `end_of_day` is `EndOfDay` and one `EodFlatten`
for each position. The exchange has no lock, and no other method runs while `call` says that a loop
is in progress: the callers of this class call it from one thread at a time, and the interleaving of
callers belongs to the engine above. Quantities and prices are integers: in `partial_fill` mode half
of what remains is filled, an odd quantity rounded up. The average price of a position is kept as
its quantity and its cost, so that no division loses anything; the portfolio operators say what the
code's floating-point formulas mean. A trailing stop has an absolute distance; the percentage
mode computes its distance and continues the same way. `create_order` is given the market price
that is set: no caller passes another one. `exited` is a history variable (what exits took off a
position, which no order explains) and `raised` records an escaped exception.

**SandboxExecution.** `execute` is a sequence of writes to the store and requests to the exchange;
each is an action, and `Stop` ends a call between any two (a crash of the process, or an exception
that leaves `execute`). A key row and an intent row are two writes. The exchange is external: it may
lose a request or an answer. The local harness of the repository never does, so the ambiguous
paths are those of the remote adapter. Blocked calls leave their row PERSISTED, and a lost answer or
a stop leaves it SUBMITTING, as in the code. `Compare` is the reconciliation; every caller in the code
gives it the exchange's snapshot twice.

**KillSwitch.** `activate` and `deactivate` are split where the memory, the cancellation and the
row change. The append of the event rows is left out: nothing reads them. `held` is auxiliary.

**Stage2Runtime.** A cycle is stopped at its gate (`BlockCycle`) or passes it (`PassCycleGate`), reads the
switch again into the flag of the service (`ReadFlag`), calls execute with that flag (`CallExecute`), and goes
on with the actions of `SandboxExecution`; an operator works other switches on the same store between
any two of these, so a call may carry a flag that is older than a halt. The process ends at any point
and loads the switch when it is started again. `late` (orders since the halt) and `heard` (whether a
runtime has read the switch since) are auxiliary. The store is durable here,
as the documentation says, although the cloud-paper process builds one in memory.

**PaperEngine.** The dashboard runs its endpoints in a pool of threads over one engine without a lock, so
each read of a shared switch, position or counter in `execute_approved_plan` is an action, and other
requests come between. The exchange is what the engine and its checks see of it: its halt, its last fill
and who holds its positions. The engine's orders are market orders, and only the replay, on an engine
of its own, sends price updates, so nothing rests and nothing exits. The market data, the correlation
filter, the blocked strategies and the limits of the risk engine may refuse any plan. `reset` is two
actions, the new exchange and the cleared turnover. `safe_restart` is called by the command line, on
an engine that no other thread shares, so it happens when nothing else is under way. `traders` (every
strategy that traded a position since it was opened) and `late` are auxiliary.

**AutonomousLoop.** The thread is `BeginCycle` to `Finish`, one action for each access to the event, the
keys and the file; `stop` takes no lock and is split the same way. What `start` does under the lock up
to the new thread is one action, and clearing the flag and copying the keys in `stop` another: only a
start that meets a stop could tell them apart, and `use` records that. A cycle's key is any minute:
nothing forces the clock forward. The order is executed or not; the engine is `PaperEngine`. No code but
the loop calls `run_once`. A write of the file that a crash interrupts may leave it unreadable. `executed`,
`late` and `use` are auxiliary.

**RiskEngine, TradeProposal, MarketAnalysis.** These parts compute: each definition is an operator, named
after its function, from the inputs of a call to its result, and a refusal is the set of its reasons. Rates
are in hundredths of a percent (`BasisPoints` to one), quantities in lots, and a value that is absent is
`None`, which every comparison in the code treats in its own way. `Resolve`, `ApplyToLimits` and
`EffectiveLimits` are the three merges of the limits, in the order in which the program applies them.
`Analyze` is the pipeline of the agents: a provider answers, is not available or raises, the text of its
reply holds an object or not, and each agent makes a message of it; `Consensus` weighs the messages and
`Plan` takes its prices from candles of a second fetch. The one state that outlives a call, the
latch of `CircuitBreakerService`, is an input and an output of `EvaluateProposal`. Its breakers can be
switched off one by one in the configuration, and the breakers of the document (`OKFBreach`) hold two limits of
their own: the switches and these limits are inputs as well.

**Learning.** One engine is shared by its callers' threads and only the memory has a lock. In CPython a thread
may give way at a call, so what a thread does between two calls on shared state is one action, and the calls
are apart: `on_trade_close` is the record with its export (`CloseTrade`), the prediction (`NotePrediction`,
`TrimWindow`, `JudgeCalibration`), the adaptation of the multiplier (`ReadCalibration` reads the status,
`AdaptKelly` sets the multiplier by it), `Count`, the retraining (`Train`, `PickChallenger`, `Crown`) and
`Propose`; a rollback reads the champion and then rewrites the flags (`StartRollback`, `Rollback`). The
dashboard's demo cycle adapts the multiplier without a trade (`AskKelly`). An export that fails leaves the file
as it was, or, because the file is cut off before it is written, a torn one, and the process goes on
either way; `DieInExport` is a process that ends there. `Restart` forgets what is in memory and loads the
log, without items that have no `trade_id`. Proposals do not touch each other, so the model follows one, any
of them. `local` is what a thread has read; `overlapped` (two threads retrained or rolled back at once)
and `stale` (the calibration had changed between the reading and the setting of the multiplier) are
auxiliary.

**Indicators, Signals, Backtest.** A series of candles is extended bar by bar, and with each bar the
engine's step for every strategy: the price update with its protective exits, the signal, the risk
engine's decision, the order with its fee and slippage, the label and the equity. Prices are integers in
hundredths and divisions drop the remainder. The look-back periods are constants, short ones in the
instance. The series always holds one candle that has not been replayed, so that look-ahead can happen.

**Webhook, MarketGateway, LiveGate, EventStream.** `handle` is called by one caller at a time (in `src/`
only by tests), so each request is one action, by where it ends (`TurnAway`, `Reject`, `Burn`, `Emit`). A
call of the gateway is a look at the cache, a fetch, a store and a return; other callers come between. A
policy is put together with any stage its author names, kept, and judged later; no code copies the manager's
stage into it. The gate and the stages are called by an assertion at the start of the cloud-paper process,
the CI and tests. `publish` extends the history under the lock, and then feeds the queues one by one
(`Put`); a connection is subscribed, reads the history, sends it, and then sends its queue. A group of
events that the demo cycle emits in a row stands as one event. Heartbeats, and the time stamps of stages,
are left out.

## 4. What TLC checks

Fairness is assumed in one place, for the steps of the loop's threads in `AutonomousLoop`: the system
schedules them, they wait for no lock, the wait between cycles ends, and a cycle works on data in memory. It
is what `StopStops` needs. Every other component acts only when it is called, nothing in the code promises
that a call ever comes, and its properties are safety properties. Deadlock is checked for `PaperExchange`,
`AutonomousLoop` and `MCEdges`, whose methods can always be called again. The models with a finite supply of
keys, intents, plans, trades, candles or departures stop when it is used up, so their configurations switch
the check off. `MCEdges` and `MCLearning` use symmetry: their properties are safety properties, and nothing in
the code or in them tells the threads, callers or nonces apart.

| Run | Instance | What it shows |
|---|---|---|
| `orders` | any 2 orders out of 6 requests (every type, both sides, one with a client id), prices 10, 20, 30, fee and slippage 10 %, partial fills and an outage on and off, the second failure opens the breaker | cash, positions, order status and fills agree after any mix of fills, partial fills, cancels, expiries, exits and the end of day; the breaker latches; a client id is accepted once; the order life cycle is implemented |
| `rules` | 2 protected orders, LONG and SHORT, 3 sets of rules (breakeven with partial take profit; breakeven with trailing and mean reversion; a widening trail), 4 prices | stops never loosen, no position survives its own stop or target, every exit's result is logged |
| `restarts` | 1 service that may stop anywhere, 2 keys, 4 intents (two tries of each key) | one order for each key; a blocked call places nothing; the abstract placement is implemented |
| `late` | 1 runtime, 1 operator at another switch, 2 keys, 2 intents | a stored halt holds; under it at most one order is placed, and none once the runtime has read the switch |
| `engine` | 2 threads, 3 plans of 3 strategies for one symbol (one of them on the other side), 1 operator, a turnover limit as large as one plan | under a stop each thread fills at most the order on its way; the turnover limit and the rule of one strategy for a position are exceeded by at most what the other threads bring; the last fill is saved |
| `loop` | 2 threads, 1 caller of start, 1 of stop, 2 keys, joins that time out, restarts | one thread drives and a key is executed once in regular use; after a stop at most one order for each thread; a stop stops |
| `decisions` | a case in which the trade is approved, and every case that departs from it in at most 3 of 72 inputs | an approval is within every source of limits; a document or missing data never opens a trade; an approved plan keeps the budget, is protected and was made on fresh data; a loss limit that is reached stops the trade, whichever of the three tests is on |
| `learning` | 2 threads, 2 trades out of a predicted win, a predicted loss and an unpredicted loss without an id, a window of one, 2 trainings, rollbacks, restarts, exports that fail before or after the file is cut off, deaths in an export | the champion is the last challenger that was accepted unless two retrainings or rollbacks overlap, and passed the gate in any case; the multiplier follows the calibration unless a reading was overtaken; no failure with an id is lost but by a start on a torn file |
| `replay` | every series of up to nine candles that eight shapes make, with up to two missing bars, under four strategies | nothing looks ahead; signals are protected; M1, M2 and M5 do not contradict each other, and M3 confirms what it must; folds do not leak; labels and metrics are what they are named |
| `edges` | the webhook (2 nonces, 1 key, 6 moments); the gateway (2 callers, 6 moments); the stages (5 changes, from both stages a manager is made in, and policies that name any stage); the events (2 requests, 1 client, a replay and a queue of two) | one alert makes one intent; a served price is fresh; the manager came through every stage; a client misses nothing |

Two orders are enough for the exchange: no rule relates three orders, and a third only repeats the interplay
of an order with the position that the first two leave. Orders of two symbols share only the cash, and the
books are proved for any number of symbols. Four tries on two keys let a key be tried again after each way a
first try may end. The prices are chosen so that every trigger is below, at and above the market at some
time. Two threads on the engine show every interleaving of two plans, and the theorems of section 5 hold for
any number. In the loop two threads are the one that drives and one that a stop gave up on; a thread needs
two keys to trade twice. In `decisions` a wrong merge, comparison or guard shows in a case that departs in
the two or three inputs it relates. In `learning` the second trade is the one that makes a window of one
forget, the interval of two lets it start the retraining of the engine while the tool starts another, and
two threads are what it takes for a reading to be overtaken. Nine candles let each of the instance's short
look-backs fill, a signal be acted on and its position be closed again; the shapes open within the jump of
the candle before, so that a series may also leap; each of M1, M2, M3 and M5 confirms on some of them. In
`edges` the windows are shorter than the time there is, so that each of them ends before the last request;
five changes go up, down and up again.

`OneDriver` and `OneOrderPerKey` of the loop state when they hold, and each exception is real: if `use` is left
out of them, TLC shows a stop that gives up after five seconds and a start that runs a second thread, so that
both find the key missing; a start that meets a stop, or the last save of the thread before; a stop whose save,
made while a foreground thread runs, overwrites a newer one; and a crash between an order and the save of its
key. In the same way `ChampionsEarned` excepts retrainings and rollbacks that overlap (they leave two champions,
or none), `KellyFollowsCalibration` a reading that another thread overtook (it sets the base multiplier under a
degraded calibration), and `FailureLogKept` a process that starts on a file torn by a death or by an export that
failed half way (it has lost the log). `IntentsAnswerAlerts` speaks of one life of the process: a restart forgets the nonces.

Two runs state what the documentation promises and TLC refutes:

| Run | Promise | What happens |
|---|---|---|
| `update_raises` | any open state may become REJECTED (`docs/ORDER_LIFECYCLE.md`) | a PARTIALLY_FILLED order cannot, and `on_price_update` raises in its middle |
| `ambiguous` | reconcile before retry (`docs/STAGE2_CLOUD_PAPER.md`) | the reconciliation compares a snapshot with itself; FAILED intents may have orders |

More disagreements were met while modelling; the models do what the code does, and no run is spent on them.

Orders, halts and restarts:

* The kill switch prevents new risk (`docs/FAILURE_HANDLING.md`:5), but orders that rest when the exchange is
  halted still fill and open positions.
* A clearance that is on its way when a halt is stored overwrites it.
* The failure counter of the exchange counts all failures, not those in a row; a refused order burns its client
  id; the rules of a position, with what is done of them, pass to the next position of its symbol; a buy
  that closes a SHORT logs no trade.
* A kill blocks and then cancels (`docs/LIVE_KILL_SWITCH.md`:5), but the row still allows trades while the
  orders are cancelled.
* A TAKE_PROFIT order outlives its position and then opens the opposite one
  (`docs/ORDER_LIFECYCLE.md` calls it a protective exit).
* The poll after an acknowledged submit drops the exchange's status, so an open order is marked FILLED
  ("never assumed filled", same file). `risk_ok` and `market_fresh` of `execute` default to true, and the
  runtime sets neither.
* `main` of `cloud_paper.py` builds its runtime on a store in memory, so a restart forgets the halt
  (`docs/STAGE2_CLOUD_PAPER.md`: durable kill switch).
* `recover` compares the exchange with itself and reads no intent, so the order of a crashed cycle stays
  unknown (its docstring: load state, reconcile, resume safely). Every cycle has a fresh id and with it a
  fresh key, so after a restart the ledger never meets a key twice.
* "Duplicate cycles do not create duplicate paper orders" (`docs/ORDER_IDEMPOTENCY.md`): see the exceptions of
  `OneOrderPerKey` above. A partial fill also leaves no key, and the file keeps the last 500 keys in the
  order of their hash, not of their time.
* `daily_turnover` and `max_turnover_usd_per_day` speak of a day, but no new day resets the turnover, only
  `reset` does; a partial fill is not counted. `end_of_day` and `reset_day` are called by tests only, so
  in the running program every limit of a day is a limit of the process.
* The engine saves `fills[-1:]`, so a rejected order saves an earlier fill once more, and with two plans
  under way one fill may be saved twice and the other never.

Decisions:

* `okf/resolver.py`:235 says that the limit of the risk of a trade is enforced; `evaluate` never refuses on it,
  only the planner's quantity respects it, and the planner merges the limits without the document.
* The correlation gate is asked only if the positions are given, and `ProposalService` never gives them;
  a missing liquidity or number of bars passes.
* A breaker of `CircuitBreakerService` that is switched off, or a breaker of the document whose own limit is
  looser than the engine's, does not trip on a loss that the risk engine refuses; with a stricter one it
  trips first.
* The latch of `CircuitBreakerService` is never reset. With `enabled=False` the compliance policy also
  gives up its check of the paper mode.
* The plan is made on candles fetched after the agents had theirs; `fetched_at` is the clock of the
  process, so a price that the feed repeats is always fresh.
* A confidence that is no number fails a market agent, and one that is absent does not.

Learning:

* Two retrainings at once leave two champions or none ("Champion not silently replaced",
  `docs/LIVE_TRADING_TEST_PLAN.md`:40), and so may a rollback and a retraining.
* "Degraded calibration → reduce confidence weighting and Kelly multiplier" (`docs/CALIBRATION.md`:5): a thread
  whose reading of the status is overtaken sets the base multiplier after another one has set the degraded one,
  until the next adaptation; a good trade adapts nothing, so a reduced multiplier stays until a cycle of
  the dashboard asks; and the default minimum of 0.25 hides the degraded 0.125.
* "Never delete" (`learning/memory.py`:54), but an export that fails half way is swallowed, and a restart before
  the next one starts without a log; items without a `trade_id` are not read back, and the next export
  drops them; a second process on the file erases the log.
* `validate_learning` reopens accepted proposals; after a restart `last_trained` counts the history it loaded.

Backtest:

* The notional cap is 2 % of the initial capital while the risk engine takes its share of the current
  equity: after a net loss a capped plan is refused.
* Records leave out the entry's fee and slippage and the partial exits; the look-ahead guard checks the
  slice it made itself; a bar that touches both levels resolves to the target of a LONG and to the stop
  of a SHORT; a take profit fills at the high of its bar; folds shorter than the warm-up never trade.
* `market_structure_break` (`market/indicators.py`:360) tests the bullish side first, and M3 then asks a
  SHORT for a price above the middle of a range whose low it broke: `evaluate_m3_ict_fvg` confirms no SHORT,
  and a LONG only if the last swing high is below the last swing low (the table of
  `docs/OKF_GUIDELINES.md`:109 names no such condition). In the instance it confirms a LONG where M1 or M2
  confirms a SHORT, so `OKFModelsAgree` leaves M3 out of the comparison.
* `okf/strategies.py` takes the last candle whether it has closed or not; only tests call it with candles
  of their own (`docs/STRATEGIES.md`:95).

Edges:

* "No skipping. … Evidence + operator required" (`docs/TRADING_STAGES.md`:5) binds the manager, not the
  gate: a policy names a stage of its own, and one that names STAGE_5 or STAGE_6 is judged without a single
  promotion (`tests/unit/production/test_production_readiness.py`:116 builds one so); a demotion, a step of
  the rollback (`docs/LIVE_ROLLBACK.md`:5), changes no policy either.
* The demo cycle publishes POSITION_CLOSED, and teaches the learning a WIN, while the position is open. A
  client that is flooded sees events out of order, and a full queue drops them silently.

## 5. What is proved

All theorems hold for every value of the constants under the assumptions named in the modules.

* `PaperExchangeProofs`: `TypeOK`, `CashExplained`, `PositionsWellFormed`, `FillsExplainPositions`,
  `StatusMatchesFills`. The invariant is their conjunction with the type of the portfolio, with prices for
  all held symbols, and with what a loop in progress relies on (what it has still to visit is as it was).
  The books only balance because every booking is an open or a close of `Portfolio`, whose effect on the
  books is stated first, operator by operator; a sum over all symbols changes by what changed on one of them
  (the prover has no induction over data, so each fact about a sum is proved by looking at the least index
  at which it would fail). On this invariant rest four properties of steps: `StopsNeverLoosen` and
  `StopsHonoured` follow a position through breakeven, partial exit, trail and exit; `ResultsLogged`
  compares what an operator of the portfolio realises with what the log gets; `ImplementsLifecycle` maps
  every action to a step of `OrderLifecycle` or to none. `BreakerLatched` and `ClientIdAcceptedOnce` have
  small invariants of their own (a client id is remembered by the first order that is accepted with it).
* `SandboxExecutionProofs`: `TypeOK`, `OneOrderPerKey`, `PersistedFirst`, `FoundByKey`, `KeyRowTrails`,
  `StatusMovesForward`, `BlockedNeverPlaced`, and the refinement of `OrderPlacement`, under the assumption
  `Alone`: one service at a time uses the store. With two services they do not hold (persist reads
  the row of a key before it writes it), and the store's docstring rules that out. The
  inductive invariant adds where a running call is (`CallsAgree`: what its rows hold at each point of
  execute), that the row of a key names an intent of that key at most one status ahead (`RefsAgree`), and
  that the two rows lead to each order (`OrdersAgree`).
* `Stage2RuntimeProofs`: `HaltHolds`, `LateOrdersBounded` and `HeardHaltStops` for any number of runtimes
  and operators on one store, without `Alone`. The invariant adds that a held halt is stored and no
  clearance is on its way, and counts, for each runtime, the order it placed or may still place: a cycle
  that is beyond its gate, or a call that is not blocked and not yet beyond its submit, began before the
  halt. A runtime that has read the switch under the halt has nothing left that may place an order: what it
  has in hand is a cycle whose next reading, or a call whose flag, blocks it.
* `PaperEngineProofs`: all properties of `PaperEngine`, each with an invariant of its own over the types
  and the place of each call. `LateFillsBounded` counts the fill a thread past its last check may still
  make. `TurnoverBounded` charges the plans past compliance in advance: the last one that passed found room for
  itself, each of the others brings at most the largest notional. `StrategiesBounded` follows from who
  can still join a held position: plans of its own strategy, and those already past the conflict check, of
  which there are at most as many as threads.
* `AutonomousLoopProofs`: the type, `OneDriver`, `OneOrderPerKey` and `LateOrdersBounded`, for any number of
  threads and callers. The invariant says, as long as `use` is regular, which thread may drive and where the
  caller of `stop` is; that a key that was executed is in the keys, on the disk, or in the hands of the
  thread that is about to add it; and it charges a thread past its last look at the stop with its order in
  advance.
* `TradeProposalProofs`: first facts about one decision, for every limit, trade, book and equity. An
  approved trade is within every source of limits (`ApprovalKeepsEverySource`), a document only refuses more
  (`DocumentNeverOpens`), and so does missing correlation data (`IgnoranceNeverOpens`): the merged limit of
  each field is at most that of each source, and every refusal is monotone in its limit.
  `BreakersTripTogether` compares the three tests of the losses, whichever breakers are on and whatever
  limits the document's hold, and `PlanKeepsBudget` follows the quantity through its two roundings, each of
  which only lowers it. Then the walk of `MCTradeProposal`: its cases are typed by the table of inputs,
  whatever number of departures it is allowed (`CasesTyped`), and with that the four properties of the run
  follow from the facts, the pipeline of the agents included.
* `LearningProofs`: `ChampionsEarned` and `KellyFollowsCalibration`, for any number of threads. Of a version
  that a thread has in hand the invariant says that it is registered, and, if it is the champion to roll
  back to, that it passed; that a champion was accepted and passed; and, as long as no two retrainings or
  rollbacks overlapped, that the thread in between is alone, that its challenger is the latest version and
  its champion the one there is. The multiplier is right whenever the reading it was set by still held, and
  whoever makes the calibration degraded is then on its way to a reading of its own. `FailureLogKept`: what
  a start would read back from the file is a prefix of what it would read back after the next export, and
  what was read back is exported and read back again as it is. What `Sifted`, the selection behind both,
  does with one more item is proved on its table, at the least entry. Then all properties of the replay, for
  every shape of candle, gap, look-back, fee and lot. Its invariant has three parts: the times only grow
  (`Forward`), every candle is a shape at some time (`Shaped`), and the numbers of each book are numbers,
  with a quantity and an entry exactly while a side is held (`BooksSolid`). What the indicators compute is
  proved of their tables, at the least entry that differs. `OnlyThePast`: the selection of what is closed by
  a time gives the same candles in a longer series, and a longer candle that is complete holds no candle
  that comes later. `SignalsProtected`: the average range is at least a unit if a close leaves the channel,
  the far side of the channel lies behind that close, and a percentage of a close is at least a unit.
  `OKFModelsAgree`: if the last bar opened where the one before it closed, each of M1, M2 and M5 confirms
  only the side to which that bar itself closed; a price that broke the structure and is past the middle of
  the swings leaves M3 one case. `MetricsMatchDefinitions`: at every point of a scan the current run is as
  long as the last stretch on which the test holds, and the longest is the longest so far.
  `LabelsMatchSides`, because nothing between an entry and its exit touches the side, and no position is
  opened while one is held, so that the openings are always the records, or one more; `FoldsDoNotLeak`,
  because the times of a series never go back, so that the spans of time of a fold are spans of indices, for
  every length and spacing.
* `EdgesProofs`: `ServedAgeBounded`, for any times and callers (an entry expires at most a call and the
  lifetime of the cache after the feed was read, a call that found it ends at most a call later);
  `StagesWereEarned` (at every time each stage up to the present one is one the manager was made in or above
  and never left downwards, or has a promotion later than every demotion below it); `NothingMissed` (every
  event since the first one of a replay is sent, in the replay, in the queue or on its way, and a client
  that has a replay was subscribed before it looked at the history); `IntentsAnswerAlerts` (a nonce of an
  intent is kept as long as its stamp is accepted, a key as long as it blocks another, and the intents of a
  minute are among the arrivals counted in it).

Only model-checked: `StopStops`, which is liveness under fairness and needs ENABLED. The two documented
promises that TLC refutes are, of course, no theorems. `PositionsWellFormed`, `PersistedFirst`,
`FoundByKey`, `KeyRowTrails`, `StatusMovesForward` and the types of the modules with proofs are proved and
not run again. The types of `Learning` and of the replay are stated with their models, the latter is proved
(`ReplayTyped`), and no run is spent on them.

The assumptions are named in the modules and TLC evaluates them on the instances. Most only give a constant
its type (`MaxAgeAssumption`, `RateAssumption`) or keep the value that stands for nothing apart from the
values it stands beside (`NoneAssumption`, `WordAssumption`, `AbsentAssumption`); `ClosingsAssumption` is
what `classify_trade` returns and `ExchangeAssumption` what the configuration of the exchange is validated
to be. The replay has six. Look-backs are positive, the fast one is shorter than the slow one, and M5 waits
for more candles than its channel has (`PeriodsAssumption`: 20 and 50, 25 and 20 in the code). Candles are
the valid ones that `validate_candles` lets through, in natural numbers (`ShapesAssumption`); gaps are
numbers of bars (`GapsAssumption`); capital, lots, fees and slippage are what a configuration may hold
(`AccountAssumption`); some bar is replayed (`BarsAssumption`). `UnitAssumption` makes up for integers: the
code divides floating-point numbers, the model drops the remainder, and a stop of a fraction of a unit would
be none. So two prices differ by nothing or by at least the period of the average range, and a close is at
least 50 units (its two percent are one): a choice of the unit of price, not a limit on prices.

## 6. What is not modelled

* `exchange/coinbase.py`, `delta_india.py`, `factory.py` and the credentials: network requests and secrets;
  their order methods always raise.
* The command line, the server, the tools, alerts and the CI's gates: they format calls into the
  components above.
* `exchange/prediction.py`, the prediction-market book; the prediction ensemble M4; `okf/sizing.py`, which
  only tests call; the parsers of the strategy files and of the guideline document; ratios and Monte Carlo
  runs of the metrics; the drift monitor, reflections and post-mortems of the learning; prompts and
  retrieval.
* The web-socket feed of the market, which is disabled by default; the agents' status on the dashboard.
* Inside the modelled components: the metadata of orders and trades, event logs, wall-clock times of the
  exchange (a stale symbol is a flag that `mark_stale` sets), the percentage mode of the trailing stop,
  slippage that depends on volatility or volume, `snapshot` and the daily counters of the portfolio, the
  failure modes `rejected_order` and `stale_market_data` (they refuse as a stale symbol does, and no run
  switches them on), the health and cycle records of the Stage-2 runtime, the running flag, session and logs
  of the paper engine, the counts, learning records and cycle states of the loop, and a disk that refuses to
  write its file. Stamps of the webhook are finite numbers and its clock never runs backwards.
