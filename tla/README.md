# Verification of kis-autotrader

kis-autotrader trades Korean (and, as a second process, US) equities through the
KIS OpenAPI. One asyncio engine decides and orders, a PostgreSQL table is the
outbox between it and a worker, a scheduler starts its jobs, an operator steers
it over Telegram and a halt file, workers of their own screen stocks and collect
news, and a harness lets agents improve the program over night. This directory
holds TLA+ models of these parts, the TLC runs over them, and TLAPS proofs.

Paths in this file are relative to the repository root (`src/engine.py`,
`main.py`); `PROJECT.json` maps every definition to the lines it models.

## 1. Inventory

### Components

| Component | State it keeps | Correct when | Module |
|---|---|---|---|
| **Trading engine**, `src/engine.py` | pending orders, trade counts, cooldowns, loss blocks, balance cache | every accepted order is tracked until its fate is known; a fill is recorded once; limits hold over late fills and restarts | TradingEngine |
| **Day limits**, `src/strategy/risk.py` | profit of the day, its peak, loss streak, halt and its reason | the halt is up exactly when a limit was breached or the operator asked | RiskRules, RiskManager |
| **Exit rules**, `src/strategy/risk.py`, engine | peak price and holding time of each position, portfolio row | the rules use the peak of this position; a protected gain is not given back | ExitRules, HeldExit |
| **Buy decision**, engine | the cycle's deposit, lists of stocks, pending values | each signal has one account; no order beyond the cash | BuyFunnel |
| **Strategies**, `src/strategy/*.py` | none but the configuration | an abstention does not dilute a vote | Strategies |
| **Screening**, `src/worker/screener.py`, engine | `screening_results`, the watched set | what is watched has passed the filters | Screening |
| **Overseas desk**, `src/api/overseas_*.py`, engine | exchange of each US stock | what is held or ordered is asked for at its own exchange | OverseasDesk |
| **Task queue**, `src/worker/queue.py`, `runner.py` | table `task_queue`, the worker's batch | one worker per row, one row per key, every accepted task settles | Outbox, TaskQueue |
| **Handlers, books of the day**, `src/worker/handlers.py`, repositories | trades, reports, daily summary | the reports of a day agree | EndOfDay |
| **API client**, `src/api/client.py` | breaker, retries | an order acts at most once; a server that is down is spared | ApiClient |
| **Rate limiters**, `src/api/rate_limiter.py` | daily count, asyncio lock, Redis counters | the quota is overshot by the concurrent callers only | ApiClient, JobThreads, SharedLimiter |
| **Access token**, `src/api/auth.py` | token, cache file, retry gap | one issue a day, no needless outage | AccessToken |
| **Price stream**, `src/api/websocket.py` | subscriptions of a connection | what is listed is subscribed | RealtimeQuotes |
| **Scheduler**, `src/scheduler/*.py`, `main.py` | jobs, their threads, the day's registration | a cycle counts the sales of its own day | Session, JobThreads |
| **Operator**, `main.py`, `src/notify/bot.py` | Telegram offset, halt flag | a command is carried out once | OperatorBot, RiskManager |
| **News worker**, `src/worker/collectors/` | time of each collector, chunks | nothing is lost without a cause | NewsCollectors |
| **Backtest**, `src/backtest/` | virtual cash, position, equity | the report is the sum of its trades | Backtest |
| **Harness**, `src/harness/`, `scripts/` | proposals, locks, progress file, artifacts | no proposal is tried twice; what restarts was verified | ImprovementCycle |
| **Database**, `src/db/` | — | a transaction is all or nothing | in all of them |
| Reports, calendar, RAG, dashboard, health server, configuration | none that trading reads | — | not modelled |

### How they interact

* The scheduler calls the engine's jobs, each in `asyncio.run` on a thread of its
  own, `max_instances = 1` per job. All threads share the API client, with locks
  that belong to one event loop.
* The engine calls the API client (limiter, token, breaker, retry) and awaits; the
  broker can do anything between two of those awaits.
* A confirmed fill changes the engine's memory and the risk limits at once and is
  put into `task_queue`; the worker later inserts it into `trades`. After a crash
  the engine's first cycle rebuilds its memory **from `trades`**. Memory, queue
  and table are three copies of one fact that are equal only eventually.
* The KRX and the US process share the database and its queue, so two workers
  poll the same rows, and both markets' reports of a date meet in the same tables.
* Screening worker and news worker speak to the engine through tables only:
  `screening_results`, `stocks`, `news_chunks`, `market_actions`.
* The Telegram bot writes the halt flag from the main loop, at any moment of a
  cycle or of the replay after a restart. `/restart` ends the process.
* launchd restarts a dead process, starts the harness, and is asked to restart
  the trading service by the harness once its gates are passed.

### What is hard here

Fills are never reported: they are *inferred* from differences between two
balance reads, one of which may come from a 60-second cache. An order outlives
the poll that waits for it, the cycle, and the process. Counters, peak prices and
exchanges live in memory and come back from tables that lag or hold rows of a
former position. Locks of asyncio are shared by loops in several threads. Windows
of time (a news cycle, a token's margin, a screening window) decide what is
looked at again. Every one of these is listed at its line under "hazards" in
`PROJECT.json`, with the property that covers it or what keeps one from it.

## 2. Modules

```
RiskRules ──EXTENDS── RiskManager ──EXTENDS── Decisions ──INSTANCE── HeldExit (ExitRules),
    │                      │                      │           BuyFunnel, Strategies, Backtest
    │                      │                      └── DecisionsProofs, MCDecisions
    │                      └── RiskManagerProofs
    └───────EXTENDS── TradingEngine ── TradingEngineProofs, MCTradingEngine
Outbox ────INSTANCE── TaskQueue ────── TaskQueueProofs, MCTaskQueue
OverseasDesk ─EXTENDS─ BrokerAccess ──INSTANCE── ApiClient, JobThreads
                           └── BrokerAccessProofs, MCClient
ImprovementCycle ─EXTENDS─ Services ──INSTANCE── Screening, EndOfDay, OperatorBot,
    │                      │                     NewsCollectors, RealtimeQuotes, Session,
    │                      │                     AccessToken, SharedLimiter
    │                      └── ServicesProofs, MCOffice
    └── ImprovementCycleProofs
Recursion ── RiskManagerProofs, TradingEngineProofs, DecisionsProofs, ServicesProofs
```

### The core

**RiskRules** is the arithmetic of `record_trade_result` as pure operators on a
record `[cum, peak, losses, halted, reason]`. Both state machines use it, so what
is proved of it holds in both. The drawdown ratio is compared by cross
multiplication; KRX amounts are whole won.

**RiskManager** is the object over its days. `RecordTradeResult` is a confirmed
sale, `ResetDailyRisk` the pre-market job, `Crash` a restart of the process;
`RestoreBegin` and `ReplaySell` are the restore at the first cycle, one sale at a
time because `/stop` and `/resume` (`CmdStop`, `CmdResume`) come from another
thread and may land inside it. `sells` is the day's sales in `trades`; `stopped`
and `resumedAt` are history variables. The reference figures (`CumAt`, `PeakAt`,
`LossesAt`, `FirstReason`) are defined from `sells` alone, by different formulas
than the code's.

**TaskQueue** has one action per transaction. `dequeue` is two, because another
worker may run its SELECT while the row locks are held: `DequeueSelect`
(`FOR UPDATE SKIP LOCKED`, highest priority first, at most `BatchSize`) and
`DequeueCommit`. `enqueue` is also two (its duplicate test, its insert), with the
unique index deciding at the insert. A handler is its effect: `Execute` has it,
`ExecuteRaises` may or may not have had it. Every database call of the loop may
fail: `DequeueFails`, `MarkCompletedRaises` (inside the handler's `try`, so the
task counts as failed), `MarkFailedRaises` (out of the batch). `WorkerCrash`
drops what the process holds, the rows keep their committed status.

**Outbox** is the abstract specification: accept, claim, effect, finish, give
back, bury, purge. `TaskQueue!ImplementsOutbox` is the refinement; `FAILED` and
`PENDING` are "waiting", a row left `RUNNING` by a dead worker stays "claimed".

**TradingEngine** composes the engine with broker, worker, scheduler, operator and
crashes. An action is the code between two awaits.

| Code | Actions |
|---|---|
| `pre_market`; a process started after it | `PreMarket`; `StartLate` |
| head of `run_trading_cycle`: halt file, restore, breaker, halts | `CycleFrozen`, `CycleBegin`, `CycleBreakerOpen` |
| `_cleanup_stale_pending_orders`, `_cancel_all_pending_orders` | `SweepReconciles`, `SweepCancels`, `CancelOrder`, `SweepDone` |
| `_get_balance` and the target list | `ReadBalance`, `ReadBalanceFails` |
| the loop, `DailyLimitExceededError`, breaker inside it | `SkipStock`, `ApiLimit`, `BreakerOpens` |
| `_execute_buy`, `_execute_sell` | `OrderAccepted`, `OrderReplyLost`, `OrderRejected`, `BuyUntradable` |
| `_confirm_fill`, `_record_trade_to_db` | `ConfirmFilled`, `ConfirmUnfilled` (with `Book`) |
| `post_market` | `PostMarket`, then the sweep |
| `RecordTradeHandler` | `WorkerSaves` |
| Telegram, halt file, process death | `CmdHalt`, `ToggleKillFile`, `Crash` |
| exchange, clock | `BrokerFills`, `MarketCloses`, `NewDay`, `CacheExpires`, `CooldownElapses` |

`Faults` says which failures may occur in a run; its elements are explained in
the module. A property that needs a fault to be absent is checked in a run
without it, and section 6 says what becomes of it otherwise.

Abstractions of TradingEngine: prices and signals are free choices (a stock may
always give no signal: `SkipStock`), and so is the amount a sale earns, so the
properties hold for every strategy. Every sale is assumed to have an average
price, so that its result is recorded. `DailyTradeLimit` is a constant. An order
is at most `Lot` shares, a sale is the whole position, as in the code. The balance
read that gives a new order its reference quantity and the order itself are one
action; the stale cache covers what may happen between them. Jobs run one after
the other here; Session and JobThreads have their overlaps.

**ApiClient** is the layer below the engine: coroutines that share one `KISClient`,
its `CircuitBreaker` and the `RateLimiter` it uses by default. A call is
`Begin` (the breaker is asked, once), `GetToken`, then per attempt `CheckQuota`
and `Send`, the two halves of `RateLimiter.acquire` around its waits, and one of
`ReplyOk`, `ReplyTooMany` (429), `ReplyLost` (5xx or a network error, after which the
broker may have acted), `ReplyRejected` (4xx). `ReadIsOpen` is the trading cycle,
whose read of `is_open` half-opens the breaker as a side effect. Seconds are
abstracted to "the wait is over" (`WaitElapses`); `Midnight` is the date change the
quota looks for. `effects`, `quiet` and `quietSends` are history. TradingEngine
does not compose with it: there a lost reply, an open breaker and a spent quota
are choices, which over-approximates this layer. What TradingEngine takes from it
is that one order request acts at most once (`OrderAtMostOnce`).

### Decisions about a stock

**ExitRules** are the price rules of RiskManager as operators in whole percent;
`ExitReason` is their order in `_process_held_stock`. **HeldExit** is one position
under them: `Evaluate` is one look of a cycle (it seeds and raises the peak and
the holding time, then asks the rules), the sale it orders is booked by the
confirmation (`SellBooked`, in part or whole), late by the reconciliation
(`LateSaleBooked`), cancelled or refused; `PostMarket`, `SyncSaved`, `SyncLost`,
`PreMarket`, `Crash` and `Restart` carry the peak through the portfolio row. The
history variables `top` and `age` say what peak and time ought to be, `clean` that
no restart, night or partial sale has lost the peak by the code's design.

**BuyFunnel** follows each stock of a cycle from its signal to the broker's answer:
gates, size from the deposit read at the start (`Sized`), the orderable quantity
asked for (`AskBuyable`), look-ups that may fail (`Lookups`), the suppression or
replacement of a pending order, the database test, the order. What each ending
leaves (a metric, a row of signals) is `accounts` and `rows`.

**Strategies** takes readings (averages, an RSI, a histogram, a band, each may be
missing) to signals and the signals to the vote of one of three methods, through
registry and selector. **Backtest** is the walk over closes with slippage and
commission in exact integers, and the report.

### The way to the broker

**OverseasDesk** is the US engine's knowledge of exchanges: `FetchBalance` learns
them from answers, half of which may fail; `Rank` and `ScreenStocks` from the
stocks table, with `Labelled` the assumed default that is written down; `Process`,
`CancelStale` use them; `PreMarket` and `Restart` lose some of them. **JobThreads**
is one asyncio lock under callers of several event loops: `AcquireFree`,
`AcquireWaits` (binds the lock to a loop), `AcquireRaises`, `FallsAsleep`,
`Release`, `Resumes`.

### Around the cycle

**Screening**: the worker's three pipelines (`RunScreening`,
`RunScreeningMultisource`, `RunScreeningUs`) and its one transaction
(`RecordToDb`), and the engine's `ScreenStocks`, which reads rows in the order of
their rank alone. **EndOfDay**: trades of two markets on the way to their table,
`PostMarketCancel` and `PostMarketReport`, the handlers, and the summary, whose
read and write are two steps for each of its two writers. **OperatorBot**: the
polling loop with Telegram's offset, the flush at the start and the commands that
act. **NewsCollectors**: cycles of two collectors over feeds with pages, failing
feeds and late items; `excused` collects what a collector could not have read when
it moved its time on. **RealtimeQuotes**: calls of users and the receive task that
interleave at the debounce and at every send; `Reconnects`, `Restore`,
`RestoreFails`, `GiveUp`. **Session**: days as slots, cron jobs that fire or
misfire in their slot, a process that starts late, ends or is killed, jobs that
overrun. **AccessToken**: processes with a cache file in common, a refresh as
request and reply. **SharedLimiter**: the Redis counter read before the wait and
incremented after it, the one-way fallback and the key that changes with the date;
`granted` counts a day's calls by what they were granted for: the shared counter of
this day, that of the day before (`late`), the process's own counter (`own`). **ImprovementCycle**: proposals as
files and rows, the job of `run_auto_implement.sh` step by step, the scripts as
agents use them (what agents *write* is a choice), verifier, Stop hook, gates,
timeouts with verifiers that outlive them, crashes.

Components that share no state and meet in the trading engine only are put side by
side in **Decisions**, **BrokerAccess** and **Services**: these hold an INSTANCE of
each with its variables and parameters, the assumptions on the parameters, and the
properties by their names, which the runs check and the `*Proofs` modules prove: one
definition, two uses. The `MC*` modules give the constants values. In MCDecisions,
MCClient and MCOffice an initial choice of `turn` names the component that moves, the
others stay as they began, so each behaviour of such a run is a behaviour of one
component, and every component is explored in full. That is a way to run them, not a
composition: where they meet, in TradingEngine, they are choices. Compositions proper
are TradingEngine (engine, broker, worker, scheduler, operator) and the two-process
modules EndOfDay, Screening, AccessToken, SharedLimiter, JobThreads and
ImprovementCycle.

Most modules state their types as `TypeOK`. Those of TaskQueue and RiskManager are
theorems; the proofs of the other modules carry the types they need as a part of
their invariant.

## 3. Runs and bounds

| Run | Instance | States | Properties |
|---|---|---|---|
| `task_queue` | 2 workers, 3 rows (2 share a key), batch 2, 2 retries, 1 crash; fair | 70,008 | `ExclusiveRows`, `UniqueKeys`, `EffectsBounded`, `ImplementsOutbox`, `EventuallySettledOrAbandoned` |
| `engine_day` | 2 interchangeable stocks, 1 share, 1 buy per stock, 3 trades, 4 orders, losses of 1 or 2 with a limit of 2 and a streak of 2, timeout of 2 cycles, 1 crash with a drained queue, breaker | 1.38 million | `LiveOrdersTracked`, `MemoryMatchesLedger`, `BuysPerStockBounded`, `NoBuyAfterLoss`, `NoBuyWhenHalted` |
| `engine_faults` | 1 stock, lots of 1 or 2 filled in parts, 2 polls, timeout of 2 cycles, 3 orders, 1 crash; lost replies, late fills, failing cancels, reads, inserts and restores | 3.69 million | `RecordedWithinFilled`, `TrackingSound` |
| `engine_resolve` | 1 stock, 2 polls, timeout of 2 cycles, 2 orders, 1 crash; **all** faults; fair | 145,380 | `PendingResolvedIntraday` |
| `client` | below; fair | 307,553 | `OrderAtMostOnce`, `OutageLoadBounded`, `CallsEnd`, `RoutedHome` |
| `decisions` | below | 1.33 million | `RiskMatchesSells`, `CurrentBreachHalts`, `HaltExplained`, `PeakRemembered`, `GainIsProtected`, `StagnationHonest`, `HoldIsAbstention`, `AccountedOnce`, `RefusedOnlyIfRaced`, `ReportIsRight` |
| `office` | below | 1.87 million | `MonitoredHavePassed`, `AcceptedIsQueued`, `ReportsAgree`, `CycleCountsToday`, `HandledAgainOnlyAfterLapse`, `LossExplained`, `ListedIsSubscribed`, `IssueBurstBounded`, `OutageEndsWithCache`, `CallsBounded`, `AttemptedOnce`, `GateSeesThisCycle`, `ProgressIsTrue` |
| `task_lost` | as `task_queue` | violation | `NoTaskLost` |
| `untracked_fill` | 1 stock, `lateFill` only | violation | `NoUntrackedFill` |
| `stale_peak` | as the position of `decisions`, 3 sessions | violation | `PeakOfThisPosition` |
| `healthcheck_harmless` | 2 jobs, the bot, 4 runs | violation | `OthersHarmless` |
| `unverified_restart` | 2 proposals, 1 cycle | violation | `OnlyVerifiedRestarts` |

The instances of the three shared runs, by `turn`:

| Run, turn | Bounds |
|---|---|
| `client`, calls | 2 callers, 3 attempts, breaker threshold 3, quota of 2, the first trip told apart from later ones |
| `client`, threads | 2 jobs and the bot, 6 runs |
| `client`, desk | 2 stocks at home on the 2nd and 3rd of 3 exchanges, one in the watchlist, cap 1, 2 sessions or restarts |
| `decisions`, limits | 5 sales of −2, −1, 0, 1; limits: 3 losses, total −4, ratio 3/2 |
| `decisions`, exit | 4 prices around the entry, 2 shares, 3 ticks a session, 2 sessions, 1 crash, all faults |
| `decisions`, purchase | 2 stocks, 3 prices, deposit 8 but 6 orderable, a halted day, 2 cycles, all faults |
| `decisions`, signal | a dozen readings per strategy at, below and above every threshold; 3 methods, lone voter on and off, trend filter on and off |
| `decisions`, backtest | up to 7 rows, window 2, closes 0, 2, 3, 4, 12 |
| `office`, screening | 2 stocks, cap 1, window of 1 interval, 2 intervals, 2 cycles of the worker |
| `office`, books | 2 markets, a trade, 2 kinds of report, 2 attempts per task |
| `office`, bot | 3 commands, pages of 2, 3 starts |
| `office`, news | 2 articles' feeds and the disclosures, pages of 1, 2 items, 3 ticks in days of 2 |
| `office`, quotes | 2 users, 3 codes, limit of 1, 2 reconnection attempts, 1 drop |
| `office`, days | 10 slots a day, 3 days, the 2nd closed, 2 sales a day, 3 starts |
| `office`, token | 2 processes, 2 coroutines, lifetime 5, margin 2, retry gap 1, clock to 6, 1 crash |
| `office`, limiter | 2 processes of 2 callers, limit 1, 2 days, 5 calls |
| `office`, harness | 1 proposal, 2 cycles, 1 pause, real account |

Why the bounds are enough to be interesting:

* Five sales reach every order of breach, recovery, zero result and second breach
  for a streak limit of three and a loss limit of four; a ratio above one makes
  the drawdown test differ from its net-loss guard (below one it does not, see
  `DrawdownRatioIsMoot`).
* Two rows with one key and two workers are the smallest race of either kind; the
  third row with a higher priority makes batches of mixed order; two retries put
  the boundary `n = max_retries` in reach after one failure.
* `engine_day` needs two stocks so that a halt raised by one sale must stop the
  buy of the next stock in the same cycle, and four orders for buy, sale, buy, sale
  with a halt after two small losses or one big one, so that a
  loss may block its own stock only or the whole day. `MaxBuysPerStock = 1` makes a second entry after a
  late fill a violation at once. Days repeat: the model runs into the next day.
* `engine_faults` needs shares to differ from orders (lot of two, partial
  fills) and three orders so that a stale reference quantity can be hit twice.
* calls: with two callers one can open the breaker, or use up the quota,
  between any two steps of the other; three attempts are the code's own
  `MAX_RETRIES`. A threshold of three lets one call open the breaker alone or both
  together. The quota of two runs out inside one call's retries. The proof of
  `OutagesAreSpared` is for any number of trips, so that the run tells only the first apart.
* desk: a stock whose home is not the assumed exchange is the one that can go
  wrong; with two exchanges before its home a broken balance may have told of none,
  of another, or of its own.
* exit: 102 arms the break-even stop, 106 the trailing stop, 96 is a loss and 100
  the entry; two sessions let a peak be saved, lost, loaded too late or not at all.
* purchase: the deposit promises more than can be ordered, prices are below the
  floor, of several shares, of one and of none; two cycles let an order stay pending.
* screening: with a cap of one and two stocks every rotation has to choose; two
  intervals with a window of one let a row go stale between two readings.
* books: a second attempt gives a table with two rows of one trade, and two
  writers of the summary give two readings of different age.
* bot: three commands and a page of two make a backlog longer than the flush's page.
* days: a closed day between two open ones is where former sales, the registration
  and a restored state could leak; three starts allow one on each.
* token: a lifetime of five with margin two and a clock to six has every token
  refreshed and one expire under failing issues; both processes may issue.
* harness: a second cycle finds what the first has left in flight, in the progress
  file, in the tree and in the artifacts.
* `OrderTimeout = 2` in the passing engine runs: with a timeout of one cycle every
  pending order is swept before the next decision, and the duplicate suppression
  of `_suppress_or_replace_pending` would never be exercised.

Bounds are named constants of their modules. `CHECK_DEADLOCK FALSE` is set in every
run: queues whose rows all settle, calls whose quota is spent, days and clocks that
have reached their bound really stop. That nothing stops *earlier* is what the
liveness properties say of queue, orders and calls; JobThreads has a caller that
sleeps for good, and that is its finding.

Each property of a passing run has a mutant in `PROJECT.json`: a definition with
a plausible bug, kept in the module as "a faulty variant" or "a mutated form", under
which TLC finds the property violated. The specifications never use these.

## 4. Fairness

* **TaskQueue.** Weak fairness of polling, processing and of the clock that ends a
  backoff: `WorkerRunner.run` is an endless loop that sleeps a fixed interval.
  Strong fairness of `DequeueCommit`: a commit can fail and be retried from a new
  poll, and a database that refuses *every* commit for ever is excluded. Nothing
  says that a handler succeeds, a mark succeeds, or a worker never dies.
* **TradingEngine.** Weak fairness of `CycleBegin` (APScheduler starts a cycle per
  interval while the market is open; a breaker that stays open for ever is
  excluded, and the breaker has a recovery time) and of the steps of a running
  job (every await has a client timeout). The order of polls and fills, failing
  reads and failing cancels are not constrained.
* **ApiClient.** Weak fairness of each call's steps: the request has a timeout of 30
  seconds, the limiter and the backoff sleep finite times. The locks are released by
  `async with` and taken in turn, as long as the callers are of one event loop:
  JobThreads shows that callers of several loops may sleep for good, and `CallsEnd`
  is about calls of one. Which reply comes is not constrained, nor is the breaker's
  recovery, nor that a new call ever begins.

No other module states fairness: its properties are safety.

## 5. What is proved

For every value of the constants, in eight modules (`tlapm` checks each leaf). Every
safety and action property that a passing run checks is stated by a theorem; the run
shows it on a small instance.

**Recursion** has what the provers lack: induction over data, in a form without
an operator as parameter. `SetInduction` is about a set of natural numbers (those up
to which a claim holds), `RecursionExists` and `RecursionsAgree` are about the function
that a recursion determines, `LeastExists` about the first number with a property. All
come from the well-foundedness of `<`. Folds over the sales of a day, the walk of the
drawdown over an equity curve and the sums of a report are reasoned about with these.

**RiskManagerProofs**, for every value of the limits, of `Amounts` and `MaxSells`, from
`RiskLimitsAssumption`, `AmountsAssumption` and `MaxSellsAssumption`:

* `TypeCorrect`: `Spec => []TypeOK`. The type invariant carries one relation, that
  a replay is strictly inside the day's sales; without it `sells[replayed + 1]`
  has no type and the invariant is not inductive.
* `BreachIsHalted`: `Spec => []CurrentBreachHalts`. The cycle, which reads only
  the figures in memory, cannot go on trading over a limit it has itself crossed
  since the last `/resume`. The interesting step is `CmdResume`: it lowers the flag
  with figures that may still be in breach, and is safe only because it also moves
  `resumedAt` to what is accounted for.
* `FiguresAreTheDays`, `HaltsHaveACause`: `RiskMatchesSells` and `HaltExplained`.
  `FiguresInv` says that memory is what the sales accounted for so far determine, also
  in the middle of a replay. The step is a lemma about one more sale, for the sum, the
  highest running total, the trailing losses and the first breach each.
* `DrawdownRatioIsMoot`: with a ratio of at most one (the shipped default is 5 %),
  the drawdown limit is breached exactly when the day has had a realised profit
  and is now at a net loss. The configured percentage has no effect. No line of
  the repository claims the contrary, so it is a theorem and no finding.

**TaskQueueProofs**, for any workers, tasks, keys, batch size and retry limit, from
`QueueAssumption`:

* `TypeCorrect`, `RowsAreExclusive`: exclusiveness is not inductive alone. `IInv`
  adds `WorkerState` (a polling worker holds nothing, one past a handler holds the
  row it ran) and `RowState` (a locked row still has a waiting status, so no other
  select could have committed it; a row about to be inserted is not there; what
  is not finished has an attempt left, which is why `dequeue`'s retry test
  never strands a row).
* `KeysAreUnique`: inductive as it stands, from the unique index at the insert.
* `CompletedHadEffect`, `EffectsAreBounded`: `EffectState` counts effects against
  `retry_count` by where the row is: no more than the counted attempts while it
  waits or has not been started in this attempt, one more while an attempt is open.
* `TableImplementsOutbox`: `Spec => ImplementsOutbox`, the refinement, from both
  invariants: taking row locks, a failing mark and a crash are stutters,
  `DequeueCommit` claims the batch, `MarkFailed` gives a row back or buries it.

**TradingEngineProofs**, for any stocks, lots, limits and timeouts, from
`EngineAssumption` and `RiskLimitsAssumption`. What a theorem assumes of `Faults` is
stated in it and has a name:

* `TrackingIsSound` (`TrackingSound`, **every** set of faults). `TrackingInv` says
  where an order over its timeout may still be: only among the stocks its cycle's
  sweep has yet to visit, or between jobs. So the replace branch of
  `_suppress_or_replace_pending` is unreachable for every timeout.
* `RecordsAreFills` (`RecordedWithinFilled`, every set of faults, partial fills
  included). Fills are inferred from differences, so the invariant is about what they
  are measured against: `FillInv` says of every `Reference` of a stock (the cached
  balance, the quantity stored with its order, the holdings at its decision) that a
  booking measured against it `Fits` what the broker has filled, however stale it is.
* `OrdersAreTracked` (`LiveOrdersTracked`), assuming `Reliable`: no late fill during a
  cancel, no lost reply, no failing cancel or read, no partial fill. `LiveInv` is the
  argument of the design: the reference quantity stored with an order equals what the
  broker holds until the order fills, and the cached balance can be out of date only
  for a stock whose order is tracked. The assumption is as weak as it can be: each of
  the five faults alone makes the property false in TLC, on one stock.
* `BuysStayBounded` and `LossesBlockBuys` (`BuysPerStockBounded`, `NoBuyAfterLoss`),
  assuming `Recovered`: no restore fails and no crash overtakes the worker. `Known`
  says that a restored memory counts no purchase less than the ledger and has every
  stock that was sold at a loss; `Waking` that an engine before its restore has
  nothing under way and all rows saved; `Room` counts the purchase that is pending or
  being confirmed against the limit, which is how a late fill stays within it.
* `MemoryIsTheLedger` and `NoBuysOnceHalted` (`MemoryMatchesLedger`,
  `NoBuyWhenHalted`), assuming `Undisturbed`: besides, every row reaches the queue and
  the operator does not lift or raise the halt. `Remembered` equates memory with the
  replay of the day's rows; that a replay of the saved rows is what was recorded one
  by one is induction over the ledger.

**BrokerAccessProofs**:

* `OrdersActAtMostOnce` (`OrderAtMostOnce`), for any callers, attempts, thresholds and
  quotas: a call under way has, if it is an order, had no effect yet: every answer after
  which the broker may have acted ends the call.
* `OutagesAreSpared` (`OutageLoadBounded`), from `CallersAssumption`: while the breaker
  waits, what was sent and the attempts that calls under way may still send (`ToSend`)
  are together less than the attempts of all calls, because the one that opened the
  breaker is used up.
* `OrdersAreRoutedHome` (`RoutedHome`), from `DeskAssumption` (the profile's exchanges
  differ, each stock has its home among them): `NothingWrong` says that memory and the
  stocks table hold the home of a stock or nothing. The assumed default gets into the
  table by `Labelled`, and is right there because a stock without a row of its own is
  neither screened nor, wrongly routed, priced; `FreshHaveRows` is what makes that work
  for screened stocks.

**DecisionsProofs**:

* `PeaksAreRemembered`, `GainsAreProtected`, `StagnationIsHonest` (`PeakRemembered`,
  `GainIsProtected`, `StagnationHonest`), from `PositionAssumption`, for any rules,
  quotes and faults: inductive together as `HoldInv`, with the holding time of a
  position that nothing has lost (`SinceHonest`).
* `RefusalsAreRaces`, `SignalsAreAccountedOnce` (`RefusedOnlyIfRaced`, `AccountedOnce`),
  from `PurchaseAssumption`: `Payable` says that what is to be bought can be paid for
  from the answer about the orderable cash on, unless somebody has spent some since;
  `AccountInv` and `SettledAs` what metrics and rows of a stock may be before, in and
  after its evaluation.
* `AbstentionsDoNotDilute` (`HoldIsAbstention`), for any readings and thresholds: the
  vote of those that do not hold is the vote. That there are four strategies is
  essential: of four, more than three quarters abstain only if all do; with a fifth
  a lone vote would be outvoted by abstentions (`MostOfFourIsAll`).
* `ReportsAreRight` (`ReportIsRight`), from `SimulationAssumption`, for any closes,
  rates and lengths, and whenever the strategy trades: `BooksInv` is the account (what
  the capital earned is money or is tied up in the position), and `Scanned` that one
  pass over the curve with a running peak finds the worst fall between *any* two days.

**ServicesProofs**, from the assumptions of Services where one is named:

* `OutagesEnd`, `IssuesBounded` (`OutageEndsWithCache`, `IssueBurstBounded`;
  `TokenAssumption`): `TokenClocks` says that whatever a process remembers of its
  attempts is from before the fresh token was cached, `TokenBurst` counts the requests
  under way that may still add one.
* `LimitsAreToday` (`CycleCountsToday`; `SlotsAssumption`): `DayPlaces` and `DayMemory`
  say where in the day things run and whose sales a process knows of.
* `WatchedHavePassed`, `ListedAreSent` (`MonitoredHavePassed`, `ListedIsSubscribed`):
  inductive as they stand. Rows are only added within a day and the rotation adds
  only fresh stocks; a reconnection clears the list, a connect notes what it finds in
  it, and only a send that got through adds to it.
* `AcceptedReportsAreQueued`, `ReportsOfADayAgree` (`AcceptedIsQueued`, `ReportsAgree`):
  `BookFacts` says that a market's reports are queued in one step, from a table that
  only grows, and that whatever is made or counted later is theirs or no less.
* `LossesExplained` (`LossExplained`; `NewsAssumption`): `CycleCovers` is what the cycle
  under way has asked for, `Explained` what no later cycle asks for.
* `CommandsActOnce` (`HandledAgainOnlyAfterLapse`; `BotAssumption`), for pages of any
  size: `HandledInv` says where updates that were handled may still come from, before
  a flush and after it.
* `CallsStayBounded` (`CallsBounded`; `LimiterAssumption`), for any processes, callers
  and days: `SharedRoom`, `LateRoom` and `OwnRoom` bound what was granted *and* what
  those that wait may still be granted.

**ImprovementCycleProofs** (no assumption): `ProposalsAreAttemptedOnce`
(`AttemptedOnce`): `Untried` says that a row that is absent, a draft or ready has had no
attempt; the synchronisation writes absent rows only. `GateSeesItsCycle`
(`GateSeesThisCycle`): verifiers without a session are among those that have outlived
one. `ProgressStaysTrue` (`ProgressIsTrue`): `ProgressInv` relates lists, marks and rows.

The assumptions on constants are named and explained where the constants are declared;
TLC evaluates all of them in the runs.

Only model-checked: liveness (`EventuallySettledOrAbandoned`, `PendingResolvedIntraday`,
`CallsEnd`), which is beyond the prover, and the refutations of the last five
runs. `TypeOK` of the modules other than TaskQueue and RiskManager is a description that
neither a run nor a proof states.

## 6. What the runs show

Holding:

* In-memory risk figures are a function of the day's sales whatever is
  interrupted, and the halt follows from them. What a cycle counts is today's,
  whenever the process was started.
* The table is an outbox: exclusive, duplicate-free, effects bounded by
  `max_retries`; a row that is neither finished nor buried was abandoned by a
  worker.
* Below the engine, an order request acts at most once whatever mixture of refusals,
  failures and lost replies its call meets; a server that is down gets at most the
  attempts already under way; every call ends.
* With replies and cancels that arrive, no live order is unknown to the
  engine, limits count entries that are only recognised cycles later, and a restart
  with a drained queue loses no limit.
* Under *all* faults, what the engine records never exceeds what the broker
  filled, and the cancel-and-replace branch of `_suppress_or_replace_pending` is
  unreachable since the sweep has the same age test (`TrackingSound`).
* As long as memory and portfolio row of a position stay together, the exit rules
  use its own peak, and no evaluation keeps a position whose armed gain is gone.
* Of each signal to buy there is one account; an order is refused for want of cash
  only if somebody else has spent some after the broker was asked.
* A US stock that is held or ordered is asked for at its own exchange.
* Reports of one day agree, and the summary never has a trade less than they.
* Tokens: two processes never have more fresh issues cached than processes; an
  outage of one ends within the retry gap after the other has a token.
* News, screening, price stream, bot and harness keep what section 3 names, each up
  to the lapses its property lists.

Not holding, each a finding that quotes the text it contradicts:

* `NoTaskLost`: a RUNNING row of a dead worker is never selected again.
* `NoUntrackedFill`: a fill between the reconciling read and its cancel is lost.
* `PeakOfThisPosition`: rows of sold stocks keep their peak, and a morning or a
  restart loads it for the next position.
* `OthersHarmless`: jobs in threads of their own share asyncio locks; after one
  contended acquire, waiting callers of other loops raise.
* `OnlyVerifiedRestarts`: a committed change leaves a clean tree, and the gate of
  the restart skips its verifier.

Met while modelling, described here and not kept as runs:

* *Engine.* After an untracked fill, the cached balance lets the same cycle buy the
  stock again although held stocks are not to be bought (`src/engine.py:919`, `:1351`).
  A sale recorded by reconciliation starts no cooldown (`:2331`, against `:1420`). A
  cycle that finds the halt returns before held stocks, protective sales included
  (`:863`, against the comment at `src/strategy/risk.py:174`). The trade count is not
  restored on a day without sales, and rows still queued at a crash are missing from
  the restore. A partially filled order is booked once and its rest is not tracked.
  `/stop` does not survive the reset of a restore or of the next morning.
* *Breaker.* Attempts still under way count as further trips of the breaker they
  have just opened, so the wait doubles with no failed probe (`src/api/client.py:69`,
  against `:31`).
* *Exchanges.* When the seeding of exchanges fails (`src/engine.py:1259`) the
  discovered stock gets no price and is silently not traded. `_board_label`
  (`:298-306`) never returns the market's own code.
* *Screening.* A stock that passed recently does not stay watched if its best-ranked
  row did not pass: the first row by rank decides.
* *Days.* A process that lives through a morning without its pre-market job keeps
  yesterday's limits and halt (`CycleCountsToday` excludes it). Redis quotas have no
  expiry, and a restart across 8:55 keeps those of the night, against the comment at
  `src/scheduler/jobs.py:412-413`. post_market may overlap a slow cycle.
* *Backtest.* Data of exactly `MIN_WINDOW_SIZE` rows passes the length test and ends in
  an IndexError in `_build_result`. The performance vote's confidence is the share of
  the winners' weight and may exceed every single vote's.
* *Harness.* The cycle lock is held only while the job is being started, although
  `src/harness/telegram_commands.py:59` says that the script takes it again; the minimal interval
  is never enforced, since no caller passes the time of the last cycle; failed checks
  of the initializer are only logged; rows a dead cycle has left in flight stay there;
  a draft file raised to ready is not synchronised again; a pytest that dies leaves an
  older result file behind; the restart also needs the word "implemented" in the log
  of the day.

## 7. Not modelled, and what could follow

Not modelled: reports, dashboards, analytics tables, RAG scoring and calendar
formatting, which read recorded data and decide nothing; `src/config.py`, whose
settings are the constants of the modules; the download of the stock master file;
`/setlimit` (a limit is a constant here); the read-only Telegram commands; the
investor-flow filter of the buy decision; how indicators are computed from closes
(floating point; their thresholds and votes are modelled); the token bucket's pace
within a second, which is a place where others may run; currency conversion and
price rounding; the field mapping of the broker's answers; the hooks, KPI reports and
sanitizers of the harness other than the Stop hook; retries of calendar events and
log clean-up jobs. Everything of that kind is marked in `PROJECT.json`.

What could follow:

1. Proofs: `TypeOK` of the remaining modules as theorems of their own; a refinement of
   the engine's day by a small specification of "orders, fills, records", of which
   `RecordsAreFills` and `OrdersAreTracked` are the safety half; JobThreads, whose
   callers of one loop take the lock in turn.
2. Compositions: HeldExit inside TradingEngine, so that an early sale by a stale peak
   meets the limits of the day; JobThreads under ApiClient, which would need a lock
   with owners in place of `CheckQuota`'s atomic step.
3. Partial fills: a pending entry for the rest of a partially filled order is not in
   the code; the property for it would be `LiveOrdersTracked` without its assumption.
