---------------------------- MODULE TradingEngine ----------------------------
(***************************************************************************)
(* The order life cycle of src/engine.py: the trading cycle, the pending-  *)
(* order book, fill confirmation by balance polling, reconciliation and    *)
(* cancellation, the trade limits, the restore after an intraday restart   *)
(* and the pre- and post-market jobs, composed with the risk rules of      *)
(* src/strategy/risk.py, the broker that fills, loses and expires orders,  *)
(* the worker that saves the recorded trades, and the operator.            *)
(*                                                                         *)
(* The engine is one asyncio task: it is interrupted by the broker, the    *)
(* worker, the operator's thread or a crash only where it awaits, so an    *)
(* action is the code between two awaits.  Prices and signals are not      *)
(* modelled: which stock gives which signal, and what a sale earns, is     *)
(* chosen freely.                                                          *)
(***************************************************************************)
EXTENDS RiskRules, Sequences, FiniteSets, SequencesExt, FiniteSetsExt

CONSTANTS
    Stocks,             \* monitored stock codes
    Lot,                \* most shares of one buy order
    Polls,              \* balance polls of _confirm_fill
    OrderTimeout,       \* order_pending_timeout_cycles
    DailyTradeLimit,    \* daily_trade_limit
    MaxBuysPerStock,    \* max_daily_trades_per_stock
    LossRebuyBlock,     \* loss_rebuy_block_same_day
    Amounts,            \* realised profit or loss of one sale
    Faults,             \* which failures and operator inputs may happen
    MaxOrders,          \* bound: orders the broker accepts in a day
    MaxCrashes,         \* bound: crashes of the engine process
    NoStock, NoCache

\* lateFill: an order fills after its last balance check and before its cancel
\* arrives.  lostReply: an order is accepted but the reply never arrives.  cancelFail,
\* readFail, apiLimit: a cancel, a balance read, the daily API quota fails.
\* breaker: the circuit breaker opens.  enqueueFail, restoreFail: the database
\* fails under enqueue or under the restore.  partial: orders fill in parts.
\* undrained: a crash may find recorded trades the worker has not saved yet.
\* operator: kill-switch file, /stop and /resume.  late: the process starts
\* after the pre-market job.
AllFaults == {"lateFill", "lostReply", "cancelFail", "readFail", "apiLimit",
              "breaker", "enqueueFail", "restoreFail", "partial", "undrained", "operator", "late"}

ASSUME EngineAssumption ==
    /\ IsFiniteSet(Stocks)
    /\ Lot \in Nat \ {0}
    /\ Polls \in Nat \ {0}
    /\ OrderTimeout \in Nat \ {0}
    /\ DailyTradeLimit \in Nat
    /\ MaxBuysPerStock \in Nat
    /\ LossRebuyBlock \in BOOLEAN
    /\ Amounts \subseteq Int
    /\ Faults \subseteq AllFaults
    /\ MaxOrders \in Nat
    /\ MaxCrashes \in Nat
    /\ NoStock \notin Stocks
    /\ NoCache \notin [Stocks -> Nat]

VARIABLES
    phase,          \* the trading day: "pre", "open", "closed"
    held,           \* broker: shares held
    live,           \* broker: accepted orders that can still fill
    lastNo,         \* broker: number of orders accepted today
    pc,             \* where the engine's task awaits
    job,            \* which job runs: "none", "cycle", "post"
    todo,           \* stocks the current loop has still to visit
    snap,           \* holdings the cycle decides on
    cur,            \* the stock whose order is being confirmed or cancelled
    op,             \* the order being confirmed
    left,           \* balance polls left for it
    pending,        \* _pending_orders
    tradeCount,     \* _today_trade_count
    buysToday,      \* _today_buys_per_stock
    cooling,        \* stocks whose _last_sell_at is within the cooldown
    lossSold,       \* stocks in _loss_sell_dates
    untradable,     \* _untradable_today
    limitHit,       \* _daily_limit_reached
    risk,           \* the RiskManager object
    restored,       \* _risk_state_restored
    cache,          \* holdings of _balance_cache while its TTL lasts
    killFile,       \* the operator's halt file exists
    ledger,         \* today's recorded trades, saved by the worker or queued
    filled,         \* history: shares the broker filled today, by side
    crashes         \* crashes so far

brokerVars == <<held, live, lastNo, filled>>
loopVars   == <<pc, job, todo, snap, cur, op, left>>
countVars  == <<tradeCount, buysToday, cooling, lossSold, untradable, limitHit, risk, restored>>
worldVars  == <<phase, killFile, crashes>>
vars == <<phase, held, live, lastNo, pc, job, todo, snap, cur, op, left, pending,
          tradeCount, buysToday, cooling, lossSold, untradable, limitHit, risk,
          restored, cache, killFile, ledger, filled, crashes>>

Sides == {"BUY", "SELL"}
\* An order as PendingOrder keeps it; age counts the cycles since placed_cycle.
NoOrder == [no |-> 0, side |-> "none", before |-> 0, age |-> 0]
NoShares == [c \in Stocks |-> 0]

Rows(side, c) == {i \in DOMAIN ledger : ledger[i].side = side /\ ledger[i].code = c}
\* The rows the worker has inserted into trades.
Saved == {i \in DOMAIN ledger : ledger[i].saved}
\* The risk state after each of the rows, if the sales among the chosen ones are recorded.
RiskAfter(rows, chosen) ==
    LET after[k \in 0..Len(rows)] ==
            IF k = 0 THEN FreshRisk
            ELSE IF k \in chosen /\ rows[k].side = "SELL"
                 THEN Recorded(after[k - 1], rows[k].pnl)
                 ELSE after[k - 1]
    IN  after
\* The risk state that recording the sales among these rows of the ledger produces.
ReplaySells(chosen) == RiskAfter(ledger, chosen)[Len(ledger)]

\* A faulty variant: the trade count survives the night.
MemoryResetKeepsCount ==
    /\ pc' = "idle" /\ job' = "none" /\ todo' = {} /\ snap' = NoShares
    /\ cur' = NoStock /\ op' = NoOrder /\ left' = 0
    /\ pending' = [c \in Stocks |-> NoOrder]
    /\ UNCHANGED tradeCount /\ buysToday' = NoShares
    /\ cooling' = {} /\ lossSold' = {} /\ untradable' = {}
    /\ limitHit' = FALSE /\ risk' = FreshRisk

MemoryReset ==
    /\ pc' = "idle" /\ job' = "none" /\ todo' = {} /\ snap' = NoShares
    /\ cur' = NoStock /\ op' = NoOrder /\ left' = 0
    /\ pending' = [c \in Stocks |-> NoOrder]
    /\ tradeCount' = 0 /\ buysToday' = NoShares
    /\ cooling' = {} /\ lossSold' = {} /\ untradable' = {}
    /\ limitHit' = FALSE /\ risk' = FreshRisk

Init ==
    /\ phase = "pre" /\ killFile = FALSE /\ crashes = 0
    /\ held = NoShares /\ live = {} /\ lastNo = 0
    /\ filled = [c \in Stocks |-> [s \in Sides |-> 0]]
    /\ pc = "idle" /\ job = "none" /\ todo = {} /\ snap = NoShares
    /\ cur = NoStock /\ op = NoOrder /\ left = 0
    /\ pending = [c \in Stocks |-> NoOrder]
    /\ tradeCount = 0 /\ buysToday = NoShares
    /\ cooling = {} /\ lossSold = {} /\ untradable = {}
    /\ limitHit = FALSE /\ risk = FreshRisk /\ cache = NoCache
    /\ restored = FALSE
    /\ ledger = <<>>

-----------------------------------------------------------------------------
(* The beginning of run_trading_cycle *)

\* cycle_count grows with every cycle, also one that returns at once; an age
\* is only ever compared with the timeout, so it stops there.
Aged(o) == IF o = NoOrder THEN o ELSE [o EXCEPT !.age = IF @ < OrderTimeout THEN @ + 1 ELSE @]
AgedOrders == [c \in Stocks |-> Aged(pending[c])]
\* A faulty variant: an order has to exceed the timeout.
StaleLater == {c \in Stocks : AgedOrders[c] # NoOrder /\ AgedOrders[c].age > OrderTimeout}
Stale == {c \in Stocks : AgedOrders[c] # NoOrder /\ AgedOrders[c].age >= OrderTimeout}

\* A faulty variant: only the risk state and the trade count are restored.
RestoreRiskOnly ==
    /\ UNCHANGED <<buysToday, cooling, lossSold>>
    /\ IF \E i \in Saved : ledger[i].side = "SELL"
       THEN risk' = ReplaySells(Saved) /\ tradeCount' = Cardinality(Saved)
       ELSE UNCHANGED <<risk, tradeCount>>

\* _restore_risk_state_if_needed on today's saved trades.  The per-stock
\* counters come from all rows; without a sale it returns before the risk state
\* and the trade count.
RestoreFromTrades ==
    LET sold == {i \in Saved : ledger[i].side = "SELL"}
    IN  /\ buysToday' = [c \in Stocks |-> Cardinality(Saved \cap Rows("BUY", c))]
        /\ cooling' = {ledger[i].code : i \in {j \in sold : ledger[j].recent}}
        /\ lossSold' = {ledger[i].code : i \in {j \in sold : ledger[j].pnl < 0}}
        /\ IF sold = {}
           THEN UNCHANGED <<risk, tradeCount>>
           ELSE risk' = ReplaySells(Saved) /\ tradeCount' = Cardinality(Saved)

\* A faulty variant: a restarted process starts from its initial values.
RestoreNever ==
    /\ restored' = TRUE
    /\ UNCHANGED <<tradeCount, buysToday, cooling, lossSold, risk>>

RestoreIfNeeded ==
    /\ restored' = TRUE
    /\ \/ ~restored /\ RestoreFromTrades
       \/ /\ restored \/ "restoreFail" \in Faults
          /\ UNCHANGED <<tradeCount, buysToday, cooling, lossSold, risk>>

\* The halt file freezes the cycle before anything else.
CycleFrozen ==
    /\ pc = "idle" /\ phase = "open" /\ killFile
    /\ pending' = AgedOrders
    /\ UNCHANGED <<brokerVars, loopVars, countVars, worldVars, cache, ledger>>

\* A cycle that gets past the halt tests sweeps the stale orders first.
CycleBegin ==
    /\ pc = "idle" /\ phase = "open" /\ ~killFile
    /\ RestoreIfNeeded
    /\ pending' = AgedOrders
    /\ IF limitHit \/ risk'.halted
       THEN UNCHANGED <<pc, job, todo>>
       ELSE pc' = "sweep" /\ job' = "cycle" /\ todo' = Stale
    /\ UNCHANGED <<brokerVars, worldVars, snap, cur, op, left, untradable, limitHit,
                   cache, ledger>>

\* The circuit breaker is open when the cycle begins.
CycleBreakerOpen ==
    /\ "breaker" \in Faults
    /\ pc = "idle" /\ phase = "open" /\ ~killFile
    /\ RestoreIfNeeded
    /\ pending' = AgedOrders
    /\ UNCHANGED <<brokerVars, loopVars, worldVars, untradable, limitHit, cache, ledger>>

-----------------------------------------------------------------------------
(* Recording a fill: the counters, RiskManager and the queued trade row *)

\* _record_trade_to_db and the counters beside it.  A row the queue does not
\* accept is lost, the memory keeps its effect.
Book(c, side, qty) ==
    /\ tradeCount' = tradeCount + 1
    /\ buysToday' = IF side = "BUY" THEN [buysToday EXCEPT ![c] = @ + 1] ELSE buysToday
    /\ \E pnl \in IF side = "SELL" THEN Amounts ELSE {0} :
        /\ risk' = IF side = "SELL" THEN Recorded(risk, pnl) ELSE risk
        /\ lossSold' = IF pnl < 0 THEN lossSold \cup {c} ELSE lossSold
        /\ \/ ledger' = Append(ledger,
                  [code |-> c, side |-> side, qty |-> qty, pnl |-> pnl,
                   saved |-> FALSE, recent |-> side = "SELL"])
           \/ "enqueueFail" \in Faults /\ UNCHANGED ledger

\* Shares an order has filled if the balance now shows n of its stock.
FilledSince(o, n) == IF o.side = "BUY" THEN n - o.before ELSE o.before - n

-----------------------------------------------------------------------------
(* Sweeping the pending orders: stale ones in a cycle, all after the close *)

\* A faulty variant: the reconciled order stays in the book.
ReconcilesTwice(c) ==
    /\ pc = "sweep" /\ c \in todo
    /\ FilledSince(pending[c], held[c]) > 0
    /\ cache' = held
    /\ Book(c, pending[c].side, FilledSince(pending[c], held[c]))
    /\ todo' = todo \ {c}
    /\ UNCHANGED <<brokerVars, worldVars, pc, job, snap, cur, op, left, cooling,
                   untradable, limitHit, restored, pending>>

\* _reconcile_orphan_fill finds a late fill: it is recorded instead of
\* cancelled.  The re-buy cooldown is not started here.
SweepReconciles(c) ==
    /\ pc = "sweep" /\ c \in todo
    /\ FilledSince(pending[c], held[c]) > 0
    /\ cache' = held
    /\ Book(c, pending[c].side, FilledSince(pending[c], held[c]))
    /\ pending' = [pending EXCEPT ![c] = NoOrder]
    /\ todo' = todo \ {c}
    /\ UNCHANGED <<brokerVars, worldVars, pc, job, snap, cur, op, left, cooling,
                   untradable, limitHit, restored>>

\* No fill is seen, or the balance cannot be read: cancel_order is called next.
SweepCancels(c) ==
    /\ pc = "sweep" /\ c \in todo
    /\ \/ FilledSince(pending[c], held[c]) <= 0 /\ cache' = held
       \/ "readFail" \in Faults /\ UNCHANGED cache
    /\ pc' = "cancel" /\ cur' = c
    /\ UNCHANGED <<brokerVars, countVars, worldVars, job, todo, snap, op, left,
                   pending, ledger>>

\* A faulty variant: an order whose cancel fails stays in the book.
CancelKeepsFailed ==
    /\ pc = "cancel"
    /\ LET mine == {o \in live : o.no = pending[cur].no}
       IN  \/ live' = live \ mine /\ pending' = [pending EXCEPT ![cur] = NoOrder]
           \/ "cancelFail" \in Faults /\ UNCHANGED <<live, pending>>
    /\ todo' = todo \ {cur}
    /\ pc' = "sweep" /\ cur' = NoStock
    /\ UNCHANGED <<held, lastNo, filled, countVars, worldVars, job, snap, op, left,
                   cache, ledger>>

\* The broker's answer to the cancel.  An order that is no longer live cannot be
\* cancelled, and the exception is logged; tracking ends in every case.
CancelOrder ==
    /\ pc = "cancel"
    /\ LET mine == {o \in live : o.no = pending[cur].no}
       IN  \/ live' = live \ mine
           \/ "cancelFail" \in Faults /\ UNCHANGED live
    /\ pending' = [pending EXCEPT ![cur] = NoOrder]
    /\ todo' = todo \ {cur}
    /\ pc' = "sweep" /\ cur' = NoStock
    /\ UNCHANGED <<held, lastNo, filled, countVars, worldVars, job, snap, op, left,
                   cache, ledger>>

SweepDone ==
    /\ pc = "sweep" /\ todo = {}
    /\ \/ job = "cycle" /\ pc' = "balance" /\ UNCHANGED <<job, cache>>
       \/ job = "post" /\ pc' = "idle" /\ job' = "none" /\ cache' \in {held, cache}
    /\ UNCHANGED <<brokerVars, countVars, worldVars, todo, snap, cur, op, left, pending,
                   ledger>>

-----------------------------------------------------------------------------
(* The balance and the loop over the targets *)

CycleReturns ==
    pc' = "idle" /\ job' = "none" /\ todo' = {} /\ snap' = NoShares

\* Once the day's trades are used up only held stocks are visited.
Targets(shares) ==
    IF tradeCount >= DailyTradeLimit THEN {c \in Stocks : shares[c] > 0} ELSE Stocks

ReadBalance ==
    /\ pc = "balance"
    /\ LET shares == IF cache = NoCache THEN held ELSE cache
       IN  /\ cache' = shares
           /\ IF Targets(shares) = {}
              THEN CycleReturns
              ELSE /\ pc' = "stocks" /\ todo' = Targets(shares) /\ snap' = shares
                   /\ UNCHANGED job
    /\ UNCHANGED <<brokerVars, countVars, worldVars, cur, op, left, pending, ledger>>

ReadBalanceFails ==
    /\ pc = "balance" /\ "readFail" \in Faults
    /\ CycleReturns
    /\ UNCHANGED <<brokerVars, countVars, worldVars, cur, op, left, pending, cache, ledger>>

\* DailyLimitExceededError under screening, balance or a stock ends the day.
ApiLimit ==
    /\ "apiLimit" \in Faults
    /\ pc \in {"balance", "stocks"}
    /\ limitHit' = TRUE
    /\ CycleReturns
    /\ UNCHANGED <<brokerVars, worldVars, tradeCount, buysToday, cooling, lossSold,
                   untradable, risk, restored, cur, op, left, pending, cache, ledger>>

\* The breaker opens during the loop: the rest of the targets is skipped.
BreakerOpens ==
    /\ "breaker" \in Faults
    /\ pc = "stocks"
    /\ CycleReturns
    /\ UNCHANGED <<brokerVars, countVars, worldVars, cur, op, left, pending, cache, ledger>>

\* The loop takes the next target, or the cycle is complete.
Advance(c) ==
    IF todo = {c}
    THEN CycleReturns
    ELSE pc' = "stocks" /\ todo' = todo \ {c} /\ UNCHANGED <<job, snap>>

\* No signal, a gate that rejects, a suppressed duplicate, a database that
\* fails its health check, or an error: no order for this stock.
SkipStock(c) ==
    /\ pc = "stocks" /\ c \in todo
    /\ Advance(c)
    /\ UNCHANGED <<brokerVars, countVars, worldVars, cur, op, left, pending, cache, ledger>>

-----------------------------------------------------------------------------
(* Placing an order: _execute_buy, _execute_sell *)

\* A faulty variant: a buy does not look for a pending order.
BuyAllowedTwice(c) ==
    /\ snap[c] = 0
    /\ tradeCount < DailyTradeLimit
    /\ buysToday[c] < MaxBuysPerStock
    /\ c \notin cooling \cup untradable
    /\ ~(LossRebuyBlock /\ c \in lossSold)
    /\ ~risk.halted

\* The gates of _process_stock and _execute_buy, in memory only.
BuyAllowed(c) ==
    /\ snap[c] = 0
    /\ tradeCount < DailyTradeLimit
    /\ buysToday[c] < MaxBuysPerStock
    /\ c \notin cooling
    /\ ~(LossRebuyBlock /\ c \in lossSold)
    /\ ~risk.halted
    /\ c \notin untradable
    /\ pending[c] = NoOrder

SellAllowed(c) == snap[c] > 0 /\ pending[c] = NoOrder

Allowed(c, side) == IF side = "BUY" THEN BuyAllowed(c) ELSE SellAllowed(c)
OrderSizes(c, side) == IF side = "BUY" THEN 1..Lot ELSE {snap[c]}

\* The reference quantity is read through the cache; if the read fails a buy
\* takes 0 and a sell the quantity it is about to sell.
ReferenceQty(c, side) ==
    {IF cache = NoCache THEN held[c] ELSE cache[c]}
    \cup IF cache = NoCache /\ "readFail" \in Faults
         THEN {IF side = "BUY" THEN 0 ELSE snap[c]} ELSE {}

\* What the broker accepts: a sale only of shares not already on offer.
OnOffer(c) ==
    LET offers == {o \in live : o.code = c /\ o.side = "SELL"}
    IN  MapThenSumSet(LAMBDA o : o.qty, offers)
Accepts(c, side, qty) ==
    /\ phase = "open"
    /\ lastNo < MaxOrders
    /\ side = "SELL" => qty <= held[c] - OnOffer(c)

Placed(c, side, qty) ==
    /\ Accepts(c, side, qty)
    /\ lastNo' = lastNo + 1
    /\ live' = live \cup {[no |-> lastNo + 1, code |-> c, side |-> side, qty |-> qty]}

\* The order number arrives: the cache is dropped and the fill is polled for.
OrderAccepted(c, side) ==
    /\ pc = "stocks" /\ c \in todo /\ Allowed(c, side)
    /\ \E qty \in OrderSizes(c, side), before \in ReferenceQty(c, side) :
        /\ Placed(c, side, qty)
        /\ op' = [no |-> lastNo + 1, side |-> side, before |-> before, age |-> 0]
    /\ cache' = NoCache
    /\ pc' = "confirm" /\ cur' = c /\ left' = Polls
    /\ UNCHANGED <<held, filled, countVars, worldVars, job, todo, snap, pending, ledger>>

\* The broker accepted, the reply was lost: the engine sees an exception, drops
\* the cache and tracks nothing.
OrderReplyLost(c, side) ==
    /\ "lostReply" \in Faults
    /\ pc = "stocks" /\ c \in todo /\ Allowed(c, side)
    /\ \E qty \in OrderSizes(c, side) : Placed(c, side, qty)
    /\ cache' = NoCache
    /\ Advance(c)
    /\ UNCHANGED <<held, filled, countVars, worldVars, cur, op, left, pending, ledger>>

\* Any other OrderError: the cache is dropped too.
OrderRejected(c, side) ==
    /\ pc = "stocks" /\ c \in todo /\ Allowed(c, side)
    /\ cache' = NoCache
    /\ Advance(c)
    /\ UNCHANGED <<brokerVars, countVars, worldVars, cur, op, left, pending, ledger>>

\* "Not tradable": no further buy of this stock today.
BuyUntradable(c) ==
    /\ pc = "stocks" /\ c \in todo /\ BuyAllowed(c)
    /\ untradable' = untradable \cup {c}
    /\ Advance(c)
    /\ \/ cache' = IF cache = NoCache THEN held ELSE cache
       \/ "readFail" \in Faults /\ UNCHANGED cache
    /\ UNCHANGED <<brokerVars, worldVars, tradeCount, buysToday, cooling, lossSold,
                   limitHit, risk, restored, cur, op, left, pending, ledger>>

-----------------------------------------------------------------------------
(* _confirm_fill *)

\* A poll shows a change: it is recorded, and a sale starts the cooldown.
ConfirmFilled ==
    /\ pc = "confirm"
    /\ FilledSince(op, held[cur]) > 0
    /\ cache' = held
    /\ Book(cur, op.side, FilledSince(op, held[cur]))
    /\ cooling' = IF op.side = "SELL" THEN cooling \cup {cur} ELSE cooling
    /\ Advance(cur)
    /\ cur' = NoStock /\ op' = NoOrder /\ left' = 0
    /\ UNCHANGED <<brokerVars, worldVars, pending, untradable, limitHit, restored>>

\* A poll shows none or fails.  After the last one the order is pending.
ConfirmUnfilled ==
    /\ pc = "confirm"
    /\ \/ FilledSince(op, held[cur]) <= 0 /\ cache' = held
       \/ "readFail" \in Faults /\ UNCHANGED cache
    /\ IF left > 1
       THEN /\ left' = left - 1
            /\ UNCHANGED <<pc, job, todo, snap, cur, op, pending>>
       ELSE /\ pending' = [pending EXCEPT ![cur] = op]
            /\ Advance(cur)
            /\ cur' = NoStock /\ op' = NoOrder /\ left' = 0
    /\ UNCHANGED <<brokerVars, countVars, worldVars, ledger>>

-----------------------------------------------------------------------------
(* The daily jobs *)

\* pre_market clears the day's memory and reads the balance, which may fail;
\* the market opens afterwards.
PreMarket ==
    /\ phase = "pre"
    /\ MemoryReset
    /\ cache' \in {held, NoCache}
    /\ restored' = TRUE
    /\ phase' = "open"
    /\ UNCHANGED <<brokerVars, killFile, ledger, crashes>>

\* The process is started only after the pre-market time.
StartLate ==
    /\ "late" \in Faults
    /\ phase = "pre"
    /\ MemoryReset
    /\ cache' = NoCache
    /\ restored' = FALSE
    /\ phase' = "open"
    /\ UNCHANGED <<brokerVars, killFile, ledger, crashes>>

\* post_market: _cancel_all_pending_orders, then the balance for the report.
PostMarket ==
    /\ pc = "idle" /\ phase = "closed"
    /\ pc' = "sweep" /\ job' = "post"
    /\ todo' = {c \in Stocks : pending[c] # NoOrder}
    /\ UNCHANGED <<brokerVars, countVars, worldVars, snap, cur, op, left, pending,
                   cache, ledger>>

-----------------------------------------------------------------------------
(* The rest of the world *)

BrokerFills(o, n) ==
    /\ phase = "open"
    /\ pc = "cancel" /\ pending[cur].no = o.no => "lateFill" \in Faults
    /\ o.side = "SELL" => n <= held[o.code]
    /\ held' = [held EXCEPT ![o.code] = IF o.side = "BUY" THEN @ + n ELSE @ - n]
    /\ live' = (live \ {o}) \cup IF n = o.qty THEN {} ELSE {[o EXCEPT !.qty = @ - n]}
    /\ filled' = [filled EXCEPT ![o.code][o.side] = @ + n]
    /\ UNCHANGED <<lastNo, loopVars, countVars, worldVars, pending, cache, ledger>>

\* Day orders expire with the session.
MarketCloses ==
    /\ phase = "open"
    /\ phase' = "closed"
    /\ live' = {}
    /\ UNCHANGED <<held, lastNo, filled, loopVars, countVars, killFile, crashes, pending,
                   cache, ledger>>

\* A new trading day: yesterday's trades are no longer today's.
NewDay ==
    /\ phase = "closed" /\ pc = "idle"
    /\ phase' = "pre"
    /\ lastNo' = 0
    /\ filled' = [c \in Stocks |-> [s \in Sides |-> 0]]
    /\ ledger' = <<>>
    /\ UNCHANGED <<held, live, loopVars, countVars, killFile, crashes, pending, cache>>

\* BALANCE_CACHE_TTL passes.
CacheExpires ==
    /\ cache # NoCache
    /\ cache' = NoCache
    /\ UNCHANGED <<brokerVars, loopVars, countVars, worldVars, pending, ledger>>

\* buy_cooldown_after_sell_min has passed since the last sale of a stock.
CooldownElapses(c) ==
    /\ c \in cooling \/ \E i \in DOMAIN ledger : ledger[i].code = c /\ ledger[i].recent
    /\ cooling' = cooling \ {c}
    /\ ledger' = [i \in DOMAIN ledger |->
                    IF ledger[i].code = c THEN [ledger[i] EXCEPT !.recent = FALSE] ELSE ledger[i]]
    /\ UNCHANGED <<brokerVars, loopVars, worldVars, tradeCount, buysToday, lossSold,
                   untradable, limitHit, risk, restored, pending, cache>>

\* The worker inserts a queued row into trades.
WorkerSaves(i) ==
    /\ ~ledger[i].saved
    /\ ledger' = [ledger EXCEPT ![i].saved = TRUE]
    /\ UNCHANGED <<brokerVars, loopVars, countVars, worldVars, pending, cache>>

ToggleKillFile ==
    /\ "operator" \in Faults
    /\ killFile' = ~killFile
    /\ UNCHANGED <<brokerVars, loopVars, countVars, phase, crashes, pending, cache, ledger>>

\* /stop and /resume write RiskManager's halt flag from the bot's thread.
CmdHalt(on) ==
    /\ "operator" \in Faults
    /\ risk' = [risk EXCEPT !.halted = on]
    /\ UNCHANGED <<brokerVars, loopVars, worldVars, tradeCount, buysToday, cooling,
                   lossSold, untradable, limitHit, restored, pending, cache, ledger>>

\* The process dies anywhere and is started again at once.
Crash ==
    /\ crashes < MaxCrashes
    /\ "undrained" \in Faults \/ \A i \in DOMAIN ledger : ledger[i].saved
    /\ crashes' = crashes + 1
    /\ MemoryReset
    /\ cache' = NoCache
    /\ restored' = FALSE
    /\ UNCHANGED <<brokerVars, phase, killFile, ledger>>

FillSizes(o) == IF "partial" \in Faults THEN 1..o.qty ELSE {o.qty}

Engine ==
    \/ CycleFrozen \/ CycleBegin \/ CycleBreakerOpen
    \/ \E c \in Stocks : SweepReconciles(c) \/ SweepCancels(c)
    \/ CancelOrder \/ SweepDone
    \/ ReadBalance \/ ReadBalanceFails \/ ApiLimit \/ BreakerOpens
    \/ \E c \in Stocks :
        \/ SkipStock(c) \/ BuyUntradable(c)
        \/ \E side \in Sides :
            OrderAccepted(c, side) \/ OrderReplyLost(c, side) \/ OrderRejected(c, side)
    \/ ConfirmFilled \/ ConfirmUnfilled
    \/ PreMarket \/ StartLate \/ PostMarket

World ==
    \/ \E o \in live : \E n \in FillSizes(o) : BrokerFills(o, n)
    \/ MarketCloses \/ NewDay \/ CacheExpires
    \/ \E c \in Stocks : CooldownElapses(c)
    \/ \E i \in DOMAIN ledger : WorkerSaves(i)
    \/ ToggleKillFile
    \/ \E on \in BOOLEAN : CmdHalt(on)
    \/ Crash

Next == Engine \/ World

Spec == Init /\ [][Next]_vars

\* A running job takes its steps, and the scheduler starts cycles while the
\* market is open; the breaker does not stay open for ever.
JobSteps ==
    \/ \E c \in Stocks : SweepReconciles(c) \/ SweepCancels(c)
    \/ CancelOrder \/ SweepDone \/ ReadBalance
    \/ \E c \in Stocks : SkipStock(c)
    \/ ConfirmFilled \/ ConfirmUnfilled

FairSpec == Spec /\ WF_vars(CycleBegin) /\ WF_vars(JobSteps)

-----------------------------------------------------------------------------

OrderType == [no : Nat, side : Sides \cup {"none"}, before : Nat, age : 0..OrderTimeout]
LiveType == [no : Nat, code : Stocks, side : Sides, qty : Nat]
RowType == [code : Stocks, side : Sides, qty : Nat, pnl : Int,
            saved : BOOLEAN, recent : BOOLEAN]

Count(S) == Cardinality(S)
\* The shares of a side of a stock that the first rows of the ledger sum up to.
Booked(rows, side, c) ==
    LET sum[k \in 0..Len(rows)] ==
            IF k = 0 THEN 0
            ELSE IF rows[k].side = side /\ rows[k].code = c
                 THEN sum[k - 1] + rows[k].qty
                 ELSE sum[k - 1]
    IN  sum
RecordedQty(side, c) == Booked(ledger, side, c)[Len(ledger)]
\* The orders the engine still answers for.
Confirming(c) == pc = "confirm" /\ cur = c
Tracked(c) == pending[c] # NoOrder \/ Confirming(c)
TrackedBuys ==
    {c \in Stocks : pending[c].side = "BUY" \/ (Confirming(c) /\ op.side = "BUY")}
\* An order that reached the broker in this step.
NewOrders(side) == {o \in live' \ live : o.side = side /\ lastNo' = lastNo + 1 /\ o.no = lastNo'}

\* The types of all variables, and which task-local state exists at which await.
TypeOK ==
    /\ phase \in {"pre", "open", "closed"}
    /\ held \in [Stocks -> Nat]
    /\ live \subseteq LiveType
    /\ lastNo \in 0..MaxOrders
    /\ pc \in {"idle", "sweep", "cancel", "balance", "stocks", "confirm"}
    /\ job \in {"none", "cycle", "post"}
    /\ job = "none" <=> pc = "idle"
    /\ todo \subseteq Stocks
    /\ snap \in [Stocks -> Nat]
    /\ cur \in Stocks \cup {NoStock}
    /\ cur # NoStock <=> pc \in {"cancel", "confirm"}
    /\ op \in OrderType
    /\ left \in 0..Polls
    /\ pending \in [Stocks -> OrderType]
    /\ tradeCount \in Nat
    /\ buysToday \in [Stocks -> Nat]
    /\ cooling \subseteq Stocks /\ lossSold \subseteq Stocks /\ untradable \subseteq Stocks
    /\ limitHit \in BOOLEAN
    /\ risk \in RiskState
    /\ restored \in BOOLEAN
    /\ cache \in [Stocks -> Nat] \cup {NoCache}
    /\ killFile \in BOOLEAN
    /\ ledger \in Seq(RowType)
    /\ filled \in [Stocks -> [Sides -> Nat]]
    /\ crashes \in 0..MaxCrashes

\* Nothing is booked that did not happen: whatever replies, reads, cancels,
\* rows or processes are lost, and whatever stale balance an order was measured
\* against, the shares recorded for a side of a stock today never exceed the
\* shares the broker filled (fills are only inferred from balance differences,
\* _confirm_fill and _reconcile_orphan_fill).
RecordedWithinFilled ==
    \A c \in Stocks, side \in Sides : RecordedQty(side, c) <= filled[c][side]

\* The cycle never meets an order that is over its timeout when it decides on a
\* stock, so the cancel-and-replace branch of _suppress_or_replace_pending
\* cannot be reached; and an order being confirmed never finds the pending slot
\* of its stock taken, so registering it forgets no other order.
TrackingSound ==
    /\ pc \in {"balance", "stocks", "confirm"} /\ job = "cycle" =>
            \A c \in Stocks : pending[c] # NoOrder => pending[c].age < OrderTimeout
    /\ pc = "confirm" => pending[cur] = NoOrder

\* When every reply and cancel gets through and orders fill whole, every order
\* that can still fill is one the engine tracks, and there is at most one for a
\* stock (the duplicate suppression of _suppress_or_replace_pending).
LiveOrdersTracked ==
    crashes = 0 =>
    /\ \A o \in live :
        \/ pending[o.code].no = o.no
        \/ Confirming(o.code) /\ op.no = o.no
    /\ \A o, q \in live : o.code = q.code => o = q

\* After the restore the memory of the day is what the recorded trades determine: the
\* risk state, halt included, and the buys of each stock also after a restart, so that a
\* crash loses neither a loss streak nor a halt; and, while no row was lost with a crash,
\* the count the daily trade limit compares.
MemoryMatchesLedger ==
    restored /\ phase = "open" =>
        /\ risk = ReplaySells(DOMAIN ledger)
        /\ \A c \in Stocks : buysToday[c] = Count(Rows("BUY", c))
        /\ crashes = 0 => tradeCount = Len(ledger)

\* The per-stock entry limit holds for recorded and tracked buys together, also
\* when an entry is only recognised cycles later or after a restart.
BuysPerStockBounded ==
    \A c \in Stocks :
        Count(Rows("BUY", c)) + Count({c} \cap TrackedBuys) <= MaxBuysPerStock

\* With the same-day block on, no buy order follows a losing sale of the stock
\* on the same day, whichever path recorded the sale and through restarts.
NoBuyAfterLoss ==
    [][\A o \in NewOrders("BUY") :
         LossRebuyBlock => \A i \in Rows("SELL", o.code) : ledger[i].pnl >= 0]_vars

\* Once the day's sales breach a limit, no cycle that begins afterwards buys.
NoBuyWhenHalted ==
    [][NewOrders("BUY") # {} => ~ReplaySells(DOMAIN ledger).halted]_vars

\* While the market is open an unfilled order does not stay in the book: cycles
\* reconcile or cancel it, unless the engine was frozen or halted for the day.
PendingResolvedIntraday ==
    \A c \in Stocks :
        pending[c] # NoOrder
            ~> pending[c] = NoOrder \/ phase # "open" \/ killFile \/ limitHit \/ risk.halted

-----------------------------------------------------------------------------
(* What comments and docs say and the code does not keep *)

\* No position that the broker holds and the books do not know: once an order is
\* neither live nor tracked, all it filled has been recorded
\* (docstring of _cancel_pending_order).
NoUntrackedFill ==
    \A c \in Stocks, side \in Sides :
        ~Tracked(c) /\ {o \in live : o.code = c} = {}
            => RecordedQty(side, c) = filled[c][side]

=============================================================================
