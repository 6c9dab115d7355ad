------------------------------ MODULE EndOfDay ------------------------------
(***************************************************************************)
(* The books of a day.  When a market closes its engine cancels what is    *)
(* open, reads the trades of the day back from the database and queues the *)
(* reports (post_market); the worker makes them (worker/handlers.py), and  *)
(* the summary job writes the same summary row once more.  The engines of  *)
(* the two markets are processes of their own; they share the tables and   *)
(* the queue, and their sessions fall on the same date.                    *)
(*                                                                         *)
(* How the queue itself behaves is TaskQueue's subject: here a task runs   *)
(* until it is done or dead, an attempt that fails leading to either of    *)
(* waiting and dead.  A set of trades as a query returns it is a function  *)
(* from trades to numbers of rows, since a trade whose recording was       *)
(* retried has more than one.                                              *)
(***************************************************************************)
EXTENDS Integers, FiniteSets

CONSTANTS
    Markets,
    Trades,
    MarketOf,       \* market of each trade
    Kinds,          \* kinds of report, of AllKinds
    MaxAttempts     \* worker.task_max_retries

VARIABLES
    phase,      \* post_market of each engine
    queued,     \* record_trade tasks: attempts made, or Settled, or Unqueued
    trades,     \* table trades: rows of each trade
    reports,    \* the tasks of post_market, by idempotency key
    promised,   \* history: kinds of report whose enqueue returned a task, by market
    summary,    \* table daily_summary: by its key
    made,       \* calendar events, messages and performance rows: kind, market, content
    txn         \* summary transactions under way: of each market's worker and job

dayVars == <<phase, queued, trades, reports, promised, summary, made, txn>>

AllKinds == {"calendar_event", "telegram_summary", "daily_performance", "daily_summary"}
Unqueued == -1
Settled == MaxAttempts  \* done, or dead
Content == [Trades -> 0..MaxAttempts]
None == [t \in Trades |-> -1]
NoTrades == [t \in Trades |-> 0]
Writers == {"worker", "job"}
Phases == {"open", "cancelled", "posted"}

Init ==
    /\ phase = [m \in Markets |-> "open"]
    /\ queued = [t \in Trades |-> Unqueued] /\ trades = NoTrades
    /\ reports = {} /\ promised = [m \in Markets |-> {}]
    /\ summary = [m \in Markets |-> None] /\ made = {}
    /\ txn = [m \in Markets |-> [w \in Writers |-> None]]

-----------------------------------------------------------------------------
(* Trades reach the table through the queue *)

\* _record_trade_to_db of the engine, in a cycle or for an order that is found filled
\* when it is cancelled at the close.  An enqueue that fails loses the record.
Fill(t) ==
    /\ queued[t] = Unqueued /\ phase[MarketOf[t]] = "open"
    /\ queued' = [queued EXCEPT ![t] = 0]
    /\ UNCHANGED <<phase, trades, reports, promised, summary, made, txn>>

\* RecordTradeHandler: a plain INSERT.  It is tried again when it fails, and also when
\* only its completion could not be stored.
RecordTrade(t) ==
    /\ queued[t] \in 0..(MaxAttempts - 1)
    /\ \/ /\ trades' = [trades EXCEPT ![t] = @ + 1]
          /\ queued' \in {[queued EXCEPT ![t] = Settled], [queued EXCEPT ![t] = @ + 1]}
       \/ /\ queued' = [queued EXCEPT ![t] = @ + 1]
          /\ UNCHANGED trades
    /\ UNCHANGED <<phase, reports, promised, summary, made, txn>>

-----------------------------------------------------------------------------
(* post_market *)

\* get_trades_by_date with the market: the rows of the market at this moment.
LoadedTrades(m) == [t \in Trades |-> IF MarketOf[t] = m THEN trades[t] ELSE 0]

\* A faulty variant: the keys name the date alone.
KeyOfDate(kind, m) == <<kind>>

Key(kind, m) == <<kind, m>>

\* enqueue returns the task that has the key already, or makes one.
Enqueued(kinds, m, content) ==
    reports \cup {[key |-> Key(k, m), kind |-> k, market |-> m, content |-> content, status |-> "waiting"] :
                    k \in {x \in kinds : \A r \in reports : r.key # Key(x, m)}}

\* _cancel_all_pending_orders, with what it finds filled.
PostMarketCancel(m) ==
    /\ phase[m] = "open" /\ phase' = [phase EXCEPT ![m] = "cancelled"]
    /\ \E late \in SUBSET {t \in Trades : MarketOf[t] = m /\ queued[t] = Unqueued} :
          queued' = [t \in Trades |-> IF t \in late THEN 0 ELSE queued[t]]
    /\ UNCHANGED <<trades, reports, promised, summary, made, txn>>

\* The balance and the executions have been awaited: the trades are loaded, a failing
\* query giving none, and one report after the other is queued, each on its own.
PostMarketReport(m) ==
    /\ phase[m] = "cancelled" /\ phase' = [phase EXCEPT ![m] = "posted"]
    /\ \E content \in {LoadedTrades(m), NoTrades}, kinds \in SUBSET Kinds :
          /\ reports' = Enqueued(kinds, m, content)
          /\ promised' = [promised EXCEPT ![m] = kinds]
    /\ UNCHANGED <<queued, trades, summary, made, txn>>

\* The balance could not be had: the day has no reports but the summary job's.
PostMarketFails(m) ==
    /\ phase[m] = "cancelled" /\ phase' = [phase EXCEPT ![m] = "posted"]
    /\ UNCHANGED <<queued, trades, reports, promised, summary, made, txn>>

-----------------------------------------------------------------------------
(* The worker's handlers *)

Waiting(r) == r.status = "waiting"
Becomes(r, status) == (reports \ {r}) \cup {[r EXCEPT !.status = status]}
Retried(r) == {reports, Becomes(r, "dead")}

Report(r) == [kind |-> r.kind, market |-> r.market, content |-> r.content]

\* A performance row of the market and day exists already.
HasPerformance(m) == \E x \in made : x.kind = "daily_performance" /\ x.market = m

\* CalendarEventHandler, TelegramNotifyHandler, DailyPerformanceHandler: what was loaded
\* by post_market goes out.  A message that cannot be sent counts as sent.
HandleReport(r) ==
    /\ Waiting(r) /\ r.kind # "daily_summary"
    /\ \/ /\ made' = IF r.kind = "daily_performance" /\ HasPerformance(r.market)
                     THEN made ELSE made \cup {Report(r)}
          /\ reports' \in Retried(r) \cup {Becomes(r, "done")}
       \/ /\ r.kind = "telegram_summary" /\ reports' = Becomes(r, "done")
          /\ UNCHANGED made
       \/ /\ r.kind # "telegram_summary" /\ reports' \in Retried(r)
          /\ UNCHANGED made
    /\ UNCHANGED <<phase, queued, trades, promised, summary, txn>>

\* A faulty variant: the row is found by its date alone.
RowOfDate(m) == CHOOSE x \in Markets : TRUE

RowOf(m) == m

\* upsert_daily_summary: the trades of the market are counted ...
SummaryRead(w, m) ==
    /\ txn[m][w] = None
    /\ txn' = [txn EXCEPT ![m][w] = LoadedTrades(m)]

\* ... and the row is inserted or overwritten, whatever it holds by now.  The row's
\* unique key makes the second of two inserts fail.
SummaryWrite(w, m) ==
    /\ txn[m][w] # None
    /\ summary' = [summary EXCEPT ![RowOf(m)] = txn[m][w]]
    /\ txn' = [txn EXCEPT ![m][w] = None]

SummaryFails(w, m) ==
    /\ txn[m][w] # None /\ txn' = [txn EXCEPT ![m][w] = None]
    /\ UNCHANGED summary

HandleSummaryRead(r) ==
    /\ Waiting(r) /\ r.kind = "daily_summary" /\ SummaryRead("worker", r.market)
    /\ UNCHANGED <<phase, queued, trades, reports, promised, summary, made>>

HandleSummaryEnds(r) ==
    /\ Waiting(r) /\ r.kind = "daily_summary"
    /\ \/ /\ SummaryWrite("worker", r.market)
          /\ reports' \in Retried(r) \cup {Becomes(r, "done")}
       \/ /\ SummaryFails("worker", r.market)
          /\ reports' \in Retried(r)
    /\ UNCHANGED <<phase, queued, trades, promised, made>>

-----------------------------------------------------------------------------
(* summarize_daily_job, twenty minutes after post_market, which has ended by then; a *)
(* failure is logged.                                                                *)

SummaryJobRead(m) ==
    /\ phase[m] = "posted" /\ SummaryRead("job", m)
    /\ UNCHANGED <<phase, queued, trades, reports, promised, summary, made>>

SummaryJobEnds(m) ==
    /\ SummaryWrite("job", m) \/ SummaryFails("job", m)
    /\ UNCHANGED <<phase, queued, trades, reports, promised, made>>

Next ==
    \/ \E t \in Trades : Fill(t) \/ RecordTrade(t)
    \/ \E m \in Markets :
          \/ PostMarketCancel(m) \/ PostMarketReport(m) \/ PostMarketFails(m)
          \/ SummaryJobRead(m) \/ SummaryJobEnds(m)
    \/ \E r \in reports : HandleReport(r) \/ HandleSummaryRead(r) \/ HandleSummaryEnds(r)

Spec == Init /\ [][Next]_dayVars

-----------------------------------------------------------------------------
(* Properties *)

\* The types of the tables and of the transactions under way.
TypeOK ==
    /\ phase \in [Markets -> Phases] /\ Kinds \subseteq AllKinds /\ trades \in Content
    /\ \A m \in Markets : summary[m] \in Content \cup {None}
    /\ \A m \in Markets, w \in Writers : txn[m][w] \in Content \cup {None}

\* A report whose task was accepted for a market is a task of that market: the market
\* that closes first does not take the other one's report of the same date away.
AcceptedIsQueued ==
    \A m \in Markets : \A k \in promised[m] : \E r \in reports : r.kind = k /\ r.market = m

\* The calendar, the message and the performance row of one market tell the same day,
\* and the summary, whoever of worker and job wrote it last, has no trade less.
ReportsAgree ==
    \A x \in made :
        /\ \A y \in made : y.market = x.market => y.content = x.content
        /\ summary[x.market] # None => \A t \in Trades : x.content[t] <= summary[x.market][t]
=============================================================================
