------------------------------- MODULE Session -------------------------------
(***************************************************************************)
(* The days of one market as src/scheduler and main.py divide them: cron   *)
(* jobs at fixed times, the trading job that is registered every morning,  *)
(* the process that is started, restarted and shut down at any time, and   *)
(* what of a day the engine's memory belongs to.                           *)
(*                                                                         *)
(* The slots of a day are the times at which a job is due; between "open"  *)
(* and "close" the trading job fires again and again.                      *)
(***************************************************************************)
EXTENDS Integers, Sequences, FiniteSets

CONSTANTS
    Slots,          \* the slots in their order
    ClosedDays,     \* weekends and holidays of holidays.json
    LastDay,        \* bound on the days
    MaxSales,      \* bound on the sales of a day
    MaxStarts       \* bound on the starts of the process

VARIABLES
    day, slot,      \* the date and the slot the clock is in
    due,            \* cron jobs due in this slot that the scheduler has not run yet
    process,        \* "down", "up", or "ending": shutdown waits for the jobs that run
    running,        \* jobs that run in their threads
    registered,     \* the day of the trading job's start_date, or 0
    sold,         \* sales of today that are recorded
    counted,        \* sales of today the risk limits know of
    former,         \* sales of former days they know of
    restored,       \* _risk_state_restored
    quota,          \* Redis: what the screening worker may use of the rate
    starts,
    unreset         \* history: the process was up and did not run pre_market today

memory == <<sold, counted, former, restored>>
sessionVars == <<day, slot, due, process, running, registered, memory, quota, starts, unreset>>

Position(s) == CHOOSE i \in DOMAIN Slots : Slots[i] = s
InSession == Position("open") <= slot /\ slot < Position("close")

\* is_market_closed
Closed(d) == d \in ClosedDays

\* The job of each slot; quotas are set on closed days too.
JobsOf(s) ==
    CASE s = "quota_pre" -> {"quota_pre"}
      [] s = "pre_market" -> {"pre_market"}
      [] s = "register" -> {"register", "quota_open"}
      [] s = "quota_post" -> {"quota_post"}
      [] s = "post_market" -> {"post_market"}
      [] s = "summary" -> {"summary"}
      [] OTHER -> {}

Init ==
    /\ day = 1 /\ slot = 1 /\ due = {} /\ process = "down" /\ running = {}
    /\ registered = 0 /\ sold = 0 /\ counted = 0 /\ former = 0 /\ restored = FALSE /\ quota = "default"
    /\ starts = 0 /\ unreset = FALSE

-----------------------------------------------------------------------------
(* The clock *)

\* The next slot.  What the sleeping machine did not run within the grace time misfires.  A
\* job may last for hours, but not over night (JobThreads has those that hang).
NextSlot ==
    /\ slot < Len(Slots) \/ (day < LastDay /\ running = {})
    /\ IF slot < Len(Slots) THEN slot' = slot + 1 /\ UNCHANGED day
       ELSE slot' = 1 /\ day' = day + 1
    /\ due' = IF process = "up" THEN JobsOf(Slots[slot']) ELSE {}
    /\ unreset' = IF slot = Len(Slots) THEN FALSE
                  ELSE unreset \/ ("pre_market" \in due /\ restored /\ ~Closed(day))
    /\ IF slot < Len(Slots) THEN UNCHANGED <<sold, counted, former>>
       ELSE sold' = 0 /\ counted' = 0 /\ former' = former + counted
    /\ UNCHANGED <<process, running, registered, restored, quota, starts>>

-----------------------------------------------------------------------------
(* The process: main() and its end *)

\* _start_trading_job, at once if the market has yet to close today.
Registered == IF ~Closed(day) /\ slot < Position("close") THEN day ELSE 0

\* A faulty variant: a new engine takes its memory for that of today.
StartTrusting ==
    /\ process = "down" /\ starts < MaxStarts
    /\ process' = "up" /\ starts' = starts + 1
    /\ registered' = Registered /\ counted' = 0 /\ former' = 0 /\ restored' = TRUE
    /\ unreset' = FALSE /\ UNCHANGED <<day, slot, due, running, quota, sold>>

\* main: a new engine, a scheduler with all its cron jobs; quotas stay what Redis has.
StartProcess ==
    /\ process = "down" /\ starts < MaxStarts
    /\ process' = "up" /\ starts' = starts + 1
    /\ registered' = Registered /\ counted' = 0 /\ former' = 0 /\ restored' = FALSE
    /\ unreset' = FALSE /\ UNCHANGED <<day, slot, due, running, quota, sold>>

\* SIGTERM, or /restart: worker and bot end first, then the scheduler waits for its jobs.
Shutdown ==
    /\ process = "up" /\ process' = "ending" /\ due' = {}
    /\ UNCHANGED <<day, slot, running, registered, memory, quota, starts, unreset>>

Ended ==
    /\ process = "ending" /\ running = {} /\ process' = "down"
    /\ UNCHANGED <<day, slot, due, running, registered, memory, quota, starts, unreset>>

Killed ==
    /\ process # "down" /\ process' = "down" /\ due' = {} /\ running' = {}
    /\ UNCHANGED <<day, slot, registered, memory, quota, starts, unreset>>

-----------------------------------------------------------------------------
(* The jobs *)

\* A cron job is run once in its slot.
Fire(job) ==
    /\ process = "up" /\ job \in due /\ due' = due \ {job}
    /\ UNCHANGED <<day, slot, process, starts>>

\* Jobs that only look at the day, and have no effect on the engine.
QuotaJob ==
    /\ \/ Fire("quota_pre") /\ quota' = "all"
       \/ Fire("quota_open") /\ quota' = "share"
       \/ Fire("quota_post") /\ quota' = "none"
    /\ UNCHANGED <<running, registered, memory, unreset>>

RegisterJob ==
    /\ Fire("register") /\ registered' = IF Closed(day) THEN registered ELSE day
    /\ UNCHANGED <<running, memory, quota, unreset>>

Starts(job) == running' = running \cup {job}

\* pre_market: memory is reset before the first await, even if a slow cycle is still at work.
PreMarketBegins ==
    /\ Fire("pre_market")
    /\ IF Closed(day) THEN UNCHANGED <<running, counted, former>>
       ELSE Starts("pre_market") /\ counted' = 0 /\ former' = 0
    /\ UNCHANGED <<registered, sold, restored, quota, unreset>>

ReportBegins ==
    /\ \E job \in {"post_market", "summary"} :
          /\ Fire(job)
          /\ IF Closed(day) THEN UNCHANGED running ELSE Starts(job)
    /\ UNCHANGED <<registered, memory, quota, unreset>>

\* trading_job, if its last run has ended (max_instances): the engine that has not seen this
\* morning's pre_market restores its limits from today's sales, once.
CycleBegins ==
    /\ process = "up" /\ "cycle" \notin running /\ registered = day /\ InSession
    /\ Starts("cycle") /\ restored' = TRUE
    /\ counted' = IF restored THEN counted ELSE sold
    /\ UNCHANGED <<day, slot, due, process, registered, sold, former, quota, starts, unreset>>

\* A cycle records a sale; the worker has saved it before the process can end (TradingEngine
\* has the case that it has not).
CycleSells ==
    /\ "cycle" \in running /\ sold < MaxSales
    /\ sold' = sold + 1 /\ counted' = counted + 1
    /\ UNCHANGED <<day, slot, due, process, running, registered, former, restored, quota, starts, unreset>>

\* pre_market turns the restore off when it ends, whatever it met with.
JobEnds(job) ==
    /\ job \in running /\ running' = running \ {job}
    /\ restored' = (restored \/ job = "pre_market")
    /\ UNCHANGED <<day, slot, due, process, registered, sold, counted, former, quota, starts, unreset>>

Next ==
    \/ NextSlot \/ StartProcess \/ Shutdown \/ Ended \/ Killed
    \/ QuotaJob \/ RegisterJob \/ PreMarketBegins \/ ReportBegins \/ CycleBegins \/ CycleSells
    \/ \E job \in {"pre_market", "cycle", "post_market", "summary"} : JobEnds(job)

Spec == Init /\ [][Next]_sessionVars

-----------------------------------------------------------------------------
(* Properties *)

\* The risk limits of a trading cycle are about today: they know all of today's sales and
\* none of a former day, whenever the process was started and whatever ran late; unless it
\* had traded before and lived through a morning without pre_market.
CycleCountsToday == "cycle" \in running /\ ~unreset => counted = sold /\ former = 0
=============================================================================
