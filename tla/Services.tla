------------------------------- MODULE Services -------------------------------
(***************************************************************************)
(* What goes on beside the trading cycle: the screening worker and the set *)
(* of watched stocks, the days of the scheduler, the books of the day, the *)
(* operator's bot, the news worker, the price stream, the token and the    *)
(* limiter that processes share, and the harness that implements proposals *)
(* (which this module extends).  They meet in the trading engine only.     *)
(* Here they are put side by side, each with its state and its parameters, *)
(* so that they can be run and reasoned about in one place.                *)
(***************************************************************************)
EXTENDS ImprovementCycle, Integers, Sequences

CONSTANTS
    Stocks, MaxScreened, FreshWindow, LastInterval, MaxScreenings,          \* Screening
    Markets, Trades, MarketOf, Kinds, MaxAttempts,                          \* EndOfDay
    UpdatePage, MaxSent, MaxBotStarts,                                      \* OperatorBot
    Feeds, Dart, DayLength, PageSize, LastTick, MaxItems,                   \* NewsCollectors
    Users, Codes, MaxSubscriptions, MaxReconnect, MaxDrops,                 \* RealtimeQuotes
    Slots, ClosedDays, LastDay, MaxSales, MaxStarts,                        \* Session
    Procs, Coros, Lifetime, Margin, RetryGap, MaxTime, MaxCrashes,          \* AccessToken
    Coroutines, DailyLimit, LastDate, MaxCalls                              \* SharedLimiter

VARIABLES
    now, mode, rows, work, cycles, wakes, screened, watchlist,
    phase, queued, trades, reports, promised, summary, made, txn,
    inbox, confirmed, bot, offset, batch, halted, dying, starts, sentBefore, handled,
    lapses,
    clock, published, chunks, lastCollected, collecting, excused,
    state, ws, alive, server, subs, loop, saved, wanted, reconnects, call, left, drops,
    day, slot, due, process, running, registered, sold, counted, former, restored, quota,
    births, unreset,
    time, mem, disk, retryAfter, issuing, started, refusedAt, cached, crashes,
    today, counter, key, usingRedis, localCount, localDate, at, granted

screeningVars == <<now, mode, rows, work, cycles, wakes, screened, watchlist>>
dayVars == <<phase, queued, trades, reports, promised, summary, made, txn>>
botVars == <<inbox, confirmed, bot, offset, batch, halted, dying, starts, sentBefore,
             handled, lapses>>
newsVars == <<clock, published, chunks, lastCollected, collecting, excused>>
quoteVars == <<state, ws, alive, server, subs, loop, saved, wanted, reconnects, call, left,
               drops>>
sessionVars == <<day, slot, due, process, running, registered, sold, counted, former,
                 restored, quota, births, unreset>>
tokenVars == <<time, mem, disk, retryAfter, issuing, started, refusedAt, cached, crashes>>
limiterVars == <<today, counter, key, usingRedis, localCount, localDate, at, granted>>
marketVars == <<screeningVars, dayVars, sessionVars>>
serviceVars == <<botVars, newsVars, quoteVars, tokenVars, limiterVars, vars>>

\* A token outlives its margin, and a failed issue is not tried again in the same tick.
ASSUME TokenAssumption ==
    /\ IsFiniteSet(Procs)
    /\ Lifetime \in Nat /\ Margin \in Nat /\ RetryGap \in Nat \ {0}
    /\ Margin < Lifetime

\* The scheduler's slots differ, and the day begins with pre_market, before the session.
ASSUME SlotsAssumption ==
    /\ Slots \in Seq(STRING)
    /\ \A i, j \in DOMAIN Slots : Slots[i] = Slots[j] => i = j
    /\ \E i, j, k \in DOMAIN Slots :
          i < j /\ j < k /\ Slots[i] = "pre_market" /\ Slots[j] = "open" /\ Slots[k] = "close"

\* An answer of Telegram holds at least one update.
ASSUME BotAssumption == UpdatePage \in Nat \ {0} /\ MaxSent \in Nat

\* A process has finitely many coroutines, and a day's limit lets a call through.
ASSUME LimiterAssumption ==
    IsFiniteSet(Coroutines) /\ DailyLimit \in Nat \ {0} /\ LastDate \in Nat \ {0}

\* Disclosures are a source of their own.
ASSUME NewsAssumption == DayLength \in Nat \ {0} /\ Dart \notin Feeds

Rotation == INSTANCE Screening WITH MaxTime <- LastInterval, MaxCycles <- MaxScreenings
Books == INSTANCE EndOfDay
Bot == INSTANCE OperatorBot WITH PageSize <- UpdatePage, MaxStarts <- MaxBotStarts
News == INSTANCE NewsCollectors WITH now <- clock, cycle <- collecting
Quotes == INSTANCE RealtimeQuotes WITH attempts <- reconnects
Days == INSTANCE Session WITH starts <- births
Token == INSTANCE AccessToken WITH now <- time, saved <- cached
Limiter == INSTANCE SharedLimiter WITH
    Workers <- Procs, Callers <- Coroutines, LastDay <- LastDate

-----------------------------------------------------------------------------
(* Properties *)

\* The engine watches only what the worker has passed.
MonitoredHavePassed == Rotation!MonitoredHavePassed

\* A report that was accepted for a market is a task of that market.
AcceptedIsQueued == Books!AcceptedIsQueued

\* The reports of one day agree, and the summary has no trade less.
ReportsAgree == Books!ReportsAgree

\* A command is carried out again only after a start whose flush lapsed.
HandledAgainOnlyAfterLapse == Bot!HandledAgainOnlyAfterLapse

\* What no later cycle of a collector asks for was recorded or could not be read.
LossExplained == News!LossExplained

\* A live connection's list holds what the server has been told of.
ListedIsSubscribed == Quotes!ListedIsSubscribed

\* The fresh tokens in the cache file are at most one for each process.
IssueBurstBounded == Token!IssueBurstBounded

\* A token one process has cached ends the outage of the others within the retry gap.
OutageEndsWithCache == Token!OutageEndsWithCache

\* The daily limit of all processes together, with the overshoot of concurrent callers
\* and of the processes that have lost Redis.
CallsBounded == Limiter!CallsBounded

\* The risk limits of a trading cycle are about today's sales.
CycleCountsToday == Days!CycleCountsToday
=============================================================================
