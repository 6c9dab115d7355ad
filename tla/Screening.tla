----------------------------- MODULE Screening -----------------------------
(***************************************************************************)
(* How new stocks reach the trading cycle.  The screening worker of        *)
(* src/worker/screener.py ranks, filters and scores stocks and writes what *)
(* it saw into screening_results, the candidates marked; the engine reads  *)
(* the table every so many cycles (_screen_stocks) and rotates the set of  *)
(* stocks it watches.  Nothing but the table connects the two.             *)
(*                                                                         *)
(* One market on one day: get_by_date selects by both.  Time is counted in *)
(* intervals of the worker.                                                *)
(***************************************************************************)
EXTENDS Integers, Sequences, FiniteSets, FiniteSetsExt, SequencesExt

CONSTANTS
    Stocks,
    MaxScreened,    \* screening.max_screened
    FreshWindow,    \* screening.fresh_window_min, in intervals of the worker
    MaxTime,        \* bound: the day
    MaxCycles       \* bound: cycles of the worker

VARIABLES
    now,
    mode,       \* which pipeline the worker runs: "single", "multi" or "us"
    rows,       \* screening_results
    work,       \* the worker's cycle under way: what it will record
    cycles,     \* _cycle_count of the worker, over its restarts
    wakes,      \* end of the worker's sleep
    screened,   \* _screened_codes of the engine
    watchlist   \* table watchlist: stocks that are watched anyway

screeningVars == <<now, mode, rows, work, cycles, wakes, screened, watchlist>>

NoWork == [busy |-> FALSE, ranked |-> <<>>, new |-> {}]
Row == [code : Stocks, rank : 1..Cardinality(Stocks), at : 0..MaxTime, passed : BOOLEAN]
Rankings == {r \in UNION {[1..n -> Stocks] : n \in 1..Cardinality(Stocks)} : IsInjective(r)}

Recent(at) == at >= now - FreshWindow

Init ==
    /\ now = 0 /\ mode \in {"single", "multi", "us"}
    /\ rows = {} /\ work = NoWork /\ cycles = 0 /\ wakes = 0 /\ screened = {} /\ watchlist = {}

Tick ==
    /\ now < MaxTime
    /\ now' = now + 1
    /\ UNCHANGED <<mode, rows, work, cycles, wakes, screened, watchlist>>

-----------------------------------------------------------------------------
(* The worker *)

\* Candidates of the last minutes: not looked at again until the window has passed.
ExistingScreened == {r.code : r \in {x \in rows : x.passed /\ Recent(x.at)}}

\* The price, change, volume and fund filters, the analysis and the score's minimum
\* may let any of the stocks through that are not excluded.
Scored(ranked, excluded) == SUBSET (ToSet(ranked) \ excluded)

\* The best of them, as many as there is room for.
Chosen(scored, excluded) ==
    {new \in SUBSET scored :
        Cardinality(new) = Min({Cardinality(scored), Max({0, MaxScreened - Cardinality(excluded)})})}

\* Stocks under a market action or a critical disclosure; a failing lookup blocks none.
RiskBlocked(ranked) == SUBSET ToSet(ranked)

\* The rank query has answered; the table is read, then the daily prices are awaited.
Analyse(ranked, excluded, recorded) ==
    /\ work = NoWork /\ now >= wakes /\ cycles < MaxCycles
    /\ cycles' = cycles + 1
    /\ \E scored \in Scored(ranked, excluded) : \E new \in Chosen(scored, excluded) :
            work' = [busy |-> TRUE, ranked |-> recorded, new |-> new]
    /\ UNCHANGED <<now, mode, rows, wakes, screened, watchlist>>

\* The volume ranking alone: all of it is recorded.
RunScreening ==
    /\ mode = "single"
    /\ \E ranked \in Rankings : \E blocked \in RiskBlocked(ranked) :
            Analyse(ranked, ExistingScreened \cup blocked, ranked)

\* Four rankings, merged: only what passed the exclusions is recorded.
RunScreeningMultisource ==
    /\ mode = "multi"
    /\ \E ranked \in Rankings : \E blocked \in RiskBlocked(ranked) :
            LET excluded == ExistingScreened \cup blocked
            IN  Analyse(ranked, excluded, SelectSeq(ranked, LAMBDA c : c \notin excluded))

\* The rankings of the US exchanges: no market actions or disclosures are looked up.
RunScreeningUs ==
    /\ mode = "us"
    /\ \E ranked \in Rankings : Analyse(ranked, ExistingScreened, ranked)

\* The rank query fails or is empty: nothing until the next interval.
ScreeningFails ==
    /\ work = NoWork /\ now >= wakes /\ cycles < MaxCycles
    /\ cycles' = cycles + 1 /\ wakes' = now + 1
    /\ UNCHANGED <<now, mode, rows, work, screened, watchlist>>

Recorded == {[code |-> work.ranked[i], rank |-> i, at |-> now, passed |-> work.ranked[i] \in work.new] :
                i \in DOMAIN work.ranked}

\* One transaction for the whole cycle; if it fails the cycle is lost.
RecordToDb ==
    /\ work # NoWork
    /\ rows' \in {rows \cup Recorded, rows}
    /\ work' = NoWork /\ wakes' = now + 1
    /\ UNCHANGED <<now, mode, cycles, screened, watchlist>>

-----------------------------------------------------------------------------
(* The engine: _screen_stocks *)

Seen == {r.code : r \in rows}
LatestAt(c) == Max({r.at : r \in {x \in rows : x.code = c}})
BestRank(c) == Min({r.rank : r \in {x \in rows : x.code = c}})

\* The query sorts by rank alone and each code counts once, by its first row; rows of
\* the same rank come in any order.
FirstRows == {f \in [Seen -> rows] : \A c \in Seen : f[c].code = c /\ f[c].rank = BestRank(c)}

\* A faulty variant: whatever was ranked counts.
FreshWhenRanked(first) == {c \in Seen \ watchlist : Recent(LatestAt(c))}

Fresh(first) == {c \in Seen \ watchlist : first[c].passed /\ Recent(LatestAt(c))}

\* Stocks that are no longer fresh go, unless nothing is fresh; the best ranked come in
\* up to the cap.
Rotated(fresh) ==
    LET kept == IF fresh = {} THEN screened ELSE screened \cap fresh
        new  == fresh \ kept
        room == Max({0, MaxScreened - Cardinality(kept)})
    IN  {kept \cup added : added \in {a \in SUBSET new :
            /\ Cardinality(a) = Min({room, Cardinality(new)})
            /\ \A c \in a, d \in new \ a : BestRank(c) <= BestRank(d)}}

ScreenStocks ==
    /\ \E first \in FirstRows : screened' \in Rotated(Fresh(first))
    /\ UNCHANGED <<now, mode, rows, work, cycles, wakes, watchlist>>

\* A restart of the process: the set is in memory only, a cycle under way is lost.
Restart ==
    /\ screened # {} \/ work.busy
    /\ screened' = {} /\ work' = NoWork /\ wakes' = now
    /\ UNCHANGED <<now, mode, rows, cycles, watchlist>>

\* /watch and /unwatch; adding a stock twice or removing one that is not there is refused.
Watch(c) ==
    /\ c \notin watchlist
    /\ watchlist' = watchlist \cup {c}
    /\ UNCHANGED <<now, mode, rows, work, cycles, wakes, screened>>

Unwatch(c) ==
    /\ c \in watchlist
    /\ watchlist' = watchlist \ {c}
    /\ UNCHANGED <<now, mode, rows, work, cycles, wakes, screened>>

Next ==
    \/ Tick
    \/ RunScreening \/ RunScreeningMultisource \/ RunScreeningUs \/ ScreeningFails
    \/ RecordToDb \/ ScreenStocks \/ Restart
    \/ \E c \in Stocks : Watch(c) \/ Unwatch(c)

Spec == Init /\ [][Next]_screeningVars

-----------------------------------------------------------------------------
(* Properties *)

\* The types of the table, the cycle under way and the set.
TypeOK ==
    /\ now \in 0..MaxTime /\ cycles \in 0..MaxCycles /\ rows \subseteq Row /\ screened \subseteq Stocks
    /\ work.new \subseteq ToSet(work.ranked)

\* The engine watches a stock only if the worker has passed it on this day: what was
\* merely ranked (penny stocks, stocks in liquidation) does not get in.
MonitoredHavePassed == screened \subseteq {r.code : r \in {x \in rows : x.passed}}

=============================================================================
