------------------------------ MODULE HeldExit ------------------------------
(***************************************************************************)
(* What becomes of a held position of src/engine.py: its evaluation in     *)
(* every cycle, the peak price and the holding time the exit rules use,    *)
(* the sale they order, and the way the peak takes through the portfolio   *)
(* table over nights and restarts.                                         *)
(*                                                                         *)
(* One stock suffices: neither the rules nor the two dictionaries relate   *)
(* stocks.  The order itself is reduced to its outcomes (TradingEngine has *)
(* the protocol): booked by the confirmation, in part or whole, booked     *)
(* late by the reconciliation, cancelled or refused.                       *)
(***************************************************************************)
EXTENDS ExitRules

CONSTANTS
    Prices,         \* quotes, in whole units
    Lot,            \* shares of a position
    CloseTick,      \* market_close_cutoff on the model's clock
    LastTick,       \* bound: the last tick of a session
    MaxDays,        \* bound: sessions
    MaxCrashes,     \* bound: crashes of the process
    Faults          \* "partial", "lateSale", "loadFail", "lostSync"

VARIABLES
    session,    \* "open", "closed", or "down" after a crash
    day, clock, \* the session's number and its clock
    shares, avg,\* the broker's holding and its average price
    peak,       \* _peak_prices[stock], 0 when absent
    since,      \* _held_since[stock], NoTime when absent
    order,      \* the sale under way: "none", "confirming", "pending"
    why,        \* the reason it was ordered for
    seen,       \* the price of the last evaluation that ordered nothing, or 0
    row,        \* portfolios.peak_price, 0 for NULL
    queue,      \* peaks in sync_portfolio tasks the worker has not run
    crashes,
    top,        \* history: highest of avg and the prices evaluated since it was opened
    age,        \* history: ticks of open sessions it has been held
    clean,      \* history: neither a restart, a night nor a partial sale lost its peak
    late        \* history: the last sale was booked by the reconciliation

position == <<shares, avg>>
memory   == <<peak, since>>
history  == <<top, age, clean, late>>
orderV   == <<order, why, seen>>
vars == <<session, day, clock, shares, avg, peak, since, order, why, seen, row,
          queue, crashes, top, age, clean, late>>

NoTime == LastTick + 1
Highest(a, b) == IF a < b THEN b ELSE a
NearClose == clock >= CloseTick
HeldFor(t) == IF t = NoTime THEN 0 ELSE clock - t

Init ==
    /\ session = "open" /\ day = 1 /\ clock = 0 /\ crashes = 0
    /\ shares = 0 /\ avg = 0
    /\ peak = 0 /\ since = NoTime
    /\ order = "none" /\ why = "none" /\ seen = 0
    /\ row = 0 /\ queue = {}
    /\ top = 0 /\ age = 0 /\ clean = TRUE /\ late = FALSE

-----------------------------------------------------------------------------
(* A cycle looks at the position *)

\* The peak is seeded with the entry or the price and raised by every quote.
SeedPeak(p) == Highest(IF peak = 0 THEN Highest(avg, p) ELSE peak, p)

\* A quote of 0 (halted, not traded yet) ends the evaluation before anything changes.
\* signal: the strategy says SELL with confidence; FALSE too when there are no
\* daily data.  A pending sale suppresses the new one.
Evaluate(p, signal) ==
    /\ session = "open" /\ shares > 0 /\ order # "confirming"
    /\ peak' = SeedPeak(p)
    /\ since' = IF since = NoTime THEN clock ELSE since
    /\ top' = Highest(top, p)
    /\ LET reason == ExitReason(p, avg, peak', NearClose, HeldFor(since'), signal)
       IN  IF reason = "none" \/ order = "pending"
           THEN seen' = (IF reason = "none" THEN p ELSE 0) /\ UNCHANGED <<order, why>>
           ELSE order' = "confirming" /\ why' = reason /\ seen' = 0
    /\ UNCHANGED <<session, day, clock, position, row, queue, crashes, age, clean, late>>

-----------------------------------------------------------------------------
(* The sale that was ordered *)

NoSale == order' = "none" /\ why' = "none" /\ seen' = 0

\* A faulty variant: the time of the first evaluation survives the sale.
SellKeepsTime(n) ==
    /\ session = "open" /\ order = "confirming"
    /\ n = shares \/ "partial" \in Faults
    /\ shares' = shares - n /\ avg' = (IF n = shares THEN 0 ELSE avg)
    /\ peak' = 0 /\ UNCHANGED since
    /\ clean' = (n = shares) /\ late' = FALSE
    /\ top' = (IF n = shares THEN 0 ELSE top) /\ age' = (IF n = shares THEN 0 ELSE age)
    /\ NoSale
    /\ UNCHANGED <<session, day, clock, row, queue, crashes>>

\* A recorded sale ends the tracking, also when only a part was sold.
SellBooked(n) ==
    /\ session = "open" /\ order = "confirming"
    /\ n = shares \/ "partial" \in Faults
    /\ shares' = shares - n /\ avg' = (IF n = shares THEN 0 ELSE avg)
    /\ peak' = 0 /\ since' = NoTime
    /\ clean' = (n = shares) /\ late' = FALSE
    /\ top' = (IF n = shares THEN 0 ELSE top) /\ age' = (IF n = shares THEN 0 ELSE age)
    /\ NoSale
    /\ UNCHANGED <<session, day, clock, row, queue, crashes>>

SellUnconfirmed ==
    /\ session = "open" /\ order = "confirming"
    /\ order' = "pending" /\ seen' = 0
    /\ UNCHANGED <<session, day, clock, position, memory, why, row, queue, crashes, history>>

SellRefused ==
    /\ session = "open" /\ order = "confirming"
    /\ NoSale
    /\ UNCHANGED <<session, day, clock, position, memory, row, queue, crashes, history>>

\* _reconcile_orphan_fill books the sale and forgets the peak, not the time.
LateSaleBooked ==
    /\ "lateSale" \in Faults
    /\ session = "open" /\ order = "pending"
    /\ shares' = 0 /\ avg' = 0 /\ peak' = 0
    /\ top' = 0 /\ age' = 0 /\ clean' = TRUE /\ late' = TRUE
    /\ NoSale
    /\ UNCHANGED <<session, day, clock, since, row, queue, crashes>>

PendingCancelled ==
    /\ session = "open" /\ order = "pending"
    /\ NoSale
    /\ UNCHANGED <<session, day, clock, position, memory, row, queue, crashes, history>>

\* A faulty variant: a new position keeps what is known of the last one.
BuyKeepsPeak(p) ==
    /\ session = "open" /\ shares = 0 /\ order = "none" /\ ~NearClose
    /\ shares' = Lot /\ avg' = p
    /\ top' = p /\ age' = 0 /\ clean' = TRUE
    /\ UNCHANGED <<session, day, clock, memory, orderV, row, queue, crashes, late>>

\* A recorded buy, by _execute_buy or the reconciliation.
BuyBooked(p) ==
    /\ session = "open" /\ shares = 0 /\ order = "none" /\ ~NearClose
    /\ shares' = Lot /\ avg' = p /\ peak' = 0
    /\ top' = p /\ age' = 0 /\ clean' = TRUE
    /\ UNCHANGED <<session, day, clock, since, orderV, row, queue, crashes, late>>

-----------------------------------------------------------------------------
(* Nights and restarts *)

Tick ==
    /\ session = "open" /\ clock < LastTick /\ order # "confirming"
    /\ clock' = clock + 1
    /\ age' = IF shares > 0 /\ age < StagnationTicks THEN age + 1 ELSE age
    /\ UNCHANGED <<session, day, position, memory, orderV, row, queue, crashes,
                   top, clean, late>>

\* post_market cancels what is pending and queues the portfolio, one task a day.
PostMarket ==
    /\ session = "open" /\ clock = LastTick /\ order # "confirming"
    /\ session' = "closed" /\ NoSale
    /\ queue' = IF shares > 0 THEN queue \cup {[day |-> day, peak |-> peak]} ELSE queue
    /\ UNCHANGED <<day, clock, position, memory, row, crashes, history>>

\* The worker's upsert keeps the old peak when the task carries none.
SyncSaved ==
    \E task \in queue :
        /\ queue' = queue \ {task}
        /\ row' = IF task.peak = 0 THEN row ELSE task.peak
        /\ UNCHANGED <<session, day, clock, position, memory, orderV, crashes, history>>

SyncLost ==
    /\ "lostSync" \in Faults
    /\ \E task \in queue : queue' = queue \ {task}
    /\ UNCHANGED <<session, day, clock, position, memory, orderV, row, crashes, history>>

\* What _load_peak_prices can return: the row, or nothing when the read fails.
LoadedPeaks == {row} \cup (IF "loadFail" \in Faults THEN {0} ELSE {})

PreMarket ==
    /\ session = "closed" /\ day < MaxDays
    /\ session' = "open" /\ day' = day + 1 /\ clock' = 0
    /\ \E loaded \in LoadedPeaks :
          /\ peak' = loaded
          /\ clean' = (clean /\ (shares > 0 => loaded = top))
    /\ since' = NoTime /\ NoSale /\ late' = FALSE
    /\ UNCHANGED <<position, row, queue, crashes, top, age>>

Crash ==
    /\ session = "open" /\ crashes < MaxCrashes
    /\ session' = "down" /\ crashes' = crashes + 1
    /\ peak' = 0 /\ since' = NoTime /\ NoSale /\ late' = FALSE
    /\ UNCHANGED <<day, clock, position, row, queue, top, age, clean>>

\* The restore loads the peaks only if the day has a saved sale of any stock.
Restart ==
    /\ session = "down" /\ session' = "open"
    /\ \E loaded \in LoadedPeaks \cup {0} :
          /\ peak' = loaded
          /\ clean' = (clean /\ (shares > 0 => loaded = top))
    /\ UNCHANGED <<day, clock, position, since, orderV, row, queue, crashes,
                   top, age, late>>

Next ==
    \/ \E p \in Prices, signal \in BOOLEAN : Evaluate(p, signal)
    \/ \E n \in 1..shares : SellBooked(n)
    \/ SellUnconfirmed \/ SellRefused \/ LateSaleBooked \/ PendingCancelled
    \/ \E p \in Prices : BuyBooked(p)
    \/ Tick \/ PostMarket \/ SyncSaved \/ SyncLost \/ PreMarket \/ Crash \/ Restart

Spec == Init /\ [][Next]_vars

-----------------------------------------------------------------------------
(* Properties *)

\* The types of the variables of the position, the memory and the portfolio row.
TypeOK ==
    /\ session \in {"open", "closed", "down"} /\ day \in 1..MaxDays /\ clock \in 0..LastTick
    /\ shares \in 0..Lot /\ {avg, peak, row, top, seen} \subseteq Prices \cup {0}
    /\ since \in 0..NoTime /\ crashes \in 0..MaxCrashes /\ age \in 0..StagnationTicks
    /\ order \in {"none", "confirming", "pending"}
    /\ {clean, late} \subseteq BOOLEAN

\* While the process, the table and the whole position have stayed together, the
\* peak of the rules is the highest price of this position: nothing of an earlier
\* position of the stock leaks into it, and a night loses nothing that was saved.
PeakRemembered ==
    clean /\ shares > 0 /\ session = "open" =>
        IF peak = 0 THEN top = avg ELSE peak = top

\* A position whose gain once armed the break-even stop is not kept by an
\* evaluation at or below its entry: some rule has ordered its sale.
GainIsProtected ==
    /\ Breakeven > 0 /\ clean /\ shares > 0 /\ order = "none" /\ seen > 0
    /\ GainAtLeast(top, avg, Breakeven)
    => seen > avg

\* Unless the last sale of the stock was booked by the reconciliation, which
\* keeps its _held_since, a stagnation exit sells only what was held that long.
StagnationHonest ==
    order # "none" /\ why = "stagnation" /\ ~late => age >= StagnationTicks

\* The docstring of PortfolioRepository.upsert: peak_price is the highest price
\* while the position is held.
PeakOfThisPosition ==
    shares > 0 /\ session = "open" => peak <= top
=============================================================================
