---------------------------- MODULE DecisionsProofs ----------------------------
(***************************************************************************)
(* Theorems about the decisions on a stock, for any prices, thresholds,    *)
(* numbers of stocks and days and under every fault: what becomes of a     *)
(* held position (HeldExit), the way from a buy signal to an order         *)
(* (BuyFunnel), the vote of the strategies (Strategies), and the report of *)
(* a backtest (Backtest).                                                  *)
(***************************************************************************)
EXTENDS Decisions, Recursion, FiniteSetTheorems, TLAPS

-----------------------------------------------------------------------------
(* Which rule sells *)

\* A nonempty set of places in the list of the rules has a first one.
LEMMA FirstRule ==
    ASSUME NEW hits, hits \subseteq 1..7, hits # {}
    PROVE  Min(hits) \in hits
<1>1. \E x \in hits : \A y \in hits : x <= y
  <2> SUFFICES ASSUME \A x \in hits : \E y \in hits : y < x PROVE FALSE
    OBVIOUS
  <2>1. 1 \notin hits
    OBVIOUS
  <2>2. 2 \notin hits
    BY <2>1
  <2>3. 3 \notin hits
    BY <2>1, <2>2
  <2>4. 4 \notin hits
    BY <2>1, <2>2, <2>3
  <2>5. 5 \notin hits
    BY <2>1, <2>2, <2>3, <2>4
  <2>6. 6 \notin hits
    BY <2>1, <2>2, <2>3, <2>4, <2>5
  <2>7. \A x \in 1..7 : x < 7 => x \in {1, 2, 3, 4, 5, 6}
    OBVIOUS
  <2>8. hits \subseteq {7}
    BY <2>1, <2>2, <2>3, <2>4, <2>5, <2>6, <2>7
  <2>9. PICK x : x \in hits
    OBVIOUS
  <2>10. PICK y : y \in hits /\ y < x
    BY <2>9
  <2> QED BY <2>8, <2>9, <2>10
<1> QED BY <1>1 DEF Min

\* A sale is ordered for a rule that applies, and no sale is ordered only if none does.
LEMMA ReasonApplies ==
    ASSUME NEW p, NEW a, NEW highest, NEW near, NEW ticks, NEW signal \in BOOLEAN
    PROVE  LET reason == Exit!ExitReason(p, a, highest, near, ticks, signal)
           IN  /\ reason = "stagnation" => Exit!ShouldStagnationExit(a, highest, ticks)
               /\ reason = "none" => ~Exit!ShouldBreakevenStop(p, a, highest)
<1> DEFINE rules == Exit!Applies(p, a, highest, near, ticks, signal)
           hits  == {i \in DOMAIN Exit!Reasons : rules[Exit!Reasons[i]]}
           reason == Exit!ExitReason(p, a, highest, near, ticks, signal)
<1>1. DOMAIN Exit!Reasons = 1..7
  BY DEF Exit!Reasons
<1>2. reason = IF hits = {} THEN "none" ELSE Exit!Reasons[Exit!Min(hits)]
  BY DEF Exit!ExitReason
<1>3. \A S : Exit!Min(S) = Min(S)
  BY DEF Exit!Min, Min
<1>4. rules["stagnation"] = Exit!ShouldStagnationExit(a, highest, ticks)
  BY DEF Exit!Applies
<1>5. rules["breakeven"] = Exit!ShouldBreakevenStop(p, a, highest)
  BY DEF Exit!Applies
<1>6. hits # {} => Min(hits) \in hits
  BY <1>1, FirstRule
<1>7. hits # {} => reason # "none" /\ rules[reason]
  <2> SUFFICES ASSUME hits # {} PROVE reason # "none" /\ rules[reason]
    OBVIOUS
  <2>1. PICK i : i \in hits /\ reason = Exit!Reasons[i]
    BY <1>2, <1>3, <1>6
  <2>2. i \in 1..7 /\ rules[Exit!Reasons[i]]
    BY <1>1, <2>1
  <2>3. Exit!Reasons[i] # "none"
    BY <2>2 DEF Exit!Reasons
  <2> QED BY <2>1, <2>2, <2>3
<1>8. hits = {} => reason = "none" /\ ~rules["breakeven"]
  <2> SUFFICES ASSUME hits = {} PROVE reason = "none" /\ ~rules["breakeven"]
    OBVIOUS
  <2>1. 5 \in DOMAIN Exit!Reasons /\ Exit!Reasons[5] = "breakeven"
    BY DEF Exit!Reasons
  <2>2. 5 \notin hits
    OBVIOUS
  <2>3. ~rules["breakeven"]
    BY <2>1, <2>2
  <2> HIDE DEF hits, rules, reason
  <2> QED BY <1>2, <2>3
<1> HIDE DEF hits, rules
<1>9. reason = "stagnation" => hits # {}
  BY <1>2
<1> QED BY <1>4, <1>5, <1>7, <1>8, <1>9

-----------------------------------------------------------------------------
(* A held position *)

NoTime == LastTick + 1

\* What the argument needs of the types; a position has an entry price and a highest price
\* not below it, and without a position nothing is remembered as seen.
HoldTypes ==
    /\ clock \in 0..LastTick /\ since \in 0..NoTime
    /\ shares \in Nat /\ avg \in Nat /\ top \in Nat /\ age \in Nat /\ seen \in Nat
    /\ shares > 0 => avg > 0 /\ avg <= top
    /\ shares = 0 => seen = 0

\* The time of the first evaluation is that of this position, unless the reconciliation
\* booked the last sale: it says no more than the position has been held.
SinceHonest ==
    /\ ~late /\ shares = 0 => since = NoTime
    /\ ~late /\ since # NoTime => (clock - since <= age \/ age >= StagnationTicks)

HoldInv ==
    /\ HoldTypes /\ SinceHonest
    /\ Exit!PeakRemembered /\ Exit!GainIsProtected /\ Exit!StagnationHonest

\* A sale that takes everything leaves nothing to state but the types and the time.
LEMMA SoldOut ==
    ASSUME HoldInv, HoldTypes', SinceHonest', shares' = 0, order' = "none"
    PROVE  HoldInv'
<1>1. ~(shares' > 0)
  OBVIOUS
<1> QED
  BY <1>1 DEF HoldInv, Exit!PeakRemembered, Exit!GainIsProtected, Exit!StagnationHonest

\* A step that keeps the position and ends or ended the order.
LEMMA OrderEnds ==
    ASSUME HoldInv, order' = "none", seen' = 0, UNCHANGED <<shares, avg, peak, since, clock>>,
           UNCHANGED <<top, age, clean, late>>, session' = session \/ session' # "open"
    PROVE  HoldInv'
<1>1. HoldTypes' /\ SinceHonest'
  BY DEF HoldInv, HoldTypes, SinceHonest, NoTime
<1>2. Exit!PeakRemembered'
  BY DEF HoldInv, Exit!PeakRemembered
<1>3. Exit!GainIsProtected' /\ Exit!StagnationHonest'
  BY DEF Exit!GainIsProtected, Exit!StagnationHonest
<1> QED BY <1>1, <1>2, <1>3 DEF HoldInv

\* A step of the worker, of the table or of nobody.
LEMMA HoldUnmoved ==
    ASSUME HoldInv, UNCHANGED <<session, clock, shares, avg, peak, since, order, why, seen>>,
           UNCHANGED <<top, age, clean, late>>
    PROVE  HoldInv'
BY DEF HoldInv, HoldTypes, SinceHonest, NoTime, Exit!PeakRemembered, Exit!GainIsProtected,
   Exit!StagnationHonest

\* An evaluation raises the peak with the quote; a sale for stagnation is ordered only when
\* the time is up, and a quote at the entry of a position that has gained orders one.
LEMMA EvaluateKeeps ==
    ASSUME HoldInv, NEW p \in Quotes, NEW signal \in BOOLEAN, Exit!Evaluate(p, signal)
    PROVE  HoldInv'
<1> DEFINE reason == Exit!ExitReason(p, avg, peak', Exit!NearClose, Exit!HeldFor(since'), signal)
<1>1. /\ session = "open" /\ shares > 0 /\ session' = session
      /\ clock' = clock /\ shares' = shares /\ avg' = avg /\ age' = age
      /\ clean' = clean /\ late' = late
  BY DEF Exit!Evaluate, Exit!position
<1>2. /\ peak' = Exit!SeedPeak(p) /\ top' = Exit!Highest(top, p)
      /\ since' = IF since = NoTime THEN clock ELSE since
  BY DEF Exit!Evaluate, Exit!NoTime, NoTime
<1>3. IF reason = "none" \/ order = "pending"
      THEN seen' = (IF reason = "none" THEN p ELSE 0) /\ UNCHANGED <<order, why>>
      ELSE order' = "confirming" /\ why' = reason /\ seen' = 0
  BY DEF Exit!Evaluate
<1>4. p \in Nat /\ p > 0
  BY PositionAssumption
<1>5. /\ reason = "stagnation" => Exit!ShouldStagnationExit(avg, peak', Exit!HeldFor(since'))
      /\ reason = "none" => ~Exit!ShouldBreakevenStop(p, avg, peak')
  BY ReasonApplies
<1> HIDE DEF reason
<1>6. HoldTypes'
  BY <1>1, <1>2, <1>3, <1>4, PositionAssumption DEF HoldInv, HoldTypes, NoTime, Exit!Highest
<1>7. SinceHonest'
  <2>1. since' # NoTime /\ (since' # since => since' = clock)
    BY <1>2, PositionAssumption DEF HoldInv, HoldTypes, NoTime
  <2> QED BY <1>1, <2>1, PositionAssumption DEF HoldInv, HoldTypes, SinceHonest, NoTime
<1>8. clean => peak' = top' /\ peak' # 0
  <2>1. clean => IF peak = 0 THEN top = avg ELSE peak = top
    BY <1>1 DEF HoldInv, Exit!PeakRemembered
  <2>2. avg \in Nat /\ top \in Nat /\ p \in Nat /\ p > 0 /\ avg > 0
    BY <1>1, <1>4 DEF HoldInv, HoldTypes
  <2>3. CASE peak = 0 /\ top = avg
    BY <1>2, <2>2, <2>3 DEF Exit!SeedPeak, Exit!Highest
  <2>4. CASE peak # 0 /\ peak = top
    BY <1>2, <2>2, <2>4 DEF Exit!SeedPeak, Exit!Highest
  <2> QED BY <2>1, <2>3, <2>4
<1>9. Exit!PeakRemembered'
  BY <1>1, <1>8 DEF Exit!PeakRemembered
<1>10. Exit!GainIsProtected'
  <2> SUFFICES ASSUME Breakeven > 0, clean', shares' > 0, order' = "none", seen' > 0,
                      Exit!GainAtLeast(top', avg', Breakeven)
               PROVE  seen' > avg'
    BY DEF Exit!GainIsProtected
  <2>1. reason = "none" /\ seen' = p
    BY <1>3
  <2>2. peak' = top'
    BY <1>1, <1>8
  <2>3. avg \in Nat /\ avg > 0
    BY <1>1 DEF HoldInv, HoldTypes
  <2>4. ~(p <= avg)
    BY <1>1, <1>5, <2>1, <2>2, <2>3 DEF Exit!ShouldBreakevenStop
  <2> QED BY <1>1, <1>4, <2>1, <2>3, <2>4
<1>11. Exit!StagnationHonest'
  <2> SUFFICES ASSUME order' # "none", why' = "stagnation", ~late' PROVE age' >= StagnationTicks
    BY DEF Exit!StagnationHonest
  <2>1. CASE UNCHANGED <<order, why>>
    BY <1>1, <2>1 DEF HoldInv, Exit!StagnationHonest
  <2>2. CASE reason = "stagnation"
    <3>1. Exit!HeldFor(since') >= StagnationTicks /\ StagnationTicks > 0
      BY <1>5, <2>2 DEF Exit!ShouldStagnationExit
    <3>2. since' # NoTime /\ since' \in 0..NoTime
      BY <1>2, PositionAssumption DEF HoldInv, HoldTypes, NoTime
    <3>3. clock - since' >= StagnationTicks
      BY <1>1, <3>1, <3>2 DEF Exit!HeldFor, Exit!NoTime, NoTime
    <3>4. clock - since' <= age \/ age >= StagnationTicks
      BY <1>1, <1>7, <3>2 DEF SinceHonest, NoTime
    <3>5. /\ clock \in Int /\ since' \in Int /\ age \in Int /\ StagnationTicks \in Int
          /\ age' = age
      BY <1>1, <3>2, PositionAssumption DEF HoldInv, HoldTypes, NoTime
    <3>6. \A c, s, a, n \in Int : c - s >= n /\ (c - s <= a \/ a >= n) => a >= n
      OBVIOUS
    <3> QED BY <3>3, <3>4, <3>5, <3>6
  <2> QED BY <1>3, <2>1, <2>2
<1> QED BY <1>6, <1>7, <1>9, <1>10, <1>11 DEF HoldInv

\* A recorded sale ends the tracking: of the whole, or of a part, whose peak is lost.
LEMMA SaleKeeps ==
    ASSUME HoldInv, NEW n \in 1..shares, Exit!SellBooked(n)
    PROVE  HoldInv'
<1>1. /\ shares' = shares - n /\ since' = NoTime /\ clock' = clock
      /\ avg' = (IF n = shares THEN 0 ELSE avg) /\ top' = (IF n = shares THEN 0 ELSE top)
      /\ age' = (IF n = shares THEN 0 ELSE age)
      /\ order' = "none" /\ seen' = 0
  BY DEF Exit!SellBooked, Exit!NoSale, Exit!NoTime, NoTime
<1>2. n \in Nat /\ n > 0 /\ n <= shares /\ shares \in Nat
  BY DEF HoldInv, HoldTypes
<1>3. HoldTypes'
  BY <1>1, <1>2, PositionAssumption DEF HoldInv, HoldTypes, NoTime
<1>4. SinceHonest'
  BY <1>1 DEF SinceHonest, NoTime
<1>5. CASE n = shares
  BY <1>1, <1>2, <1>3, <1>4, <1>5, SoldOut
<1>6. CASE n # shares
  <2>1. ~clean'
    BY <1>6 DEF Exit!SellBooked
  <2> QED
    BY <1>1, <1>3, <1>4, <2>1
    DEF HoldInv, Exit!PeakRemembered, Exit!GainIsProtected, Exit!StagnationHonest
<1> QED BY <1>5, <1>6

\* A new position starts with its own price, and nothing seen.
LEMMA BuyKeeps ==
    ASSUME HoldInv, NEW p \in Quotes, Exit!BuyBooked(p)
    PROVE  HoldInv'
<1>1. /\ shares = 0 /\ shares' = Lot /\ avg' = p /\ peak' = 0 /\ top' = p /\ age' = 0
      /\ order' = "none" /\ seen' = seen /\ clock' = clock /\ since' = since /\ late' = late
  BY DEF Exit!BuyBooked, Exit!orderV
<1>2. p \in Nat /\ p > 0 /\ seen = 0
  BY <1>1, PositionAssumption DEF HoldInv, HoldTypes
<1>3. HoldTypes'
  BY <1>1, <1>2, PositionAssumption DEF HoldInv, HoldTypes, NoTime
<1>4. SinceHonest'
  BY <1>1, <1>2 DEF HoldInv, SinceHonest, NoTime
<1>5. Exit!PeakRemembered'
  BY <1>1 DEF Exit!PeakRemembered
<1>6. Exit!GainIsProtected' /\ Exit!StagnationHonest'
  BY <1>1, <1>2 DEF Exit!GainIsProtected, Exit!StagnationHonest
<1> QED BY <1>3, <1>4, <1>5, <1>6 DEF HoldInv

\* A tick of the clock is one of the holding time, until that says enough.
LEMMA TickKeeps ==
    ASSUME HoldInv, Exit!Tick
    PROVE  HoldInv'
<1>1. /\ clock' = clock + 1 /\ clock < LastTick
      /\ age' = IF shares > 0 /\ age < StagnationTicks THEN age + 1 ELSE age
      /\ session' = session /\ shares' = shares /\ avg' = avg /\ peak' = peak /\ since' = since
      /\ order' = order /\ why' = why /\ seen' = seen /\ top' = top
      /\ clean' = clean /\ late' = late
  BY DEF Exit!Tick, Exit!position, Exit!memory, Exit!orderV
<1>2. HoldTypes'
  BY <1>1, PositionAssumption DEF HoldInv, HoldTypes, NoTime
<1>3. SinceHonest'
  <2>1. CASE shares = 0
    BY <1>1, <2>1 DEF HoldInv, SinceHonest, NoTime
  <2>2. CASE shares > 0
    BY <1>1, <2>2, PositionAssumption DEF HoldInv, HoldTypes, SinceHonest, NoTime
  <2> QED BY <2>1, <2>2 DEF HoldInv, HoldTypes
<1>4. Exit!PeakRemembered' /\ Exit!GainIsProtected'
  BY <1>1 DEF HoldInv, Exit!PeakRemembered, Exit!GainIsProtected
<1>5. Exit!StagnationHonest'
  BY <1>1, PositionAssumption DEF HoldInv, HoldTypes, Exit!StagnationHonest
<1> QED BY <1>2, <1>3, <1>4, <1>5 DEF HoldInv

\* A morning or a restart takes the peak from the table: the position stays `clean` only if
\* that is its highest price.
LEMMA LoadKeeps ==
    ASSUME HoldInv, UNCHANGED <<shares, avg, top, age>>,
           \/ order' = "none" /\ seen' = 0
           \/ UNCHANGED <<order, why, seen, late>>,
           clock' = clock \/ clock' = 0, clean' => clean /\ (shares > 0 => peak' = top),
           \/ since' = NoTime
           \/ since' = since /\ clock' = clock /\ late' = late
    PROVE  HoldInv'
<1>1. HoldTypes'
  BY PositionAssumption DEF HoldInv, HoldTypes, NoTime
<1>2. SinceHonest'
  BY DEF HoldInv, SinceHonest, NoTime
<1>3. Exit!PeakRemembered'
  <2>1. shares > 0 => top # 0
    BY DEF HoldInv, HoldTypes
  <2> QED BY <2>1 DEF Exit!PeakRemembered
<1>4. Exit!GainIsProtected' /\ Exit!StagnationHonest'
  BY DEF HoldInv, Exit!GainIsProtected, Exit!StagnationHonest
<1> QED BY <1>1, <1>2, <1>3, <1>4 DEF HoldInv

LEMMA HoldInitial == Exit!Init => HoldInv
<1> SUFFICES ASSUME Exit!Init PROVE HoldInv
  OBVIOUS
<1>1. clock = 0 /\ since = NoTime /\ shares = 0 /\ avg = 0 /\ top = 0 /\ age = 0 /\ seen = 0
      /\ order = "none"
  BY DEF Exit!Init, Exit!NoTime, NoTime
<1> QED
  BY <1>1, PositionAssumption DEF HoldInv, HoldTypes, SinceHonest, NoTime, Exit!PeakRemembered,
     Exit!GainIsProtected, Exit!StagnationHonest

LEMMA HoldStep == HoldInv /\ [Exit!Next]_(Exit!vars) => HoldInv'
<1> SUFFICES ASSUME HoldInv, [Exit!Next]_(Exit!vars) PROVE HoldInv'
  OBVIOUS
<1>1. ASSUME NEW p \in Quotes, NEW signal \in BOOLEAN, Exit!Evaluate(p, signal) PROVE HoldInv'
  BY <1>1, EvaluateKeeps
<1>2. ASSUME NEW n \in 1..shares, Exit!SellBooked(n) PROVE HoldInv'
  BY <1>2, SaleKeeps
<1>3. CASE Exit!SellUnconfirmed
  <2>1. /\ order = "confirming" /\ order' = "pending" /\ seen' = 0
        /\ UNCHANGED <<session, clock, shares, avg, peak, since, why, top, age, clean, late>>
    BY <1>3 DEF Exit!SellUnconfirmed, Exit!position, Exit!memory, Exit!history
  <2>2. HoldTypes' /\ SinceHonest' /\ Exit!PeakRemembered'
    BY <2>1 DEF HoldInv, HoldTypes, SinceHonest, NoTime, Exit!PeakRemembered
  <2>3. Exit!GainIsProtected' /\ Exit!StagnationHonest'
    BY <2>1 DEF HoldInv, Exit!GainIsProtected, Exit!StagnationHonest
  <2> QED BY <2>2, <2>3 DEF HoldInv
<1>4. CASE Exit!SellRefused \/ Exit!PendingCancelled
  BY <1>4, OrderEnds DEF Exit!SellRefused, Exit!PendingCancelled, Exit!NoSale, Exit!position,
     Exit!memory, Exit!history
<1>5. CASE Exit!LateSaleBooked
  <2>1. /\ shares' = 0 /\ avg' = 0 /\ top' = 0 /\ age' = 0 /\ seen' = 0 /\ order' = "none"
        /\ clock' = clock /\ since' = since /\ late' = TRUE
    BY <1>5 DEF Exit!LateSaleBooked, Exit!NoSale
  <2>2. HoldTypes' /\ SinceHonest'
    BY <2>1 DEF HoldInv, HoldTypes, SinceHonest, NoTime
  <2> QED BY <2>1, <2>2, SoldOut
<1>6. ASSUME NEW p \in Quotes, Exit!BuyBooked(p) PROVE HoldInv'
  BY <1>6, BuyKeeps
<1>7. CASE Exit!Tick
  BY <1>7, TickKeeps
<1>8. CASE Exit!PostMarket
  BY <1>8, OrderEnds DEF Exit!PostMarket, Exit!NoSale, Exit!position, Exit!memory, Exit!history
<1>9. CASE Exit!SyncSaved \/ Exit!SyncLost \/ UNCHANGED Exit!vars
  BY <1>9, HoldUnmoved DEF Exit!SyncSaved, Exit!SyncLost, Exit!position, Exit!memory,
     Exit!orderV, Exit!history, Exit!vars
<1>10. CASE Exit!PreMarket
  <2>1. clean' => clean /\ (shares > 0 => peak' = top)
    BY <1>10 DEF Exit!PreMarket
  <2>2. /\ order' = "none" /\ seen' = 0 /\ clock' = 0 /\ since' = NoTime
        /\ UNCHANGED <<shares, avg, top, age>>
    BY <1>10 DEF Exit!PreMarket, Exit!NoSale, Exit!NoTime, NoTime, Exit!position
  <2> QED BY <2>1, <2>2, LoadKeeps
<1>11. CASE Exit!Crash
  <2>1. /\ session' = "down" /\ order' = "none" /\ seen' = 0 /\ clock' = clock
        /\ since' = NoTime /\ UNCHANGED <<shares, avg, top, age>>
    BY <1>11 DEF Exit!Crash, Exit!NoSale, Exit!NoTime, NoTime, Exit!position
  <2>2. HoldTypes' /\ SinceHonest'
    BY <2>1, PositionAssumption DEF HoldInv, HoldTypes, SinceHonest, NoTime
  <2>3. Exit!PeakRemembered' /\ Exit!GainIsProtected' /\ Exit!StagnationHonest'
    BY <2>1 DEF Exit!PeakRemembered, Exit!GainIsProtected, Exit!StagnationHonest
  <2> QED BY <2>2, <2>3 DEF HoldInv
<1>12. CASE Exit!Restart
  <2>1. clean' => clean /\ (shares > 0 => peak' = top)
    BY <1>12 DEF Exit!Restart
  <2>2. UNCHANGED <<order, why, seen, late, clock, since, shares, avg, top, age>>
    BY <1>12 DEF Exit!Restart, Exit!position, Exit!orderV
  <2> QED BY <2>1, <2>2, LoadKeeps
<1> QED
  BY <1>1, <1>2, <1>3, <1>4, <1>5, <1>6, <1>7, <1>8, <1>9, <1>10, <1>11, <1>12 DEF Exit!Next

LEMMA HoldInvariance == Exit!Spec => []HoldInv
BY HoldInitial, HoldStep, PTL DEF Exit!Spec

\* The peak of the rules is the highest price of this position: nothing of an earlier one
\* leaks into it (_peak_prices, dropped with every recorded sale and purchase).
THEOREM PeaksAreRemembered == Exit!Spec => []PeakRemembered
<1>1. HoldInv => PeakRemembered
  BY DEF HoldInv, PeakRemembered
<1> QED BY HoldInvariance, <1>1, PTL

\* A gain that armed the break-even stop is not given back to the entry
\* (_process_held_stock and should_breakeven_stop).
THEOREM GainsAreProtected == Exit!Spec => []GainIsProtected
<1>1. HoldInv => GainIsProtected
  BY DEF HoldInv, GainIsProtected
<1> QED BY HoldInvariance, <1>1, PTL

\* A stagnation exit sells what has been held that long (_held_since).
THEOREM StagnationIsHonest == Exit!Spec => []StagnationHonest
<1>1. HoldInv => StagnationHonest
  BY DEF HoldInv, StagnationHonest
<1> QED BY HoldInvariance, <1>1, PTL

-----------------------------------------------------------------------------
(* The money of a purchase *)

Stages == {"sized", "execute", "clear", "place"}

Purchases ==
    [stock : Stocks, stage : Stages, price : Nat \ {0}, quantity : Nat, raced : BOOLEAN]

\* What the argument needs of the types.
MoneyTypes ==
    /\ cash \in Nat
    /\ pending \in [Stocks -> Nat]
    /\ cur = Buys!Nobody \/ cur \in Purchases

\* From the answer about the orderable cash on, what is to be bought can be paid for, unless
\* somebody else has spent some since.
Payable ==
    cur.stage \in {"execute", "clear", "place"} /\ ~cur.raced => cur.quantity * cur.price <= cash

MoneyInv == MoneyTypes /\ Payable /\ ~refusedUnraced

LEMMA NobodyIsIdle ==
    /\ Buys!Nobody.stage = "none" /\ Buys!Nobody.stock = "nobody"
    /\ Buys!Nobody.raced = FALSE
    /\ Buys!Nobody \notin Purchases
<1>1. Buys!Nobody.stage = "none" /\ Buys!Nobody.stock = "nobody" /\ Buys!Nobody.raced = FALSE
  BY DEF Buys!Nobody
<1>2. ASSUME Buys!Nobody \in Purchases PROVE FALSE
  BY <1>1, <1>2 DEF Purchases, Stages
<1> QED BY <1>1, <1>2

\* No more shares than the cash pays for cost no more than it.
LEMMA Affordable ==
    ASSUME NEW c \in Nat, NEW p \in Nat \ {0}, NEW n \in Nat, n <= c \div p
    PROVE  n * p <= c
<1>1. PICK q : q = c \div p
  OBVIOUS
<1>2. q \in Nat /\ q * p <= c
  BY <1>1
<1>3. \A x, y, z \in Nat : x <= y => x * z <= y * z
  OBVIOUS
<1>4. n * p <= q * p
  BY <1>1, <1>2, <1>3
<1>5. n * p \in Nat /\ q * p \in Nat
  BY <1>2
<1> QED BY <1>2, <1>4, <1>5

\* The lesser and the greater of two numbers.
LEMMA OfTwo ==
    ASSUME NEW a \in Nat, NEW b \in Nat
    PROVE  /\ Min({a, b}) \in Nat /\ Min({a, b}) <= a /\ Min({a, b}) <= b
           /\ Max({a, b}) \in Nat
<1>1. Min({a, b}) \in {a, b} /\ \A x \in {a, b} : Min({a, b}) <= x
  <2>1. \E x \in {a, b} : \A y \in {a, b} : x <= y
    OBVIOUS
  <2> QED BY <2>1 DEF Min
<1>2. Max({a, b}) \in {a, b}
  <2>1. \E x \in {a, b} : \A y \in {a, b} : x >= y
    OBVIOUS
  <2> QED BY <2>1 DEF Max
<1> QED BY <1>1, <1>2

\* A size is a number of shares.
LEMMA SizeType ==
    ASSUME NEW p \in Nat \ {0}
    PROVE  Buys!PositionSize(p) \in Nat
<1>1. RatioDen * p \in Nat \ {0}
  BY PurchaseAssumption
<1>2. Deposit \div (RatioDen * p) \in Nat
  BY <1>1, PurchaseAssumption
<1>3. \A S : Buys!Max(S) = Max(S)
  BY DEF Buys!Max, Max
<1> QED BY <1>2, <1>3, OfTwo DEF Buys!PositionSize

\* A step that leaves the purchase in work and its money alone, or ends it.
LEMMA MoneyKept ==
    ASSUME MoneyInv, cash' \in Nat, pending' \in [Stocks -> Nat], ~refusedUnraced',
           \/ cur' = Buys!Nobody
           \/ cur' = cur /\ cash <= cash'
    PROVE  MoneyInv'
<1>1. CASE cur' = Buys!Nobody
  BY <1>1, NobodyIsIdle DEF MoneyInv, MoneyTypes, Payable
<1>2. CASE cur' = cur /\ cash <= cash'
  <2>1. MoneyTypes'
    BY <1>2 DEF MoneyInv, MoneyTypes
  <2>2. ASSUME cur.stage \in {"execute", "clear", "place"}, ~cur.raced
        PROVE  cur.quantity * cur.price <= cash'
    <3>1. cur.quantity \in Nat /\ cur.price \in Nat
      BY <2>2, NobodyIsIdle DEF MoneyInv, MoneyTypes, Purchases
    <3>2. cur.quantity * cur.price \in Nat /\ cur.quantity * cur.price <= cash
      BY <2>2, <3>1 DEF MoneyInv, Payable
    <3> QED BY <1>2, <3>2 DEF MoneyInv, MoneyTypes
  <2> QED BY <1>2, <2>1, <2>2 DEF MoneyInv, Payable
<1> QED BY <1>1, <1>2

\* A purchase that is sized costs nothing yet; the answer about the cash bounds it.
LEMMA AskKeepsMoney == MoneyInv /\ Buys!AskBuyable => MoneyInv'
<1> SUFFICES ASSUME MoneyInv, Buys!AskBuyable PROVE MoneyInv'
  OBVIOUS
<1>1. cur \in Purchases /\ cur.stage = "sized"
  BY NobodyIsIdle DEF Buys!AskBuyable, MoneyInv, MoneyTypes
<1>2. cash \in Nat /\ cur.price \in Nat \ {0} /\ cur.quantity \in Nat
  BY <1>1 DEF MoneyInv, MoneyTypes, Purchases
<1>3. PICK buyable \in {cash \div cur.price} \cup (IF "queryFail" \in BuyFaults THEN {0} ELSE {}) :
        IF buyable = 0
        THEN cur' = Buys!Nobody
        ELSE cur' = [cur EXCEPT !.stage = "execute",
                                !.quantity = Buys!Min({cur.quantity, buyable}), !.raced = FALSE]
  BY DEF Buys!AskBuyable
<1>4. cash \div cur.price \in Nat
  BY <1>2
<1>5. buyable \in Nat /\ (buyable # 0 => buyable = cash \div cur.price)
  BY <1>4
<1>6. cash' = cash /\ pending' = pending /\ refusedUnraced' = refusedUnraced
  BY DEF Buys!AskBuyable
<1>7. CASE buyable = 0
  BY <1>3, <1>6, <1>7, MoneyKept DEF MoneyInv, MoneyTypes
<1>8. CASE buyable # 0
  <2>1. PICK n : n = Min({cur.quantity, buyable})
    OBVIOUS
  <2>2. n \in Nat /\ n <= cash \div cur.price
    BY <1>2, <1>5, <1>8, <2>1, OfTwo
  <2>3. \A S : Buys!Min(S) = Min(S)
    BY DEF Buys!Min, Min
  <2>4. cur' = [cur EXCEPT !.stage = "execute", !.quantity = n, !.raced = FALSE]
    BY <1>3, <1>8, <2>1, <2>3
  <2>5. cur' \in Purchases /\ cur'.quantity = n /\ cur'.price = cur.price
    BY <1>1, <2>2, <2>4 DEF Purchases, Stages
  <2>6. n * cur.price <= cash
    BY <1>2, <2>2, Affordable
  <2> QED BY <1>6, <2>5, <2>6 DEF MoneyInv, MoneyTypes, Payable
<1> QED BY <1>7, <1>8

LEMMA MoneyStep == MoneyInv /\ [Buys!Next]_(Buys!funnelVars) => MoneyInv'
<1> SUFFICES ASSUME MoneyInv, [Buys!Next]_(Buys!funnelVars) PROVE MoneyInv'
  OBVIOUS
<1>1. cash \in Nat /\ pending \in [Stocks -> Nat] /\ ~refusedUnraced
  BY DEF MoneyInv, MoneyTypes
<1>2. ASSUME NEW outcome, Buys!DoneWithoutOrder(outcome) PROVE MoneyInv'
  BY <1>1, <1>2, MoneyKept DEF Buys!DoneWithoutOrder, Buys!Done
<1>3. CASE Buys!NewCycle \/ Buys!Sync \/ Buys!DisclosureStored \/ UNCHANGED Buys!funnelVars
  <2>1. cash' = cash /\ pending' = pending /\ cur' = cur /\ refusedUnraced' = refusedUnraced
    BY <1>3 DEF Buys!NewCycle, Buys!Sync, Buys!DisclosureStored, Buys!funnelVars
  <2> QED BY <1>1, <2>1, MoneyKept
<1>4. ASSUME NEW s \in Stocks, Buys!NotABuy(s) \/ Buys!GateClosed(s) PROVE MoneyInv'
  <2>1. cash' = cash /\ pending' = pending /\ cur' = cur /\ refusedUnraced' = refusedUnraced
    BY <1>4 DEF Buys!NotABuy, Buys!GateClosed
  <2> QED BY <1>1, <2>1, MoneyKept
<1>5. ASSUME NEW s \in Stocks, Buys!Sized(s) PROVE MoneyInv'
  <2>1. cash' = cash /\ pending' = pending /\ refusedUnraced' = refusedUnraced
    BY <1>5 DEF Buys!Sized
  <2>2. PICK price \in Prices \cup {0} :
          \/ cur' = cur
          \/ price > 0 /\ cur' = [stock |-> s, stage |-> "sized", price |-> price,
                                  quantity |-> Buys!PositionSize(price), raced |-> FALSE]
    <3>1. PICK price \in Prices \cup {0} :
            CASE price = 0 -> cur' = cur
              [] price > 0 /\ Buys!PositionSize(price) = 0 -> cur' = cur
              [] OTHER -> cur' = [stock |-> s, stage |-> "sized", price |-> price,
                                  quantity |-> Buys!PositionSize(price), raced |-> FALSE]
      BY <1>5 DEF Buys!Sized
    <3>2. price = 0 \/ price > 0
      BY PurchaseAssumption
    <3> QED BY <3>1, <3>2
  <2>3. CASE cur' = cur
    BY <1>1, <2>1, <2>3, MoneyKept
  <2>4. CASE price > 0 /\ cur' = [stock |-> s, stage |-> "sized", price |-> price,
                                  quantity |-> Buys!PositionSize(price), raced |-> FALSE]
    <3>1. price \in Nat \ {0}
      BY <2>4, PurchaseAssumption
    <3>2. Buys!PositionSize(price) \in Nat
      BY <3>1, SizeType
    <3>3. cur' \in Purchases /\ cur'.stage = "sized"
      BY <2>4, <3>1, <3>2 DEF Purchases, Stages
    <3> QED BY <1>1, <2>1, <3>3 DEF MoneyInv, MoneyTypes, Payable
  <2> QED BY <2>2, <2>3, <2>4
<1>6. CASE Buys!Lookups
  <2>1. \/ \E outcome : Buys!DoneWithoutOrder(outcome)
        \/ /\ cur.stage = "execute" /\ cur' = [cur EXCEPT !.stage = "clear"]
           /\ cash' = cash /\ pending' = pending /\ refusedUnraced' = refusedUnraced
    BY <1>6 DEF Buys!Lookups
  <2>2. CASE /\ cur.stage = "execute" /\ cur' = [cur EXCEPT !.stage = "clear"]
             /\ cash' = cash /\ pending' = pending /\ refusedUnraced' = refusedUnraced
    <3>1. cur \in Purchases
      BY <2>2, NobodyIsIdle DEF MoneyInv, MoneyTypes
    <3>2. /\ cur' \in Purchases /\ cur'.quantity = cur.quantity /\ cur'.price = cur.price
          /\ cur'.raced = cur.raced
      BY <2>2, <3>1 DEF Purchases, Stages
    <3> QED BY <2>2, <3>2 DEF MoneyInv, MoneyTypes, Payable
  <2> QED BY <1>2, <2>1, <2>2
<1>7. CASE Buys!Suppressed
  BY <1>2, <1>7 DEF Buys!Suppressed
<1>8. CASE Buys!Replaced
  <2>1. cur \in Purchases /\ cur.stage = "clear"
    BY <1>8, NobodyIsIdle DEF Buys!Replaced, MoneyInv, MoneyTypes
  <2>2. pending[cur.stock] \in Nat
    BY <1>1, <2>1 DEF Purchases
  <2>3. cash' \in Nat /\ cash <= cash'
    BY <1>1, <1>8, <2>2 DEF Buys!Replaced
  <2>4. pending' \in [Stocks -> Nat] /\ refusedUnraced' = refusedUnraced
    BY <1>1, <1>8 DEF Buys!Replaced
  <2>5. cur' = [cur EXCEPT !.stage = "place"]
    BY <1>8 DEF Buys!Replaced
  <2>6. /\ cur' \in Purchases /\ cur'.quantity = cur.quantity /\ cur'.price = cur.price
        /\ cur'.raced = cur.raced
    BY <2>1, <2>5 DEF Purchases, Stages
  <2>7. ASSUME ~cur.raced PROVE cur.quantity * cur.price <= cash'
    <3>1. cur.quantity * cur.price <= cash /\ cur.quantity \in Nat /\ cur.price \in Nat
      BY <2>1, <2>7 DEF MoneyInv, Payable, Purchases
    <3>2. cur.quantity * cur.price \in Nat
      BY <3>1
    <3> QED BY <1>1, <2>3, <3>1, <3>2
  <2> QED BY <2>3, <2>4, <2>6, <2>7, <1>1 DEF MoneyInv, MoneyTypes, Payable
<1>9. CASE Buys!DatabaseDown
  BY <1>2, <1>9 DEF Buys!DatabaseDown
<1>10. CASE Buys!Accepted
  <2>1. cur \in Purchases
    BY <1>10, NobodyIsIdle DEF Buys!Accepted, MoneyInv, MoneyTypes
  <2>2. Buys!Value \in Nat /\ Buys!Value <= cash
    BY <1>10, <2>1 DEF Buys!Accepted, Buys!Value, Purchases
  <2>3. cash' = cash - Buys!Value /\ cur' = Buys!Nobody /\ refusedUnraced' = refusedUnraced
    BY <1>10 DEF Buys!Accepted, Buys!Done
  <2>4. cash' \in Nat
    BY <1>1, <2>2, <2>3
  <2>5. pending' = pending \/ pending' = [pending EXCEPT ![cur.stock] = Buys!Value]
    BY <1>10 DEF Buys!Accepted
  <2> QED BY <1>1, <2>2, <2>3, <2>4, <2>5, MoneyKept
<1>11. CASE Buys!Refused
  <2>1. /\ cur.stage = "place" /\ cash' = cash /\ pending' = pending /\ cur' = Buys!Nobody
        /\ \/ refusedUnraced' = refusedUnraced
           \/ Buys!Value > cash /\ (refusedUnraced' => refusedUnraced \/ ~cur.raced)
    BY <1>11 DEF Buys!Refused, Buys!Done
  <2>2. cur.quantity \in Nat /\ cur.price \in Nat
    BY <2>1, NobodyIsIdle DEF MoneyInv, MoneyTypes, Purchases
  <2>3. Buys!Value > cash => cur.raced
    <3>1. ~cur.raced => Buys!Value <= cash
      BY <2>1 DEF MoneyInv, Payable, Buys!Value
    <3>2. Buys!Value \in Nat
      BY <2>2 DEF Buys!Value
    <3> QED BY <1>1, <3>1, <3>2
  <2>4. ~refusedUnraced'
    BY <1>1, <2>1, <2>3
  <2> QED BY <1>1, <2>1, <2>4, MoneyKept
<1>12. CASE Buys!BalanceShows
  <2>1. cash' = cash /\ cur' = cur /\ refusedUnraced' = refusedUnraced
        /\ pending' \in [Stocks -> Nat]
    BY <1>1, <1>12 DEF Buys!BalanceShows
  <2> QED BY <1>1, <2>1, MoneyKept
<1>13. CASE Buys!OthersSpend
  <2>1. cash' \in Nat /\ pending' = pending /\ refusedUnraced' = refusedUnraced
    BY <1>1, <1>13 DEF Buys!OthersSpend
  <2>2. cur' = IF cur = Buys!Nobody THEN cur ELSE [cur EXCEPT !.raced = TRUE]
    BY <1>13 DEF Buys!OthersSpend
  <2>3. CASE cur = Buys!Nobody
    BY <1>1, <2>1, <2>2, <2>3, MoneyKept
  <2>4. CASE cur # Buys!Nobody
    <3>1. cur \in Purchases
      BY <2>4 DEF MoneyInv, MoneyTypes
    <3>2. cur' \in Purchases /\ cur'.raced
      BY <2>2, <2>4, <3>1 DEF Purchases
    <3> QED BY <1>1, <2>1, <3>2 DEF MoneyInv, MoneyTypes, Payable
  <2> QED BY <2>3, <2>4
<1> QED
  BY <1>2, <1>3, <1>4, <1>5, <1>6, <1>7, <1>8, <1>9, <1>10, <1>11, <1>12, <1>13, AskKeepsMoney
  DEF Buys!Next

\* The broker refuses an order for want of cash only if somebody else has spent some after
\* it was asked (_get_buyable_qty and the cap in _execute_buy).
THEOREM RefusalsAreRaces == Buys!Spec => []RefusedOnlyIfRaced
<1>1. Buys!Init => MoneyInv
  BY NobodyIsIdle, PurchaseAssumption DEF Buys!Init, MoneyInv, MoneyTypes, Payable
<1>2. MoneyInv => RefusedOnlyIfRaced
  BY DEF MoneyInv, RefusedOnlyIfRaced, Buys!RefusedOnlyIfRaced
<1> QED BY <1>1, <1>2, MoneyStep, PTL DEF Buys!Spec

-----------------------------------------------------------------------------
(* The accounts of a cycle *)

NotActed == Buys!Rejections \cup {"ERROR"}

\* What the metrics and rows of a stock say when its evaluation has ended: nothing, or that
\* the signal was rejected, or what became of the order.
SettledAs(metrics, acted) ==
    \/ metrics = <<>> /\ acted \in {<<>>, <<FALSE>>}
    \/ \E reason \in NotActed : metrics = <<reason>> /\ acted \in {<<>>, <<FALSE>>}
    \/ \E outcome \in Buys!Outcomes : metrics = <<outcome>> /\ acted = <<TRUE>>

\* Before its evaluation there is nothing; while it is in work there is a row once the
\* signal is acted on, and no metric.
AccountInv ==
    /\ accounts = [s \in Stocks |-> accounts[s]] /\ rows = [s \in Stocks |-> rows[s]]
    /\ todo \subseteq Stocks
    /\ cur.stock \notin todo
    /\ \A s \in Stocks :
         /\ s \in todo => accounts[s] = <<>> /\ rows[s] = <<>>
         /\ cur.stock = s => /\ accounts[s] = <<>>
                             /\ rows[s] = IF cur.stage = "sized" THEN <<>> ELSE <<TRUE>>
         /\ Buys!Evaluated(s) => SettledAs(accounts[s], rows[s])

\* A settled stock has one account, which agrees with its row.
LEMMA SettledOnce ==
    ASSUME NEW metrics, NEW acted, SettledAs(metrics, acted)
    PROVE  /\ Len(metrics) <= 1 /\ Len(acted) <= 1
           /\ acted = <<TRUE>> <=> \E i \in DOMAIN metrics : metrics[i] \in Buys!Outcomes
           /\ metrics # <<>> => metrics[1] \in Buys!Rejections \cup Buys!Outcomes \cup {"ERROR"}
<1>1. <<FALSE>> # <<TRUE>> /\ <<>> # <<TRUE>>
  <2>1. <<FALSE>>[1] # <<TRUE>>[1]
    OBVIOUS
  <2>2. Len(<<>>) # Len(<<TRUE>>)
    OBVIOUS
  <2> QED BY <2>1, <2>2
<1>2. NotActed \cap Buys!Outcomes = {}
  BY PurchaseAssumption DEF NotActed, Buys!Rejections, Buys!Outcomes
<1>3. \A x : Len(<<x>>) = 1 /\ DOMAIN <<x>> = {1} /\ <<x>>[1] = x
  OBVIOUS
<1>4. Len(<<>>) = 0 /\ DOMAIN <<>> = {}
  OBVIOUS
<1>5. ASSUME acted \in {<<>>, <<FALSE>>} PROVE Len(acted) <= 1 /\ acted # <<TRUE>>
  <2>1. CASE acted = <<>>
    BY <1>1, <1>4, <2>1
  <2>2. CASE acted = <<FALSE>>
    BY <1>1, <1>3, <2>2
  <2> QED BY <1>5, <2>1, <2>2
<1>6. CASE metrics = <<>> /\ acted \in {<<>>, <<FALSE>>}
  <2>1. ~\E i \in DOMAIN metrics : metrics[i] \in Buys!Outcomes
    BY <1>4, <1>6
  <2>2. Len(metrics) <= 1
    BY <1>4, <1>6
  <2> QED BY <1>5, <1>6, <2>1, <2>2
<1>7. ASSUME NEW reason \in NotActed, metrics = <<reason>>, acted \in {<<>>, <<FALSE>>}
      PROVE  /\ Len(metrics) <= 1 /\ Len(acted) <= 1
             /\ acted = <<TRUE>> <=> \E i \in DOMAIN metrics : metrics[i] \in Buys!Outcomes
             /\ metrics[1] \in Buys!Rejections \cup {"ERROR"}
  <2>1. Len(metrics) = 1 /\ DOMAIN metrics = {1} /\ metrics[1] = reason
    BY <1>3, <1>7
  <2>2. reason \notin Buys!Outcomes
    BY <1>2, <1>7
  <2>3. ~\E i \in DOMAIN metrics : metrics[i] \in Buys!Outcomes
    BY <2>1, <2>2
  <2>4. Len(acted) <= 1 /\ acted # <<TRUE>>
    BY <1>5, <1>7
  <2>5. Len(metrics) <= 1
    BY <2>1
  <2> QED BY <1>7, <2>1, <2>3, <2>4, <2>5 DEF NotActed
<1>8. ASSUME NEW outcome \in Buys!Outcomes, metrics = <<outcome>>, acted = <<TRUE>>
      PROVE  /\ Len(metrics) <= 1 /\ Len(acted) <= 1
             /\ acted = <<TRUE>> <=> \E i \in DOMAIN metrics : metrics[i] \in Buys!Outcomes
             /\ metrics[1] \in Buys!Outcomes
  BY <1>3, <1>8
<1> QED BY <1>6, <1>7, <1>8 DEF SettledAs

LEMMA Appended == \A x : Append(<<>>, x) = <<x>>
OBVIOUS

\* A step that leaves the cycle's place and its account alone; `raced` does not matter.
LEMMA AccountUnmoved ==
    ASSUME AccountInv, UNCHANGED <<todo, accounts, rows>>,
           cur'.stock = cur.stock, cur'.stage = cur.stage
    PROVE  AccountInv'
BY DEF AccountInv, Buys!Evaluated

\* A stock of the cycle is settled without having been in work.
LEMMA SettledAtOnce ==
    ASSUME AccountInv, cur = Buys!Nobody, cur' = cur, NEW s \in todo, todo' = todo \ {s},
           NEW metrics, NEW acted, SettledAs(metrics, acted),
           accounts' = [accounts EXCEPT ![s] = metrics], rows' = [rows EXCEPT ![s] = acted]
    PROVE  AccountInv'
<1>1. s \in Stocks /\ cur.stock = "nobody"
  BY NobodyIsIdle DEF AccountInv
<1>2. /\ accounts' = [d \in Stocks |-> accounts'[d]] /\ rows' = [d \in Stocks |-> rows'[d]]
      /\ \A d \in Stocks : d # s => accounts'[d] = accounts[d] /\ rows'[d] = rows[d]
      /\ accounts'[s] = metrics /\ rows'[s] = acted
  BY <1>1 DEF AccountInv
<1>3. \A d \in Stocks : d # s => (Buys!Evaluated(d)' <=> Buys!Evaluated(d))
  BY DEF Buys!Evaluated
<1>4. ASSUME NEW d \in Stocks
      PROVE  /\ d \in todo' => accounts'[d] = <<>> /\ rows'[d] = <<>>
             /\ Buys!Evaluated(d)' => SettledAs(accounts'[d], rows'[d])
             /\ cur'.stock # d
  <2>1. cur'.stock # d
    BY <1>1, PurchaseAssumption
  <2>2. CASE d = s
    BY <1>2, <2>1, <2>2
  <2>3. CASE d # s
    BY <1>2, <1>3, <2>1, <2>3 DEF AccountInv
  <2> QED BY <2>2, <2>3
<1>5. \A d \in Stocks : SettledAs(accounts[d], rows[d])' <=> SettledAs(accounts'[d], rows'[d])
  BY DEF SettledAs, NotActed
<1> QED BY <1>1, <1>2, <1>4, <1>5 DEF AccountInv

\* The stock in work is settled.
LEMMA SettledInWork ==
    ASSUME AccountInv, cur.stock \in Stocks, cur' = Buys!Nobody, todo' = todo,
           NEW metrics, NEW acted, SettledAs(metrics, acted),
           accounts' = [accounts EXCEPT ![cur.stock] = metrics],
           rows' = [rows EXCEPT ![cur.stock] = acted]
    PROVE  AccountInv'
<1>1. PICK s \in Stocks : s = cur.stock
  OBVIOUS
<1>2. /\ accounts' = [d \in Stocks |-> accounts'[d]] /\ rows' = [d \in Stocks |-> rows'[d]]
      /\ \A d \in Stocks : d # s => accounts'[d] = accounts[d] /\ rows'[d] = rows[d]
      /\ accounts'[s] = metrics /\ rows'[s] = acted
  BY <1>1 DEF AccountInv
<1>3. cur'.stock = "nobody"
  BY NobodyIsIdle
<1>4. ASSUME NEW d \in Stocks
      PROVE  /\ d \in todo' => accounts'[d] = <<>> /\ rows'[d] = <<>>
             /\ Buys!Evaluated(d)' => SettledAs(accounts'[d], rows'[d])
             /\ cur'.stock # d
  <2>1. cur'.stock # d
    BY <1>3, PurchaseAssumption
  <2>2. CASE d = s
    BY <1>1, <1>2, <2>1, <2>2 DEF AccountInv
  <2>3. CASE d # s
    <3>1. Buys!Evaluated(d)' => Buys!Evaluated(d)
      BY <1>1, <2>3 DEF Buys!Evaluated
    <3> QED BY <1>2, <2>1, <2>3, <3>1 DEF AccountInv
  <2> QED BY <2>2, <2>3
<1>5. \A d \in Stocks : SettledAs(accounts[d], rows[d])' <=> SettledAs(accounts'[d], rows'[d])
  BY DEF SettledAs, NotActed
<1>6. cur'.stock \notin todo' /\ todo' \subseteq Stocks
  BY <1>3, PurchaseAssumption DEF AccountInv
<1> QED BY <1>2, <1>4, <1>5, <1>6 DEF AccountInv

\* The stock in work goes on, with a row from the moment the signal is acted on.
LEMMA GoesOn ==
    ASSUME AccountInv, cur.stock \in Stocks, cur'.stock = cur.stock, todo' = todo,
           accounts' = accounts,
           \/ cur.stage = "sized" /\ cur'.stage = "execute"
              /\ rows' = [rows EXCEPT ![cur.stock] = <<TRUE>>]
           \/ cur.stage # "sized" /\ cur'.stage # "sized" /\ rows' = rows
    PROVE  AccountInv'
<1>1. /\ rows' = [d \in Stocks |-> rows'[d]]
      /\ \A d \in Stocks : d # cur.stock => rows'[d] = rows[d]
      /\ rows'[cur.stock] = <<TRUE>> /\ cur'.stage # "sized"
  BY DEF AccountInv
<1>2. \A d \in Stocks : Buys!Evaluated(d)' <=> Buys!Evaluated(d)
  BY DEF Buys!Evaluated
<1>3. cur.stock \notin todo
  BY DEF AccountInv
<1>4. \A d \in Stocks : SettledAs(accounts[d], rows[d])' <=> SettledAs(accounts'[d], rows'[d])
  BY DEF SettledAs, NotActed
<1>5. ASSUME NEW d \in Stocks
      PROVE  /\ d \in todo' => accounts'[d] = <<>> /\ rows'[d] = <<>>
             /\ cur'.stock = d => accounts'[d] = <<>> /\ rows'[d] = <<TRUE>>
             /\ Buys!Evaluated(d)' => SettledAs(accounts'[d], rows'[d])
  <2>1. CASE d = cur.stock
    BY <1>1, <1>2, <1>3, <2>1 DEF AccountInv, Buys!Evaluated
  <2>2. CASE d # cur.stock
    BY <1>1, <1>2, <2>2 DEF AccountInv
  <2> QED BY <2>1, <2>2
<1> QED BY <1>1, <1>3, <1>4, <1>5 DEF AccountInv

\* A rejection is one metric, and one row if the signal was sure enough.
LEMMA RejectionSettles ==
    ASSUME AccountInv, NEW s \in Stocks, accounts[s] = <<>>, rows[s] = <<>>,
           NEW reason \in NotActed, NEW sure \in BOOLEAN, Buys!Rejected(s, reason, sure)
    PROVE  \E acted : /\ SettledAs(<<reason>>, acted)
                      /\ accounts' = [accounts EXCEPT ![s] = <<reason>>]
                      /\ rows' = [rows EXCEPT ![s] = acted]
<1>1. accounts' = [accounts EXCEPT ![s] = <<reason>>]
  BY Appended DEF Buys!Rejected
<1>2. CASE sure
  <2>1. rows' = [rows EXCEPT ![s] = <<FALSE>>]
    BY <1>2, Appended DEF Buys!Rejected
  <2> QED BY <1>1, <2>1 DEF SettledAs
<1>3. CASE ~sure
  <2>1. rows' = [rows EXCEPT ![s] = <<>>]
    BY <1>3 DEF Buys!Rejected, AccountInv
  <2> QED BY <1>1, <2>1 DEF SettledAs
<1> QED BY <1>2, <1>3

\* An outcome of an order is one metric of a stock that has its row.
LEMMA OutcomeSettles ==
    ASSUME AccountInv, cur.stock \in Stocks, cur.stage # "sized",
           NEW outcome \in Buys!Outcomes, Buys!Done(outcome)
    PROVE  AccountInv'
<1>1. accounts[cur.stock] = <<>> /\ rows[cur.stock] = <<TRUE>>
  BY DEF AccountInv
<1>2. accounts' = [accounts EXCEPT ![cur.stock] = <<outcome>>]
  BY <1>1, Appended DEF Buys!Done, Buys!Account
<1>3. rows' = [rows EXCEPT ![cur.stock] = <<TRUE>>]
  BY <1>1 DEF Buys!Done, AccountInv
<1>4. SettledAs(<<outcome>>, <<TRUE>>)
  BY DEF SettledAs
<1>5. cur' = Buys!Nobody /\ todo' = todo
  BY DEF Buys!Done
<1> QED BY <1>2, <1>3, <1>4, <1>5, SettledInWork

\* All gates are open, or the size is none, or the price is.
LEMMA SizedAccounts ==
    ASSUME MoneyInv, AccountInv, NEW s \in Stocks, Buys!Sized(s)
    PROVE  AccountInv'
<1>1. cur = Buys!Nobody /\ s \in todo /\ todo' = todo \ {s}
  BY DEF Buys!Sized
<1>2. accounts[s] = <<>> /\ rows[s] = <<>>
  BY <1>1 DEF AccountInv
<1>3. PICK price \in Prices \cup {0} :
        \/ /\ accounts' = [accounts EXCEPT ![s] = Append(@, "ERROR")]
           /\ cur' = cur /\ rows' = rows
        \/ Buys!Rejected(s, "POSITION_RATIO", TRUE) /\ cur' = cur
        \/ /\ cur' = [stock |-> s, stage |-> "sized", price |-> price,
                      quantity |-> Buys!PositionSize(price), raced |-> FALSE]
           /\ accounts' = accounts /\ rows' = rows
  <2>1. PICK price \in Prices \cup {0} :
          CASE price = 0 -> /\ accounts' = [accounts EXCEPT ![s] = Append(@, "ERROR")]
                            /\ cur' = cur /\ rows' = rows
            [] price > 0 /\ Buys!PositionSize(price) = 0 ->
                  Buys!Rejected(s, "POSITION_RATIO", TRUE) /\ cur' = cur
            [] OTHER -> /\ cur' = [stock |-> s, stage |-> "sized", price |-> price,
                                   quantity |-> Buys!PositionSize(price), raced |-> FALSE]
                        /\ accounts' = accounts /\ rows' = rows
    BY DEF Buys!Sized
  <2> QED BY <2>1
<1>4. CASE /\ accounts' = [accounts EXCEPT ![s] = Append(@, "ERROR")]
           /\ cur' = cur /\ rows' = rows
  <2>1. accounts' = [accounts EXCEPT ![s] = <<"ERROR">>]
    BY <1>2, <1>4, Appended
  <2>2. rows' = [rows EXCEPT ![s] = <<>>]
    BY <1>2, <1>4 DEF AccountInv
  <2>3. SettledAs(<<"ERROR">>, <<>>)
    BY DEF SettledAs, NotActed
  <2> QED BY <1>1, <1>4, <2>1, <2>2, <2>3, SettledAtOnce
<1>5. CASE Buys!Rejected(s, "POSITION_RATIO", TRUE) /\ cur' = cur
  <2>1. "POSITION_RATIO" \in NotActed
    BY DEF NotActed, Buys!Rejections
  <2>2. PICK acted : /\ SettledAs(<<"POSITION_RATIO">>, acted)
                     /\ accounts' = [accounts EXCEPT ![s] = <<"POSITION_RATIO">>]
                     /\ rows' = [rows EXCEPT ![s] = acted]
    BY <1>2, <1>5, <2>1, RejectionSettles
  <2> QED BY <1>1, <1>5, <2>2, SettledAtOnce
<1>6. CASE /\ cur' = [stock |-> s, stage |-> "sized", price |-> price,
                      quantity |-> Buys!PositionSize(price), raced |-> FALSE]
           /\ accounts' = accounts /\ rows' = rows
  <2>1. cur'.stock = s /\ cur'.stage = "sized" /\ cur.stock = "nobody"
    BY <1>1, <1>6, NobodyIsIdle
  <2>2. \A d \in Stocks : SettledAs(accounts[d], rows[d])' <=> SettledAs(accounts[d], rows[d])
    BY <1>6 DEF SettledAs, NotActed
  <2>3. \A d \in Stocks : Buys!Evaluated(d)' => Buys!Evaluated(d)
    BY <1>1, <2>1, PurchaseAssumption DEF Buys!Evaluated
  <2> QED BY <1>1, <1>2, <1>6, <2>1, <2>2, <2>3 DEF AccountInv
<1> QED BY <1>3, <1>4, <1>5, <1>6

LEMMA AccountStep == MoneyInv /\ AccountInv /\ [Buys!Next]_(Buys!funnelVars) => AccountInv'
<1> SUFFICES ASSUME MoneyInv, AccountInv, [Buys!Next]_(Buys!funnelVars) PROVE AccountInv'
  OBVIOUS
<1>1. ASSUME cur.stage \in Stages
      PROVE  cur \in Purchases /\ cur.stock \in Stocks
  BY <1>1, NobodyIsIdle DEF MoneyInv, MoneyTypes, Stages, Purchases
<1>2. ASSUME NEW outcome \in Buys!Outcomes, cur.stage \in {"execute", "clear", "place"},
             Buys!Done(outcome)
      PROVE  AccountInv'
  BY <1>1, <1>2, OutcomeSettles DEF Stages
<1>3. CASE Buys!NewCycle
  <2>1. /\ cur' = Buys!Nobody /\ todo' \subseteq Stocks
        /\ accounts' = [s \in Stocks |-> <<>>] /\ rows' = [s \in Stocks |-> <<>>]
    BY <1>3 DEF Buys!NewCycle
  <2>2. cur'.stock = "nobody"
    BY <2>1, NobodyIsIdle
  <2>3. \A s \in Stocks : SettledAs(accounts[s], rows[s])'
    BY <2>1 DEF SettledAs
  <2> QED BY <2>1, <2>2, <2>3, PurchaseAssumption DEF AccountInv
<1>4. ASSUME NEW s \in Stocks, Buys!NotABuy(s) PROVE AccountInv'
  <2>1. cur = Buys!Nobody /\ cur' = cur /\ s \in todo /\ todo' = todo \ {s}
        /\ accounts' = accounts
    BY <1>4 DEF Buys!NotABuy
  <2>2. accounts[s] = <<>> /\ rows[s] = <<>>
    BY <2>1 DEF AccountInv
  <2>3. accounts' = [accounts EXCEPT ![s] = <<>>]
    BY <2>1, <2>2 DEF AccountInv
  <2>4. PICK acted \in {<<>>, <<FALSE>>} : rows' = [rows EXCEPT ![s] = acted]
    <3>1. CASE rows' = rows
      BY <2>2, <3>1 DEF AccountInv
    <3>2. CASE rows' = [rows EXCEPT ![s] = Append(@, FALSE)]
      BY <2>2, <3>2, Appended
    <3> QED BY <1>4, <3>1, <3>2 DEF Buys!NotABuy
  <2>5. SettledAs(<<>>, acted)
    BY DEF SettledAs
  <2> QED BY <2>1, <2>3, <2>4, <2>5, SettledAtOnce
<1>5. ASSUME NEW s \in Stocks, Buys!GateClosed(s) PROVE AccountInv'
  <2>1. cur = Buys!Nobody /\ cur' = cur /\ s \in todo /\ todo' = todo \ {s}
    BY <1>5 DEF Buys!GateClosed
  <2>2. accounts[s] = <<>> /\ rows[s] = <<>>
    BY <2>1 DEF AccountInv
  <2>3. PICK reason \in NotActed, sure \in BOOLEAN : Buys!Rejected(s, reason, sure)
    <3>1. DayGates \cup {"INSUFFICIENT_CASH", "LOW_CONFIDENCE"} \subseteq NotActed
      BY DEF NotActed, Buys!Rejections
    <3> QED BY <1>5, <3>1 DEF Buys!GateClosed
  <2>4. PICK acted : /\ SettledAs(<<reason>>, acted)
                     /\ accounts' = [accounts EXCEPT ![s] = <<reason>>]
                     /\ rows' = [rows EXCEPT ![s] = acted]
    BY <2>2, <2>3, RejectionSettles
  <2> QED BY <2>1, <2>4, SettledAtOnce
<1>6. ASSUME NEW s \in Stocks, Buys!Sized(s) PROVE AccountInv'
  BY <1>6, SizedAccounts
<1>7. CASE Buys!AskBuyable
  <2>1. cur.stage = "sized" /\ cur.stock \in Stocks /\ cur \in Purchases /\ todo' = todo
    BY <1>1, <1>7 DEF Buys!AskBuyable, Stages
  <2>2. accounts[cur.stock] = <<>> /\ rows[cur.stock] = <<>>
    BY <2>1 DEF AccountInv
  <2>3. \/ Buys!Rejected(cur.stock, "INSUFFICIENT_BUYABLE", TRUE) /\ cur' = Buys!Nobody
        \/ \E n : /\ cur' = [cur EXCEPT !.stage = "execute", !.quantity = n, !.raced = FALSE]
                  /\ Buys!Row(TRUE) /\ accounts' = accounts
    BY <1>7 DEF Buys!AskBuyable
  <2>4. CASE Buys!Rejected(cur.stock, "INSUFFICIENT_BUYABLE", TRUE) /\ cur' = Buys!Nobody
    <3>1. "INSUFFICIENT_BUYABLE" \in NotActed
      BY DEF NotActed, Buys!Rejections
    <3>2. PICK acted : /\ SettledAs(<<"INSUFFICIENT_BUYABLE">>, acted)
                       /\ accounts' = [accounts EXCEPT ![cur.stock] = <<"INSUFFICIENT_BUYABLE">>]
                       /\ rows' = [rows EXCEPT ![cur.stock] = acted]
      BY <2>1, <2>2, <2>4, <3>1, RejectionSettles
    <3> QED BY <2>1, <2>4, <3>2, SettledInWork
  <2>5. ASSUME NEW n, cur' = [cur EXCEPT !.stage = "execute", !.quantity = n, !.raced = FALSE],
               Buys!Row(TRUE), accounts' = accounts
        PROVE  AccountInv'
    <3>1. cur'.stock = cur.stock /\ cur'.stage = "execute"
      BY <2>1, <2>5 DEF Purchases
    <3>2. rows' = [rows EXCEPT ![cur.stock] = <<TRUE>>]
      BY <2>2, <2>5, Appended DEF Buys!Row
    <3> QED BY <2>1, <2>5, <3>1, <3>2, GoesOn
  <2> QED BY <2>3, <2>4, <2>5
<1>8. CASE Buys!Lookups
  <2>1. cur.stage = "execute" /\ cur.stock \in Stocks /\ cur \in Purchases
    BY <1>1, <1>8 DEF Buys!Lookups, Stages
  <2>2. \/ \E outcome \in {"SKIP_UNTRADABLE_TODAY", "BLOCK_PRICE_FLOOR", "BLOCK_MARKET_ACTION",
                           "BLOCK_DISCLOSURE"} : Buys!Done(outcome)
        \/ /\ cur' = [cur EXCEPT !.stage = "clear"]
           /\ todo' = todo /\ accounts' = accounts /\ rows' = rows
    BY <1>8 DEF Buys!Lookups, Buys!DoneWithoutOrder
  <2>3. CASE \E outcome \in {"SKIP_UNTRADABLE_TODAY", "BLOCK_PRICE_FLOOR",
                             "BLOCK_MARKET_ACTION", "BLOCK_DISCLOSURE"} : Buys!Done(outcome)
    BY <1>2, <2>1, <2>3 DEF Buys!Outcomes
  <2>4. CASE /\ cur' = [cur EXCEPT !.stage = "clear"]
             /\ todo' = todo /\ accounts' = accounts /\ rows' = rows
    <3>1. cur'.stock = cur.stock /\ cur'.stage = "clear"
      BY <2>1, <2>4 DEF Purchases
    <3> QED BY <2>1, <2>4, <3>1, GoesOn
  <2> QED BY <2>2, <2>3, <2>4
<1>9. CASE Buys!Suppressed
  BY <1>2, <1>9 DEF Buys!Suppressed, Buys!DoneWithoutOrder, Buys!Outcomes
<1>10. CASE Buys!Replaced
  <2>1. cur.stage = "clear" /\ cur.stock \in Stocks /\ cur \in Purchases
    BY <1>1, <1>10 DEF Buys!Replaced, Stages
  <2>2. /\ cur' = [cur EXCEPT !.stage = "place"]
        /\ todo' = todo /\ accounts' = accounts /\ rows' = rows
    BY <1>10 DEF Buys!Replaced
  <2>3. cur'.stock = cur.stock /\ cur'.stage = "place"
    BY <2>1, <2>2 DEF Purchases
  <2> QED BY <2>1, <2>2, <2>3, GoesOn
<1>11. CASE Buys!DatabaseDown
  BY <1>2, <1>11 DEF Buys!DatabaseDown, Buys!DoneWithoutOrder, Buys!Outcomes
<1>12. CASE Buys!Accepted
  BY <1>2, <1>12 DEF Buys!Accepted, Buys!Outcomes
<1>13. CASE Buys!Refused
  BY <1>2, <1>13 DEF Buys!Refused, Buys!Outcomes
<1>14. CASE Buys!OthersSpend
  <2>1. /\ todo' = todo /\ accounts' = accounts /\ rows' = rows
        /\ cur' = IF cur = Buys!Nobody THEN cur ELSE [cur EXCEPT !.raced = TRUE]
    BY <1>14 DEF Buys!OthersSpend
  <2>2. cur'.stock = cur.stock /\ cur'.stage = cur.stage
    BY <2>1 DEF MoneyInv, MoneyTypes, Purchases
  <2> QED BY <2>1, <2>2, AccountUnmoved
<1>15. CASE \/ Buys!BalanceShows \/ Buys!Sync \/ Buys!DisclosureStored
            \/ UNCHANGED Buys!funnelVars
  <2>1. /\ todo' = todo /\ accounts' = accounts /\ rows' = rows /\ cur' = cur
    BY <1>15 DEF Buys!BalanceShows, Buys!Sync, Buys!DisclosureStored, Buys!funnelVars
  <2> QED BY <2>1, AccountUnmoved
<1> QED
  BY <1>3, <1>4, <1>5, <1>6, <1>7, <1>8, <1>9, <1>10, <1>11, <1>12, <1>13, <1>14, <1>15
  DEF Buys!Next

\* Of every signal to buy there is one account, and the row says "acted" exactly if the
\* account is an outcome of an order (_record_buy_reject, _record_buy_outcome).
THEOREM SignalsAreAccountedOnce == Buys!Spec => []AccountedOnce
<1>1. Buys!Init => MoneyInv /\ AccountInv
  <2> SUFFICES ASSUME Buys!Init PROVE MoneyInv /\ AccountInv
    OBVIOUS
  <2>1. MoneyInv
    BY NobodyIsIdle, PurchaseAssumption DEF Buys!Init, MoneyInv, MoneyTypes, Payable
  <2>2. \A s \in Stocks : SettledAs(accounts[s], rows[s])
    BY DEF Buys!Init, SettledAs
  <2> QED BY <2>1, <2>2, NobodyIsIdle, PurchaseAssumption DEF Buys!Init, AccountInv
<1>2. AccountInv => AccountedOnce
  <2> SUFFICES ASSUME AccountInv, NEW s \in Stocks
               PROVE  /\ Buys!Evaluated(s) =>
                           /\ Len(accounts[s]) <= 1 /\ Len(rows[s]) <= 1
                           /\ rows[s] = <<TRUE>> <=>
                                \E i \in DOMAIN accounts[s] : accounts[s][i] \in Buys!Outcomes
                           /\ accounts[s] # <<>> =>
                                accounts[s][1] \in Buys!Rejections \cup Buys!Outcomes \cup {"ERROR"}
                      /\ cur.stock = s => accounts[s] = <<>>
    BY DEF AccountedOnce, Buys!AccountedOnce
  <2>1. Buys!Evaluated(s) => SettledAs(accounts[s], rows[s])
    BY DEF AccountInv
  <2>2. cur.stock = s => accounts[s] = <<>>
    BY DEF AccountInv
  <2> QED BY <2>1, <2>2, SettledOnce
<1> QED BY <1>1, <1>2, MoneyStep, AccountStep, PTL DEF Buys!Spec

-----------------------------------------------------------------------------
(* The vote of the ensemble *)

\* The library's count, as the instance of Strategies knows it.
LEMMA VoteCounts == \A S : Signals!Cardinality(S) = Cardinality(S)
  BY DEF Signals!Cardinality, Cardinality

Voting(votes) == {v \in votes : v.type # "HOLD"}

\* Of four votes more than three quarters hold only if all do: with a fifth strategy a
\* lone vote among four abstentions would be outvoted by them.
LEMMA MostOfFourIsAll ==
    ASSUME NEW votes, IsFiniteSet(votes), Cardinality(votes) = 4, Signals!MostlyHolding(votes)
    PROVE  Voting(votes) = {}
<1> DEFINE holds == Signals!Votes("HOLD", votes)
<1>1. holds \subseteq votes
  BY DEF Signals!Votes
<1>2. /\ IsFiniteSet(holds) /\ Cardinality(holds) \in Nat
      /\ Cardinality(holds) <= 4
      /\ Cardinality(holds) = 4 => holds = votes
  BY <1>1, FS_Subset, FS_CardinalityType
<1>3. 4 * Cardinality(holds) > 12
  <2>1. 4 * Cardinality(holds) > 3 * Cardinality(votes)
    BY VoteCounts DEF Signals!MostlyHolding
  <2> QED
    BY <2>1
<1>4. holds = votes
  <2> HIDE DEF holds
  <2> QED
    BY <1>2, <1>3
<1> QED
  BY <1>4 DEF Voting, Signals!Votes

\* Those that do not hold, by themselves, are not outvoted by abstentions.
LEMMA NobodyAbstains ==
    ASSUME NEW votes, IsFiniteSet(votes)
    PROVE  ~Signals!MostlyHolding(Voting(votes))
<1>1. Signals!Votes("HOLD", Voting(votes)) = {}
  BY DEF Voting, Signals!Votes
<1>2. Cardinality(Signals!Votes("HOLD", Voting(votes))) = 0
  BY <1>1, FS_EmptySet
<1>3. Cardinality(Voting(votes)) \in Nat
  <2>1. Voting(votes) \subseteq votes
    BY DEF Voting
  <2> QED
    BY <2>1, FS_Subset, FS_CardinalityType
<1> QED
  BY <1>2, <1>3, VoteCounts DEF Signals!MostlyHolding

\* By weighted votes the abstentions change nothing.
LEMMA AbstentionsChangeNothing ==
    ASSUME NEW votes, IsFiniteSet(votes), Cardinality(votes) = 4
    PROVE  Signals!Weighted(Voting(votes)) = Signals!Weighted(votes)
<1> DEFINE ups == Signals!Votes("BUY", votes)
           downs == Signals!Votes("SELL", votes)
<1>1. /\ Signals!Votes("BUY", Voting(votes)) = ups
      /\ Signals!Votes("SELL", Voting(votes)) = downs
  BY DEF Voting, Signals!Votes
<1>2. ~Signals!MostlyHolding(Voting(votes))
  BY NobodyAbstains
<1>3. CASE Signals!MostlyHolding(votes)
  <2>1. ups = {} /\ downs = {}
    BY <1>3, MostOfFourIsAll DEF Voting, Signals!Votes
  <2>2. Signals!Weight(ups) = Signals!Weight(downs)
    BY <2>1
  <2> HIDE DEF ups, downs
  <2> QED
    BY <1>1, <1>3, <2>2 DEF Signals!Weighted
<1>4. CASE ~Signals!MostlyHolding(votes)
  <2> HIDE DEF ups, downs
  <2>1. /\ ups = Signals!Votes("BUY", votes)
        /\ downs = Signals!Votes("SELL", votes)
    BY DEF ups, downs
  <2> QED
    BY <1>1, <1>2, <1>4, <2>1 DEF Signals!Weighted
<1> QED
  BY <1>3, <1>4

\* What the ensemble has decided is the vote of the signals there are.
VoteInv ==
    /\ IsFiniteSet(signals)
    /\ decision.by = "ensemble" => /\ Cardinality(signals) = 4
                                    /\ decision.signal = Signals!Vote(signals)

LEMMA VoteStep == VoteInv /\ [Signals!Next]_(Signals!strategyVars) => VoteInv'
<1> SUFFICES ASSUME VoteInv, [Signals!Next]_(Signals!strategyVars)
             PROVE  VoteInv'
  OBVIOUS
<1>1. CASE Signals!Analyse
  <2>1. PICK vote : signals' = signals \cup {vote}
    BY <1>1 DEF Signals!Analyse
  <2>2. IsFiniteSet(signals')
    BY <2>1, FS_AddElement DEF VoteInv
  <2>3. decision'.by # "ensemble"
    <3>1. Cardinality(signals) < 4
      BY <1>1, VoteCounts DEF Signals!Analyse, Signals!Names
    <3>2. decision' = decision
      BY <1>1 DEF Signals!Analyse
    <3> QED
      BY <3>1, <3>2 DEF VoteInv
  <2> QED
    BY <2>2, <2>3 DEF VoteInv
<1>2. CASE Signals!Decide
  <2>1. PICK name \in Signals!Selectable :
          decision' = [by |-> name,
                       signal |-> IF name = "ensemble" THEN Signals!Vote(signals)
                                  ELSE LET v == CHOOSE x \in signals : x.by = name
                                       IN  Signals!Signal(v.type, v.confidence)]
    BY <1>2 DEF Signals!Decide
  <2>2. decision'.by = "ensemble" => decision'.signal = Signals!Vote(signals)
    BY <2>1
  <2>3. Cardinality(signals) = 4
    BY <1>2, VoteCounts DEF Signals!Decide, Signals!Names
  <2>4. Signals!Vote(signals)' = Signals!Vote(signals) /\ signals' = signals
    BY <1>2 DEF Signals!Decide, Signals!Vote, Signals!Weighted, Signals!SoloBuyAllowed
  <2> QED
    BY <2>2, <2>3, <2>4 DEF VoteInv
<1>3. CASE Signals!NextStock
  BY <1>3, FS_EmptySet DEF Signals!NextStock, Signals!Undecided, VoteInv
<1>4. CASE UNCHANGED Signals!strategyVars
  <2>1. UNCHANGED <<method, solo, trend, signals, decision>>
    BY <1>4 DEF Signals!strategyVars
  <2> QED
    BY <2>1 DEF VoteInv, Signals!Vote, Signals!Weighted, Signals!SoloBuyAllowed
<1> QED
  BY <1>1, <1>2, <1>3, <1>4 DEF Signals!Next

\* "HOLD is an abstention and does not dilute" (src/strategy/ensemble.py): by weighted
\* votes the ensemble decides what the strategies that do not hold would decide among
\* themselves, for any readings, thresholds and settings.
THEOREM AbstentionsDoNotDilute == Signals!Spec => []HoldIsAbstention
<1>1. Signals!Init => VoteInv
  BY FS_EmptySet DEF Signals!Init, Signals!Undecided, VoteInv
<1>2. VoteInv => HoldIsAbstention
  <2> SUFFICES ASSUME VoteInv, Signals!Decided, method = "weighted"
               PROVE  Signals!Vote({v \in signals : v.type # "HOLD"}) = decision.signal
    BY DEF HoldIsAbstention, Signals!HoldIsAbstention
  <2>1. Cardinality(signals) = 4 /\ IsFiniteSet(signals)
    BY DEF VoteInv, Signals!Decided
  <2>2. Signals!Weighted(Voting(signals)) = Signals!Weighted(signals)
    BY <2>1, AbstentionsChangeNothing
  <2>3. /\ Signals!Vote(Voting(signals)) = Signals!Weighted(Voting(signals))
        /\ Signals!Vote(signals) = Signals!Weighted(signals)
    BY DEF Signals!Vote
  <2>4. decision.signal = Signals!Vote(signals)
    BY DEF VoteInv, Signals!Decided
  <2> QED
    BY <2>2, <2>3, <2>4 DEF Voting
<1> QED
  BY <1>1, <1>2, VoteStep, PTL DEF Signals!Spec

-----------------------------------------------------------------------------
(* The drawdown of a backtest *)

\* What integer division gives, for a positive divisor.
LEMMA Divided ==
    ASSUME NEW x \in Int, NEW y \in Nat \ {0}
    PROVE  /\ x \div y \in Int
           /\ (x \div y) * y <= x
           /\ \A q \in Int : q * y <= x => q <= x \div y
OBVIOUS

\* From a higher value the fall to the same value is no smaller.
LEMMA FallGrows ==
    ASSUME NEW a \in Nat \ {0}, NEW b \in Nat \ {0}, NEW v \in Nat, a <= b
    PROVE  /\ Simulation!Fall(a, v) \in Int /\ Simulation!Fall(b, v) \in Int
           /\ Simulation!Fall(a, v) <= Simulation!Fall(b, v)
<1> DEFINE x == Simulation!Fall(a, v)
<1>1. /\ x \in Int /\ x * a <= (a - v) * 1000
      /\ Simulation!Fall(b, v) \in Int
      /\ \A q \in Int : q * b <= (b - v) * 1000 => q <= Simulation!Fall(b, v)
  BY Divided DEF Simulation!Fall
<1> HIDE DEF x
<1>2. 1000 * v <= (1000 - x) * a
  BY <1>1
<1>3. 1000 - x >= 0
  <2> SUFFICES ASSUME 1000 - x < 0  PROVE FALSE
    BY <1>1
  <2>1. (1000 - x) * a < 0
    BY <1>1
  <2> QED
    BY <1>1, <1>2, <2>1
<1>4. (1000 - x) * a <= (1000 - x) * b
  BY <1>1, <1>3
<1>5. x * b <= (b - v) * 1000
  BY <1>1, <1>2, <1>4
<1> QED
  BY <1>1, <1>5 DEF x

LEMMA FallTyped ==
    ASSUME NEW a \in Nat, a > 0, NEW v \in Nat
    PROVE  Simulation!Fall(a, v) \in Int
BY Divided DEF Simulation!Fall

Scans == [peak : Nat, worst : Nat]

LEMMA AfterTyped ==
    ASSUME NEW scan \in Scans, NEW value \in Nat
    PROVE  Simulation!After(scan, value) \in Scans
<1> DEFINE highest == IF value > scan.peak THEN value ELSE scan.peak
<1>1. highest \in Nat /\ scan.worst \in Nat
  BY DEF Scans
<1>2. highest > 0 => Simulation!Fall(highest, value) \in Int
  BY <1>1, Divided DEF Simulation!Fall
<1> HIDE DEF highest
<1>3. (IF highest > 0 /\ Simulation!Fall(highest, value) > scan.worst THEN Simulation!Fall(highest, value)
       ELSE scan.worst) \in Nat
  BY <1>1, <1>2
<1> QED
  BY <1>1, <1>3 DEF Simulation!After, Scans, highest

\* The pass begins at the first value and takes one value after the other.
LEMMA ScanDef ==
    ASSUME NEW curve, curve \in Seq(Nat), curve # <<>>
    PROVE  /\ Simulation!Scan(curve)[0] = [peak |-> curve[1], worst |-> 0]
           /\ \A k \in 1..Len(curve) :
                Simulation!Scan(curve)[k] = Simulation!After(Simulation!Scan(curve)[k - 1], curve[k])
           /\ \A k \in 0..Len(curve) : Simulation!Scan(curve)[k] \in Scans
<1> DEFINE P(h) == h = [k \in 0..Len(curve) |->
                          IF k = 0 THEN [peak |-> curve[1], worst |-> 0]
                          ELSE Simulation!After(h[k - 1], curve[k])]
<1>1. PICK A, a, n : A = Scans /\ a = [peak |-> curve[1], worst |-> 0] /\ n = Len(curve)
  OBVIOUS
<1>2. PICK step : step = [k \in 1..n |-> [x \in A |-> Simulation!After(x, curve[k])]]
  OBVIOUS
<1>3. \A k \in 1..n : curve[k] \in Nat
  BY <1>1
<1>4. a \in A /\ n \in Nat /\ step \in [1..n -> [A -> A]]
  <2>1. a \in A
    <3>1. curve[1] \in Nat
      OBVIOUS
    <3> QED
      BY <1>1, <3>1 DEF Scans
  <2>2. \A k \in 1..n : [x \in A |-> Simulation!After(x, curve[k])] \in [A -> A]
    BY <1>1, <1>3, AfterTyped
  <2> QED
    BY <1>1, <1>2, <2>1, <2>2
<1>5. PICK f : f \in [0..n -> A] /\ f[0] = a /\ \A k \in 1..n : f[k] = step[k][f[k - 1]]
  BY ONLY <1>4, RecursionExists
<1>6. \A k \in 1..n : f[k] = Simulation!After(f[k - 1], curve[k])
  <2> SUFFICES ASSUME NEW k \in 1..n  PROVE f[k] = Simulation!After(f[k - 1], curve[k])
    OBVIOUS
  <2>1. k - 1 \in 0..n /\ f[k - 1] \in A
    BY <1>4, <1>5
  <2> QED
    BY <1>2, <1>5, <2>1
<1>7. P(f)
  BY <1>1, <1>5, <1>6
<1>8. P(Simulation!Scan(curve))
  <2>1. Simulation!Scan(curve) = CHOOSE h : P(h)
    BY DEF Simulation!Scan
  <2> HIDE DEF P
  <2> QED
    BY <1>7, <2>1
<1>9. PICK g : g = Simulation!Scan(curve)
  OBVIOUS
<1>10. g[0] = a /\ \A k \in 1..n : g[k] = Simulation!After(g[k - 1], curve[k])
  BY <1>1, <1>8, <1>9
<1>11. \A k \in 0..n : f[k] = g[k]
  <2>1. f[0] = g[0]
    BY <1>5, <1>10
  <2>2. \A k \in 1..n : f[k - 1] = g[k - 1] => f[k] = g[k]
    BY <1>6, <1>10
  <2>3. n \in Nat
    BY <1>4
  <2> QED
    BY ONLY <2>1, <2>2, <2>3, RecursionsAgree
<1>12. \A k \in 0..n : g[k] \in Scans
  BY <1>1, <1>5, <1>11
<1> QED
  BY <1>1, <1>9, <1>10, <1>12

\* After k values: the peak is one of them and the highest, the worst fall is none or one of
\* those between them, and no fall between them is worse.
Scanned(curve, k, scan) ==
    /\ \E i \in 1..Len(curve) : (i <= k \/ i = 1) /\ scan.peak = curve[i]
    /\ \A i \in 1..Len(curve) : i <= k => curve[i] <= scan.peak
    /\ \/ scan.worst = 0
       \/ \E i, j \in 1..Len(curve) :
            i < j /\ j <= k /\ curve[i] > 0 /\ scan.worst = Simulation!Fall(curve[i], curve[j])
    /\ \A i, j \in 1..Len(curve) :
         i < j /\ j <= k /\ curve[i] > 0 => Simulation!Fall(curve[i], curve[j]) <= scan.worst

LEMMA ScanStep ==
    ASSUME NEW curve, curve \in Seq(Nat), NEW k \in Nat, k + 1 <= Len(curve),
           NEW scan \in Scans, Scanned(curve, k, scan)
    PROVE  Scanned(curve, k + 1, Simulation!After(scan, curve[k + 1]))
<1> DEFINE v == curve[k + 1]
           highest == IF v > scan.peak THEN v ELSE scan.peak
           new == Simulation!After(scan, v)
<1>1. /\ \A i \in 1..Len(curve) : curve[i] \in Nat
      /\ k + 1 \in 1..Len(curve) /\ v \in Nat /\ scan.peak \in Nat /\ scan.worst \in Nat
      /\ highest \in Nat
  BY DEF Scans
<1>2. /\ new.peak = highest
      /\ new.worst = IF highest > 0 /\ Simulation!Fall(highest, v) > scan.worst THEN Simulation!Fall(highest, v)
                     ELSE scan.worst
  BY DEF Simulation!After
<1>3. highest > 0 => Simulation!Fall(highest, v) \in Int
  <2> HIDE DEF highest, v
  <2> QED
    BY <1>1, FallTyped
<1>4. v >= scan.peak => Simulation!Fall(highest, v) = 0 \/ highest = 0
  <2>1. v >= scan.peak /\ highest # 0 => highest = v /\ v \in Nat \ {0}
    BY <1>1
  <2>2. v \in Nat \ {0} => Simulation!Fall(v, v) = 0
    BY DEF Simulation!Fall
  <2> QED
    BY <2>1, <2>2
<1>5. highest >= scan.peak /\ highest >= v
  BY <1>1
<1>6. v < scan.peak => highest = scan.peak
  BY <1>1
<1>7. PICK i0 \in 1..Len(curve) : (i0 <= k \/ i0 = 1) /\ scan.peak = curve[i0]
  BY DEF Scanned
<1> HIDE DEF new
<1>8. \E i \in 1..Len(curve) : (i <= k + 1 \/ i = 1) /\ new.peak = curve[i]
  <2>1. CASE v > scan.peak
    BY <1>1, <1>2, <2>1
  <2>2. CASE ~(v > scan.peak)
    BY <1>1, <1>2, <1>7, <2>2
  <2> QED
    BY <2>1, <2>2
<1>9. \A i \in 1..Len(curve) : i <= k + 1 => curve[i] <= new.peak
  <2> SUFFICES ASSUME NEW i \in 1..Len(curve), i <= k + 1  PROVE curve[i] <= highest
    BY <1>2
  <2>1. CASE i = k + 1
    BY <1>5, <2>1
  <2>2. CASE i <= k
    <3>1. curve[i] <= scan.peak
      BY <2>2 DEF Scanned
    <3> QED
      BY <1>1, <1>5, <3>1
  <2> QED
    BY <2>1, <2>2
<1> HIDE DEF highest
<1>10. \/ new.worst = 0
       \/ \E i, j \in 1..Len(curve) :
            i < j /\ j <= k + 1 /\ curve[i] > 0 /\ new.worst = Simulation!Fall(curve[i], curve[j])
  <2>1. CASE highest > 0 /\ Simulation!Fall(highest, v) > scan.worst
    <3>1. v < scan.peak
      BY <1>1, <1>3, <1>4, <2>1
    <3>2. highest = curve[i0] /\ new.worst = Simulation!Fall(curve[i0], v) /\ curve[i0] > 0
      BY <1>2, <1>6, <1>7, <2>1, <3>1
    <3>3. i0 # k + 1
      BY <1>1, <1>7, <3>1
    <3>4. i0 < k + 1
      BY <1>7, <3>3
    <3> QED
      BY <1>1, <3>2, <3>4
  <2>2. CASE ~(highest > 0 /\ Simulation!Fall(highest, v) > scan.worst)
    <3>1. new.worst = scan.worst
      BY <1>2, <2>2
    <3>2. CASE scan.worst = 0
      BY <3>1, <3>2
    <3>3. CASE scan.worst # 0
      <4>1. PICK i, j \in 1..Len(curve) :
              i < j /\ j <= k /\ curve[i] > 0 /\ scan.worst = Simulation!Fall(curve[i], curve[j])
        BY <3>3 DEF Scanned
      <4>2. j <= k + 1
        BY <4>1
      <4> QED
        BY <3>1, <4>1, <4>2
    <3> QED
      BY <3>2, <3>3
  <2> QED
    BY <2>1, <2>2
<1>11. \A i, j \in 1..Len(curve) :
         i < j /\ j <= k + 1 /\ curve[i] > 0 => Simulation!Fall(curve[i], curve[j]) <= new.worst
  <2> SUFFICES ASSUME NEW i \in 1..Len(curve), NEW j \in 1..Len(curve),
                      i < j, j <= k + 1, curve[i] > 0
               PROVE  Simulation!Fall(curve[i], curve[j]) <= new.worst
    OBVIOUS
  <2>1. new.worst \in Int /\ scan.worst <= new.worst
    BY <1>1, <1>2, <1>3
  <2>2. CASE j <= k
    <3>1. Simulation!Fall(curve[i], curve[j]) <= scan.worst
      BY <2>2 DEF Scanned
    <3>2. Simulation!Fall(curve[i], curve[j]) \in Int
      <4>1. curve[i] \in Nat /\ curve[j] \in Nat
        BY <1>1
      <4> QED
        BY <4>1, FallTyped
    <3> QED
      BY <1>1, <2>1, <3>1, <3>2
  <2>3. CASE j = k + 1
    <3>1. i <= k
      BY <2>3
    <3>2. curve[i] <= highest /\ highest > 0
      BY <1>1, <1>2, <1>9
    <3>3. /\ Simulation!Fall(curve[i], v) \in Int
          /\ Simulation!Fall(curve[i], v) <= Simulation!Fall(highest, v)
      <4> HIDE DEF v
      <4>1. curve[i] \in Nat \ {0} /\ highest \in Nat \ {0} /\ v \in Nat
        BY <1>1, <3>2
      <4> QED
        BY <3>2, <4>1, FallGrows
    <3>4. Simulation!Fall(highest, v) <= new.worst
      BY <1>1, <1>2, <1>3, <3>2
    <3> QED
      BY <1>3, <2>1, <2>3, <3>2, <3>3, <3>4
  <2> QED
    BY <2>2, <2>3
<1>12. Scanned(curve, k + 1, new)
  <2> HIDE DEF v
  <2> QED
    BY <1>8, <1>9, <1>10, <1>11 DEF Scanned
<1> QED
  BY <1>12 DEF new

\* The single pass finds the worst of all falls between two days.
LEMMA WorstFall ==
    ASSUME NEW curve, curve \in Seq(Nat)
    PROVE  Simulation!MaxDrawdown(curve) = Simulation!Max({0} \cup Simulation!Falls(curve))
<1> DEFINE falls == {0} \cup Simulation!Falls(curve)
<1>1. ASSUME NEW w \in falls, \A y \in falls : w >= y, falls \subseteq Int
      PROVE  Simulation!Max(falls) = w
  <2> DEFINE P(x) == x \in falls /\ \A y \in falls : x >= y
  <2>1. Simulation!Max(falls) = CHOOSE x : P(x)
    BY DEF Simulation!Max
  <2>2. P(w)
    BY <1>1
  <2>3. PICK m : m = Simulation!Max(falls)
    OBVIOUS
  <2>4. P(m)
    <3> HIDE DEF P, falls
    <3> QED
      BY <2>1, <2>2, <2>3
  <2> HIDE DEF falls
  <2>5. m \in Int /\ w \in Int /\ m >= w /\ w >= m
    BY <1>1, <2>4
  <2> QED
    BY <2>3, <2>5
<1>2. CASE curve = <<>>
  <2>1. falls = {0}
    BY <1>2 DEF Simulation!Falls
  <2>2. Simulation!MaxDrawdown(curve) = 0
    BY <1>2 DEF Simulation!MaxDrawdown
  <2>3. 0 \in falls /\ falls \subseteq Int /\ \A y \in falls : 0 >= y
    BY <2>1
  <2> HIDE DEF falls
  <2>4. Simulation!Max(falls) = 0
    BY <1>1, <2>3
  <2> QED
    BY <2>2, <2>4 DEF falls
<1>3. CASE curve # <<>>
  <2>1. PICK g, n : g = Simulation!Scan(curve) /\ n = Len(curve)
    OBVIOUS
  <2>2. /\ n \in Nat /\ n >= 1 /\ g[0] = [peak |-> curve[1], worst |-> 0]
        /\ \A k \in 1..n : g[k] = Simulation!After(g[k - 1], curve[k])
        /\ \A k \in 0..n : g[k] \in Scans
    BY <1>3, <2>1, ScanDef
  <2> DEFINE S == {k \in Nat : k <= n => Scanned(curve, k, g[k])}
  <2>3. 0 \in S
    <3>1. 1 \in 1..Len(curve)
      BY <2>1, <2>2
    <3> QED
      BY <2>2, <3>1 DEF Scanned
  <2>4. ASSUME NEW k \in Nat, k \in S  PROVE k + 1 \in S
    <3> SUFFICES ASSUME k + 1 <= n  PROVE Scanned(curve, k + 1, g[k + 1])
      OBVIOUS
    <3>1. Scanned(curve, k, g[k]) /\ g[k] \in Scans
      BY <2>2, <2>4
    <3>2. g[k + 1] = Simulation!After(g[k], curve[k + 1])
      <4>1. k + 1 \in 1..n /\ (k + 1) - 1 = k
        BY <2>2
      <4> QED
        BY <2>2, <4>1
    <3> QED
      BY <2>1, <3>1, <3>2, ScanStep
  <2>5. Scanned(curve, n, g[n]) /\ g[n] \in Scans
    <3>1. Nat \subseteq S
      <4> HIDE DEF S
      <4> QED
        BY <2>3, <2>4, SetInduction
    <3> QED
      BY <2>2, <3>1
  <2>6. Simulation!MaxDrawdown(curve) = g[n].worst
    BY <1>3, <2>1 DEF Simulation!MaxDrawdown
  <2>7. /\ \A i \in 1..n : curve[i] \in Nat
        /\ DOMAIN curve = 1..n /\ g[n].worst \in Nat
    BY <2>1, <2>5 DEF Scans
  <2>8. \A x : x \in Simulation!Falls(curve) <=>
                 \E i, j \in 1..n : i < j /\ curve[i] > 0 /\ x = Simulation!Fall(curve[i], curve[j])
    <3> SUFFICES ASSUME NEW x
                 PROVE  x \in Simulation!Falls(curve) <=>
                          \E i, j \in 1..n :
                             i < j /\ curve[i] > 0 /\ x = Simulation!Fall(curve[i], curve[j])
      OBVIOUS
    <3>1. ASSUME x \in Simulation!Falls(curve)
          PROVE  \E i, j \in 1..n :
                    i < j /\ curve[i] > 0 /\ x = Simulation!Fall(curve[i], curve[j])
      <4>1. PICK p \in (1..n) \X (1..n) :
              p[1] < p[2] /\ curve[p[1]] > 0 /\ x = Simulation!Fall(curve[p[1]], curve[p[2]])
        BY <2>7, <3>1 DEF Simulation!Falls
      <4>2. p[1] \in 1..n /\ p[2] \in 1..n
        OBVIOUS
      <4> QED
        BY <4>1, <4>2
    <3>2. ASSUME NEW i \in 1..n, NEW j \in 1..n, i < j, curve[i] > 0,
                 x = Simulation!Fall(curve[i], curve[j])
          PROVE  x \in Simulation!Falls(curve)
      <4>1. PICK p : p = <<i, j>>
        OBVIOUS
      <4>2. p \in (DOMAIN curve) \X (DOMAIN curve) /\ p[1] = i /\ p[2] = j
        BY <2>7, <4>1
      <4> QED
        BY <3>2, <4>2 DEF Simulation!Falls
    <3> QED
      BY <3>1, <3>2
  <2>9. falls \subseteq Int
    <3> SUFFICES ASSUME NEW i \in 1..n, NEW j \in 1..n, curve[i] > 0
                 PROVE  Simulation!Fall(curve[i], curve[j]) \in Int
      BY <2>8
    <3>1. curve[i] \in Nat /\ curve[j] \in Nat
      BY <2>7
    <3> QED
      BY <3>1, FallTyped
  <2>10. g[n].worst \in falls
    <3>1. CASE g[n].worst = 0
      BY <3>1
    <3>2. CASE g[n].worst # 0
      <4>1. PICK i, j \in 1..n :
              i < j /\ curve[i] > 0 /\ g[n].worst = Simulation!Fall(curve[i], curve[j])
        BY <2>1, <2>5, <3>2 DEF Scanned
      <4>2. g[n].worst \in Simulation!Falls(curve)
        BY <2>8, <4>1
      <4> QED
        BY <4>2
    <3> QED
      BY <3>1, <3>2
  <2>11. \A y \in falls : g[n].worst >= y
    <3>1. g[n].worst >= 0
      BY <2>7
    <3>2. ASSUME NEW y \in Simulation!Falls(curve)  PROVE g[n].worst >= y
      <4>1. PICK i, j \in 1..n : i < j /\ curve[i] > 0 /\ y = Simulation!Fall(curve[i], curve[j])
        BY <2>8
      <4>2. Simulation!Fall(curve[i], curve[j]) <= g[n].worst
        BY <2>1, <2>2, <2>5, <4>1 DEF Scanned
      <4>3. y \in Int
        BY <2>9
      <4> QED
        BY <2>7, <4>1, <4>2, <4>3
    <3> QED
      BY <3>1, <3>2
  <2> HIDE DEF falls
  <2>12. Simulation!Max(falls) = g[n].worst
    BY <1>1, <2>9, <2>10, <2>11
  <2> QED
    BY <2>6, <2>12 DEF falls
<1> QED
  BY <1>2, <1>3

-----------------------------------------------------------------------------
(* The books of a backtest *)

Trade == [side : {"BUY", "SELL"}, commission : Int, profit : Int]

\* The earnings add what one trade after the other reports.
LEMMA EarningsDef ==
    ASSUME NEW log, log \in Seq(Trade)
    PROVE  /\ Simulation!Earnings(log)[0] = 0
           /\ \A k \in 1..Len(log) :
                /\ Simulation!Earnings(log)[k]
                     = Simulation!Earnings(log)[k - 1] + Simulation!Reports(log[k])
                /\ Simulation!Reports(log[k]) \in Int
           /\ \A k \in 0..Len(log) : Simulation!Earnings(log)[k] \in Int
<1> DEFINE P(h) == h = [k \in 0..Len(log) |->
                          IF k = 0 THEN 0 ELSE h[k - 1] + Simulation!Reports(log[k])]
<1>1. PICK A, a, n : A = Int /\ a = 0 /\ n = Len(log)
  OBVIOUS
<1>2. PICK step : step = [k \in 1..n |-> [x \in A |-> x + Simulation!Reports(log[k])]]
  OBVIOUS
<1>3. \A k \in 1..n : Simulation!Reports(log[k]) \in Int
  <2> SUFFICES ASSUME NEW k \in 1..n  PROVE Simulation!Reports(log[k]) \in Int
    OBVIOUS
  <2>1. log[k] \in Trade
    BY <1>1
  <2>2. log[k].commission \in Int /\ log[k].profit \in Int
    BY <2>1 DEF Trade
  <2> QED
    BY <2>2 DEF Simulation!Reports
<1>4. a \in A /\ n \in Nat /\ step \in [1..n -> [A -> A]]
  BY <1>1, <1>2, <1>3
<1>5. PICK f : f \in [0..n -> A] /\ f[0] = a /\ \A k \in 1..n : f[k] = step[k][f[k - 1]]
  BY ONLY <1>4, RecursionExists
<1>6. \A k \in 1..n : f[k] = f[k - 1] + Simulation!Reports(log[k])
  <2> SUFFICES ASSUME NEW k \in 1..n  PROVE f[k] = f[k - 1] + Simulation!Reports(log[k])
    OBVIOUS
  <2>1. k - 1 \in 0..n /\ f[k - 1] \in A
    BY <1>4, <1>5
  <2> QED
    BY <1>2, <1>5, <2>1
<1>7. P(f)
  BY <1>1, <1>5, <1>6
<1>8. P(Simulation!Earnings(log))
  <2>1. Simulation!Earnings(log) = CHOOSE h : P(h)
    BY DEF Simulation!Earnings
  <2> HIDE DEF P
  <2> QED
    BY <1>7, <2>1
<1>9. PICK g : g = Simulation!Earnings(log)
  OBVIOUS
<1>10. g[0] = a /\ \A k \in 1..n : g[k] = g[k - 1] + Simulation!Reports(log[k])
  BY <1>1, <1>8, <1>9
<1>11. \A k \in 0..n : f[k] = g[k]
  <2>1. f[0] = g[0]
    BY <1>5, <1>10
  <2>2. \A k \in 1..n : f[k - 1] = g[k - 1] => f[k] = g[k]
    BY <1>6, <1>10
  <2>3. n \in Nat
    BY <1>4
  <2> QED
    BY ONLY <2>1, <2>2, <2>3, RecursionsAgree
<1>12. \A k \in 0..n : g[k] \in Int
  BY <1>1, <1>5, <1>11
<1> QED
  BY <1>1, <1>3, <1>9, <1>10, <1>12

Gain(log) == Simulation!Earnings(log)[Len(log)]

LEMMA GainTyped ==
    ASSUME NEW log, log \in Seq(Trade)
    PROVE  Gain(log) \in Int
<1>1. Len(log) \in 0..Len(log)
  OBVIOUS
<1> QED
  BY <1>1, EarningsDef DEF Gain

\* A trade more adds what it reports.
LEMMA GainGrows ==
    ASSUME NEW log, log \in Seq(Trade), NEW t \in Trade
    PROVE  Gain(Append(log, t)) = Gain(log) + Simulation!Reports(t)
<1>1. PICK log2, n, f, g : /\ log2 = Append(log, t) /\ n = Len(log)
                           /\ f = Simulation!Earnings(log) /\ g = Simulation!Earnings(log2)
  OBVIOUS
<1>2. /\ log2 \in Seq(Trade) /\ Len(log2) = n + 1 /\ n \in Nat /\ log2[n + 1] = t
      /\ \A k \in 1..n : log2[k] = log[k]
  BY <1>1
<1>3. \A k \in 0..n : f[k] = g[k]
  <2>1. f[0] = g[0]
    BY <1>1, <1>2, EarningsDef
  <2>2. \A k \in 1..n : f[k - 1] = g[k - 1] => f[k] = g[k]
    <3> SUFFICES ASSUME NEW k \in 1..n, f[k - 1] = g[k - 1]  PROVE f[k] = g[k]
      OBVIOUS
    <3>1. k \in 1..Len(log2) /\ k \in 1..Len(log) /\ log2[k] = log[k]
      BY <1>1, <1>2
    <3>2. f[k] = f[k - 1] + Simulation!Reports(log[k])
      BY <1>1, <3>1, EarningsDef
    <3>3. g[k] = g[k - 1] + Simulation!Reports(log2[k])
      BY <1>1, <1>2, <3>1, EarningsDef
    <3> QED
      BY <3>1, <3>2, <3>3
  <2>3. n \in Nat
    BY <1>2
  <2> QED
    BY ONLY <2>1, <2>2, <2>3, RecursionsAgree
<1>4. g[n + 1] = g[n] + Simulation!Reports(t)
  <2>1. n + 1 \in 1..Len(log2) /\ (n + 1) - 1 = n
    BY <1>2
  <2>2. g[n + 1] = g[(n + 1) - 1] + Simulation!Reports(log2[n + 1])
    BY <1>1, <1>2, <2>1, EarningsDef
  <2> QED
    BY <1>2, <2>1, <2>2
<1>5. f[n] = g[n]
  BY <1>2, <1>3
<1> QED
  BY <1>1, <1>2, <1>4, <1>5 DEF Gain

LEMMA TestCounts == \A S : Simulation!Cardinality(S) = Cardinality(S)
  BY DEF Simulation!Cardinality, Cardinality

\* The sales and purchases of a log are finitely many, and a sale is one or the other.
LEMMA SalesCounted ==
    ASSUME NEW log, log \in Seq(Trade)
    PROVE  /\ IsFiniteSet(Simulation!Sales(log)) /\ IsFiniteSet(Simulation!Purchases(log))
           /\ Cardinality(Simulation!Sales(log)) \in Nat
           /\ Cardinality(Simulation!Purchases(log)) \in Nat
           /\ Cardinality(Simulation!Sales(log))
                = Cardinality(Simulation!Won(log)) + Cardinality(Simulation!Lost(log))
<1>1. DOMAIN log = 1..Len(log) /\ IsFiniteSet(1..Len(log))
  BY FS_Interval
<1>2. /\ Simulation!Sales(log) \subseteq 1..Len(log)
      /\ Simulation!Purchases(log) \subseteq 1..Len(log)
  BY <1>1 DEF Simulation!Sales, Simulation!Purchases
<1>3. /\ IsFiniteSet(Simulation!Sales(log)) /\ IsFiniteSet(Simulation!Purchases(log))
      /\ Cardinality(Simulation!Sales(log)) \in Nat
      /\ Cardinality(Simulation!Purchases(log)) \in Nat
  BY <1>1, <1>2, FS_Subset, FS_CardinalityType
<1>4. PICK won, lost : won = Simulation!Won(log) /\ lost = Simulation!Lost(log)
  OBVIOUS
<1>5. /\ won \subseteq Simulation!Sales(log) /\ lost \subseteq Simulation!Sales(log)
      /\ won \cup lost = Simulation!Sales(log) /\ won \cap lost = {}
  <2>1. \A i \in Simulation!Sales(log) : log[i].profit \in Int
    <3> SUFFICES ASSUME NEW i \in Simulation!Sales(log)  PROVE log[i].profit \in Int
      OBVIOUS
    <3>1. log[i] \in Trade
      BY <1>2
    <3> QED
      BY <3>1 DEF Trade
  <2> QED
    BY <1>4, <2>1 DEF Simulation!Won, Simulation!Lost
<1>6. IsFiniteSet(won) /\ IsFiniteSet(lost) /\ Cardinality(won) \in Nat /\ Cardinality(lost) \in Nat
  BY <1>3, <1>5, FS_Subset, FS_CardinalityType
<1>7. Cardinality(won \cup lost) = Cardinality(won) + Cardinality(lost) - Cardinality(won \cap lost)
  BY <1>6, FS_Union
<1>8. Cardinality(won \cap lost) = 0
  BY <1>5, FS_EmptySet
<1>9. Cardinality(won \cup lost) = Cardinality(won) + Cardinality(lost)
  BY ONLY <1>6, <1>7, <1>8
<1>10. Simulation!Sales(log) = won \cup lost
  BY <1>5
<1> QED
  BY <1>3, <1>4, <1>9, <1>10

\* A trade more is a sale or a purchase more.
LEMMA TradeCounted ==
    ASSUME NEW log, log \in Seq(Trade), NEW t \in Trade
    PROVE  LET log2 == Append(log, t)
           IN  /\ t.side = "SELL" =>
                    /\ Cardinality(Simulation!Sales(log2)) = Cardinality(Simulation!Sales(log)) + 1
                    /\ Cardinality(Simulation!Purchases(log2)) = Cardinality(Simulation!Purchases(log))
               /\ t.side = "BUY" =>
                    /\ Cardinality(Simulation!Sales(log2)) = Cardinality(Simulation!Sales(log))
                    /\ Cardinality(Simulation!Purchases(log2)) = Cardinality(Simulation!Purchases(log)) + 1
<1>1. PICK log2, n : log2 = Append(log, t) /\ n = Len(log)
  OBVIOUS
<1>2. /\ n \in Nat /\ DOMAIN log = 1..n /\ DOMAIN log2 = 1..(n + 1) /\ log2[n + 1] = t
      /\ \A k \in 1..n : log2[k] = log[k]
      /\ n + 1 \notin 1..n /\ 1..(n + 1) = (1..n) \cup {n + 1}
  BY <1>1
<1>3. t.side = "SELL" => /\ Simulation!Sales(log2) = Simulation!Sales(log) \cup {n + 1}
                         /\ Simulation!Purchases(log2) = Simulation!Purchases(log)
  BY <1>2 DEF Simulation!Sales, Simulation!Purchases
<1>4. t.side = "BUY" => /\ Simulation!Sales(log2) = Simulation!Sales(log)
                        /\ Simulation!Purchases(log2) = Simulation!Purchases(log) \cup {n + 1}
  BY <1>2 DEF Simulation!Sales, Simulation!Purchases
<1>5. n + 1 \notin Simulation!Sales(log) /\ n + 1 \notin Simulation!Purchases(log)
  BY <1>2 DEF Simulation!Sales, Simulation!Purchases
<1>6. /\ Cardinality(Simulation!Sales(log) \cup {n + 1}) = Cardinality(Simulation!Sales(log)) + 1
      /\ Cardinality(Simulation!Purchases(log) \cup {n + 1})
           = Cardinality(Simulation!Purchases(log)) + 1
  BY <1>5, SalesCounted, FS_AddElement
<1> QED
  BY <1>1, <1>3, <1>4, <1>6

\* The types of money, position, log and curve.
TestTypes ==
    /\ length \in Nat /\ date \in Nat /\ close \in Nat /\ money \in Nat
    /\ stake \in [quantity : Nat, price : Nat]
    /\ trades \in Seq(Trade) /\ equity \in Seq(Nat)

\* The account: what the capital earned is money or is tied up in the position; a purchase
\* without a sale is the position; the curve has a value for each day, and the last is the
\* money when nothing is held.
BooksInv ==
    /\ money + stake.quantity * stake.price * 10 = Capital + Gain(trades)
    /\ Cardinality(Simulation!Purchases(trades))
         = Cardinality(Simulation!Sales(trades)) + IF stake.quantity > 0 THEN 1 ELSE 0
    /\ IF date = 0 THEN equity = <<>> ELSE date = MinWindow + Len(equity)
    /\ stake.quantity = 0 /\ equity # <<>> => equity[Len(equity)] = money

TestInv == TestTypes /\ ReportIsRight /\ (result = Simulation!Running => BooksInv)

\* Nothing is claimed of a report that is not made.
LEMMA NoReportYet ==
    ASSUME money \in Nat, result.state # "reported"
    PROVE  ReportIsRight
BY DEF ReportIsRight, Simulation!BooksBalance, Simulation!DrawdownIsWorstFall, Simulation!Reported

\* A sale turns the position into money and reports the difference.
LEMMA SaleBooked ==
    ASSUME TestTypes, BooksInv, Simulation!Held, Simulation!Sold
    PROVE  /\ money' \in Nat /\ trades' \in Seq(Trade)
           /\ stake' \in [quantity : Nat, price : Nat] /\ stake'.quantity = 0
           /\ money' = Capital + Gain(trades')
           /\ Cardinality(Simulation!Purchases(trades')) = Cardinality(Simulation!Sales(trades'))
<1> DEFINE fee == Simulation!CommissionOn(Simulation!SellPrice, stake.quantity)
           t == [side |-> "SELL", commission |-> fee,
                 profit |-> (Simulation!SellPrice - stake.price) * stake.quantity * 10 - fee]
<1>1. PICK q, p, sp, c, m, g :
        /\ q = stake.quantity /\ p = stake.price /\ sp = Simulation!SellPrice /\ c = Commission
        /\ m = money /\ g = Gain(trades)
  OBVIOUS
<1>2. q \in Nat /\ p \in Nat /\ c \in 0..10 /\ m \in Nat /\ g \in Int /\ Capital \in Nat
  BY <1>1, GainTyped, SimulationAssumption DEF TestTypes
<1>3. sp \in Nat
  <2>1. sp = close * (10 - Slippage) /\ close \in Nat /\ 10 - Slippage \in Nat
    BY <1>1, SimulationAssumption DEF Simulation!SellPrice, TestTypes
  <2> QED
    BY <2>1
<1>4. fee = sp * q * c
  BY <1>1 DEF Simulation!CommissionOn
<1>5. /\ money' = m + sp * q * 10 - fee /\ stake' = [quantity |-> 0, price |-> 0]
      /\ trades' = Append(trades, t)
  BY <1>1 DEF Simulation!Sold, Simulation!None
<1>6. t.side = "SELL" /\ t.profit = (sp - p) * q * 10 - fee
  BY <1>1
<1>7. fee \in Int /\ t \in Trade
  <2>1. fee \in Int /\ (sp - p) * q * 10 - fee \in Int
    BY <1>2, <1>3, <1>4
  <2> HIDE DEF fee
  <2> QED
    BY <1>1, <2>1 DEF Trade
<1> HIDE DEF fee, t
<1>8. money' \in Nat
  <2>1. PICK a : a = sp * q
    OBVIOUS
  <2>2. a \in Nat
    BY <1>2, <1>3, <2>1
  <2>3. a * (10 - c) \in Nat
    BY <1>2, <2>2
  <2>4. money' = m + a * 10 - a * c
    BY <1>4, <1>5, <2>1
  <2> QED
    BY <1>2, <2>2, <2>3, <2>4
<1>9. Gain(trades') = g + ((sp - p) * q * 10 - fee)
  <2>1. Simulation!Reports(t) = (sp - p) * q * 10 - fee
    BY <1>6 DEF Simulation!Reports
  <2> QED
    BY <1>1, <1>5, <1>7, <2>1, GainGrows DEF TestTypes
<1>10. m + q * p * 10 = Capital + g
  BY <1>1 DEF BooksInv
<1>11. money' = Capital + Gain(trades')
  <2>1. (sp - p) * q * 10 = sp * q * 10 - q * p * 10
    BY <1>2, <1>3
  <2>2. q * p * 10 \in Int /\ sp * q * 10 \in Int
    BY <1>2, <1>3
  <2>3. PICK sold, tied : sold = sp * q * 10 /\ tied = q * p * 10
    OBVIOUS
  <2>4. PICK gain : gain = Gain(trades')
    OBVIOUS
  <2>5. sold \in Int /\ tied \in Int /\ fee \in Int /\ m \in Int /\ g \in Int /\ Capital \in Int
    BY <1>2, <1>7, <2>2, <2>3
  <2>6. money' = m + sold - fee /\ gain = g + (sold - tied - fee) /\ m + tied = Capital + g
    BY <1>5, <1>9, <1>10, <2>1, <2>3, <2>4
  <2>7. m + sold - fee = Capital + (g + (sold - tied - fee))
    BY ONLY <2>5, <2>6
  <2> QED
    BY <2>4, <2>6, <2>7
<1>12. Cardinality(Simulation!Purchases(trades')) = Cardinality(Simulation!Sales(trades'))
  <2>1. Cardinality(Simulation!Purchases(trades)) = Cardinality(Simulation!Sales(trades)) + 1
    BY DEF BooksInv, Simulation!Held
  <2> QED
    BY <1>5, <1>6, <1>7, <2>1, TradeCounted DEF TestTypes
<1> QED
  BY <1>5, <1>7, <1>8, <1>11, <1>12 DEF TestTypes

\* What is bought can be paid for.
LEMMA PurchaseFits ==
    ASSUME TestTypes, close > 0, Simulation!Quantity > 0
    PROVE  /\ Simulation!Quantity \in Nat /\ Simulation!BuyPrice \in Nat
           /\ Simulation!Cost(Simulation!Quantity) <= money
<1>1. close \in Nat /\ close > 0 /\ 10 + Slippage \in Nat /\ 10 + Slippage > 0
  BY SimulationAssumption DEF TestTypes
<1>2. Simulation!BuyPrice \in Nat /\ Simulation!BuyPrice > 0
  BY <1>1 DEF Simulation!BuyPrice
<1>3. Simulation!Wanted \in Int
  <2>1. money * Ratio \in Int /\ 100 * Simulation!BuyPrice \in Nat \ {0}
    BY <1>2, SimulationAssumption DEF TestTypes
  <2> QED
    BY <2>1, Divided DEF Simulation!Wanted
<1>4. \/ Simulation!Quantity = Simulation!Wanted /\ Simulation!Cost(Simulation!Wanted) <= money
      \/ /\ Simulation!Quantity = Simulation!Wanted - 1
         /\ Simulation!Cost(Simulation!Wanted - 1) <= money
      \/ Simulation!Quantity = 0
  BY DEF Simulation!Quantity
<1>5. /\ Simulation!Quantity \in Int
      /\ Simulation!Cost(Simulation!Quantity) <= money
  BY <1>3, <1>4
<1> QED
  BY <1>2, <1>5

\* A purchase ties money up and costs its commission.
LEMMA PurchaseBooked ==
    ASSUME TestTypes, BooksInv, Simulation!BuyDay
    PROVE  /\ money' \in Nat /\ trades' \in Seq(Trade)
           /\ stake' \in [quantity : Nat, price : Nat] /\ stake'.quantity > 0
           /\ money' + stake'.quantity * stake'.price * 10 = Capital + Gain(trades')
           /\ Cardinality(Simulation!Purchases(trades'))
                = Cardinality(Simulation!Sales(trades')) + 1
<1> DEFINE fee == Simulation!CommissionOn(Simulation!BuyPrice, Simulation!Quantity)
           t == [side |-> "BUY", profit |-> 0, commission |-> fee]
<1>1. PICK q, bp, c, m, g :
        /\ q = Simulation!Quantity /\ bp = Simulation!BuyPrice /\ c = Commission
        /\ m = money /\ g = Gain(trades)
  OBVIOUS
<1>2. close > 0 /\ Simulation!Quantity > 0 /\ ~Simulation!Held
  BY DEF Simulation!BuyDay
<1>3. q \in Nat /\ q > 0 /\ bp \in Nat /\ Simulation!Cost(q) <= m
  BY <1>1, <1>2, PurchaseFits
<1>4. c \in 0..10 /\ m \in Nat /\ g \in Int /\ Capital \in Nat
  BY <1>1, GainTyped, SimulationAssumption DEF TestTypes
<1>5. fee = bp * q * c /\ Simulation!Cost(q) = bp * q * 10 + fee
  BY <1>1 DEF Simulation!CommissionOn, Simulation!Cost
<1>6. /\ money' = m - Simulation!Cost(q) /\ stake' = [quantity |-> q, price |-> bp]
      /\ trades' = Append(trades, t)
  BY <1>1 DEF Simulation!BuyDay
<1>7. fee \in Int /\ t \in Trade
  <2>1. fee \in Int
    BY <1>3, <1>4, <1>5
  <2> HIDE DEF fee
  <2> QED
    BY <2>1 DEF Trade
<1>8. t.side = "BUY" /\ Simulation!Reports(t) = -fee
  BY DEF Simulation!Reports
<1> HIDE DEF fee, t
<1>9. bp * q * 10 \in Int /\ bp * q * 10 = q * bp * 10
  BY <1>3
<1>10. money' \in Nat
  BY <1>3, <1>4, <1>5, <1>6, <1>7, <1>9
<1>11. Gain(trades') = g - fee
  <2>1. Gain(trades') = g + Simulation!Reports(t)
    BY <1>1, <1>6, <1>7, GainGrows DEF TestTypes
  <2> QED
    BY <1>4, <1>7, <1>8, <2>1
<1>12. stake.quantity = 0
  BY <1>2 DEF Simulation!Held, TestTypes
<1>13. m = Capital + g
  <2>1. m + 0 * stake.price * 10 = Capital + g
    BY <1>1, <1>12 DEF BooksInv
  <2>2. stake.price \in Nat
    BY DEF TestTypes
  <2> QED
    BY <1>4, <2>1, <2>2
<1>14. money' + q * bp * 10 = Capital + Gain(trades')
  BY <1>4, <1>5, <1>6, <1>7, <1>9, <1>11, <1>13
<1>15. Cardinality(Simulation!Purchases(trades')) = Cardinality(Simulation!Sales(trades')) + 1
  <2>1. Cardinality(Simulation!Purchases(trades)) = Cardinality(Simulation!Sales(trades))
    <3>1. Cardinality(Simulation!Sales(trades)) \in Nat
      BY SalesCounted DEF TestTypes
    <3> QED
      BY <1>12, <3>1 DEF BooksInv
  <2> QED
    BY <1>6, <1>7, <1>8, <2>1, TradeCounted DEF TestTypes
<1> QED
  BY <1>3, <1>6, <1>7, <1>10, <1>14, <1>15 DEF TestTypes

LEMMA OneMoreValue ==
    ASSUME NEW e, e \in Seq(Nat), NEW v \in Nat
    PROVE  /\ Append(e, v) \in Seq(Nat) /\ Len(Append(e, v)) = Len(e) + 1
           /\ Append(e, v)[Len(Append(e, v))] = v /\ Append(e, v) # <<>>
<1>1. Append(e, v) \in Seq(Nat) /\ Len(Append(e, v)) = Len(e) + 1 /\ Len(e) \in Nat
  OBVIOUS
<1>2. Append(e, v)[Len(e) + 1] = v
  OBVIOUS
<1>3. Append(e, v) # <<>>
  BY <1>1
<1> QED
  BY <1>1, <1>2, <1>3

\* Whatever was traded, the day ends with a value of the curve.
LEMMA DayBooked ==
    ASSUME TestInv, Simulation!InRange, Simulation!DayEnds,
           money' \in Nat, trades' \in Seq(Trade), stake' \in [quantity : Nat, price : Nat],
           money' + stake'.quantity * stake'.price * 10 = Capital + Gain(trades'),
           Cardinality(Simulation!Purchases(trades'))
             = Cardinality(Simulation!Sales(trades')) + IF stake'.quantity > 0 THEN 1 ELSE 0
    PROVE  TestInv'
<1>1. TestTypes /\ BooksInv /\ date > 0 /\ result = Simulation!Running
  BY DEF TestInv, Simulation!InRange
<1>2. PICK value : /\ value = Simulation!Value(money', stake', close)
                   /\ equity' = Append(equity, value)
  BY DEF Simulation!DayEnds
<1>3. date' = date + 1 /\ result' = result /\ length' = length
  BY DEF Simulation!DayEnds
<1>4. value \in Nat /\ (stake'.quantity = 0 => value = money')
  <2>1. close \in Nat /\ stake'.quantity \in Nat
    BY <1>1 DEF TestTypes
  <2>2. value = money' + stake'.quantity * close * 100
    BY <1>2 DEF Simulation!Value
  <2>3. stake'.quantity * close * 100 \in Nat
    BY <2>1
  <2>4. stake'.quantity = 0 => stake'.quantity * close * 100 = 0
    BY <2>1
  <2> QED
    BY <2>2, <2>3, <2>4
<1>5. close' \in Nat
  BY <1>1, SimulationAssumption DEF Simulation!DayEnds, TestTypes
<1>6. /\ equity \in Seq(Nat) /\ equity' \in Seq(Nat) /\ Len(equity') = Len(equity) + 1
      /\ equity'[Len(equity')] = value /\ equity' # <<>>
  <2>1. equity \in Seq(Nat)
    BY <1>1 DEF TestTypes
  <2> QED
    BY <1>2, <1>4, <2>1, OneMoreValue
<1>7. TestTypes'
  BY <1>1, <1>3, <1>5, <1>6 DEF TestTypes
<1>8. date' # 0 /\ date' = MinWindow + Len(equity')
  <2>1. date \in Nat /\ date # 0 /\ Len(equity) \in Nat /\ MinWindow \in Nat
    BY <1>1, SimulationAssumption DEF TestTypes
  <2>2. date = MinWindow + Len(equity)
    BY <1>1, <2>1 DEF BooksInv
  <2> QED
    BY <1>3, <1>6, <2>1, <2>2
<1>9. BooksInv'
  BY <1>4, <1>6, <1>8 DEF BooksInv
<1>10. result'.state # "reported"
  BY <1>1, <1>3 DEF Simulation!Running
<1>11. ReportIsRight'
  BY <1>10 DEF ReportIsRight, Simulation!BooksBalance, Simulation!DrawdownIsWorstFall,
              Simulation!Reported
<1> QED
  BY <1>7, <1>9, <1>11 DEF TestInv

\* The report of a run is right when it is made.
LEMMA FinishKeeps ==
    ASSUME TestInv, Simulation!Finish
    PROVE  TestInv'
<1>1. /\ TestTypes /\ BooksInv /\ date > 0 /\ date >= length
      /\ UNCHANGED <<length, date, close>>
      /\ result' = IF length > MinWindow THEN Simulation!Report(trades', equity', money')
                   ELSE Simulation!Raised("IndexError")
  BY DEF TestInv, Simulation!Finish
<1>2. /\ money' \in Nat /\ trades' \in Seq(Trade) /\ stake' \in [quantity : Nat, price : Nat]
      /\ money' = Capital + Gain(trades')
      /\ Cardinality(Simulation!Purchases(trades')) = Cardinality(Simulation!Sales(trades'))
  <2>1. CASE Simulation!Held
    BY <1>1, <2>1, SaleBooked DEF Simulation!Finish
  <2>2. CASE ~Simulation!Held
    <3>1. UNCHANGED <<money, stake, trades>>
      BY <2>2 DEF Simulation!Finish
    <3>2. stake.quantity = 0 /\ stake.price \in Nat /\ money \in Nat
      BY <1>1, <2>2 DEF Simulation!Held, TestTypes
    <3>3. money + 0 * stake.price * 10 = Capital + Gain(trades)
      BY <1>1, <3>2 DEF BooksInv
    <3>4. money = Capital + Gain(trades)
      BY <3>2, <3>3
    <3>5. Cardinality(Simulation!Sales(trades)) \in Nat
      BY <1>1, SalesCounted DEF TestTypes
    <3>6. Cardinality(Simulation!Purchases(trades)) = Cardinality(Simulation!Sales(trades))
      BY <1>1, <3>2, <3>5 DEF BooksInv
    <3> QED
      BY <1>1, <3>1, <3>4, <3>6 DEF TestTypes
  <2> QED
    BY <2>1, <2>2
<1>3. /\ equity' \in Seq(Nat) /\ (equity = <<>> <=> equity' = <<>>)
      /\ equity # <<>> => equity'[Len(equity')] = money'
  <2>1. PICK e, n, v : e = equity /\ n = Len(e) /\ v = money'
    OBVIOUS
  <2>2. e \in Seq(Nat) /\ n \in Nat /\ v \in Nat
    BY <1>1, <1>2, <2>1 DEF TestTypes
  <2>3. CASE Simulation!Held
    <3>1. equity' = IF e = <<>> THEN e ELSE [e EXCEPT ![n] = v]
      BY <2>1, <2>3 DEF Simulation!Finish
    <3>2. e # <<>> => /\ [e EXCEPT ![n] = v] \in Seq(Nat)
                      /\ Len([e EXCEPT ![n] = v]) = n
                      /\ [e EXCEPT ![n] = v][n] = v
                      /\ [e EXCEPT ![n] = v] # <<>>
      BY <2>1, <2>2
    <3> QED
      BY <2>1, <2>2, <3>1, <3>2
  <2>4. CASE ~Simulation!Held
    <3>1. UNCHANGED <<money, equity>>
      BY <2>4 DEF Simulation!Finish
    <3>2. stake.quantity = 0
      BY <1>1, <2>4 DEF Simulation!Held, TestTypes
    <3> QED
      BY <1>1, <2>1, <2>2, <3>1, <3>2 DEF BooksInv
  <2> QED
    BY <2>3, <2>4
<1>4. TestTypes'
  BY <1>1, <1>2, <1>3 DEF TestTypes
<1>5. CASE length > MinWindow
  <2>1. result' = Simulation!Report(trades', equity', money')
    BY <1>1, <1>5
  <2>2. /\ result'.state = "reported" /\ result'.final = money'
        /\ result'.drawdown = Simulation!MaxDrawdown(equity')
        /\ result'.wins = Cardinality(Simulation!Won(trades'))
        /\ result'.losses = Cardinality(Simulation!Lost(trades'))
    BY <2>1, TestCounts DEF Simulation!Report
  <2>3. equity # <<>>
    <3> SUFFICES ASSUME equity = <<>>  PROVE FALSE
      OBVIOUS
    <3>1. date = MinWindow
      BY <1>1, SimulationAssumption DEF BooksInv, TestTypes
    <3> QED
      BY <1>1, <1>5, <3>1 DEF TestTypes
  <2>4. /\ (money >= 0)'
        /\ result'.final - Capital = Gain(trades')
        /\ Cardinality(Simulation!Purchases(trades')) = result'.wins + result'.losses
        /\ equity'[Len(equity')] = result'.final
    <3>1. Gain(trades') \in Int /\ Capital \in Int
      BY <1>2, GainTyped, SimulationAssumption
    <3>2. Cardinality(Simulation!Sales(trades')) = result'.wins + result'.losses
      BY <1>2, <2>2, SalesCounted
    <3> QED
      BY <1>2, <1>3, <2>2, <2>3, <3>1, <3>2
  <2>5. result'.drawdown = Simulation!Max({0} \cup Simulation!Falls(equity'))
    BY <1>3, <2>2, WorstFall
  <2>6. ReportIsRight'
    BY <2>4, <2>5, TestCounts DEF ReportIsRight, Simulation!BooksBalance,
                                  Simulation!DrawdownIsWorstFall, Gain
  <2>7. result' # Simulation!Running
    BY <2>2 DEF Simulation!Running
  <2> QED
    BY <1>4, <2>6, <2>7 DEF TestInv
<1>6. CASE ~(length > MinWindow)
  <2>1. result' = Simulation!Raised("IndexError")
    BY <1>1, <1>6
  <2>2. result'.state = "IndexError"
    BY <2>1 DEF Simulation!Raised, Simulation!Running
  <2>3. result' # Simulation!Running
    BY <2>2 DEF Simulation!Running
  <2>4. ReportIsRight'
    BY <1>2, <2>2 DEF ReportIsRight, Simulation!BooksBalance, Simulation!DrawdownIsWorstFall,
                      Simulation!Reported
  <2> QED
    BY <1>4, <2>3, <2>4 DEF TestInv
<1> QED
  BY <1>5, <1>6

LEMMA TestStep == TestInv /\ [Simulation!Next]_(Simulation!backtestVars) => TestInv'
<1> SUFFICES ASSUME TestInv, [Simulation!Next]_(Simulation!backtestVars)  PROVE TestInv'
  OBVIOUS
<1>1. CASE Simulation!TooShort
  <2>1. /\ result' = Simulation!Raised("ValueError")
        /\ UNCHANGED <<length, date, close, money, stake, trades, equity>>
    BY <1>1 DEF Simulation!TooShort
  <2>2. result'.state = "ValueError"
    BY <2>1 DEF Simulation!Raised, Simulation!Running
  <2>3. result' # Simulation!Running
    BY <2>2 DEF Simulation!Running
  <2>4. TestTypes'
    BY <2>1 DEF TestInv, TestTypes
  <2>5. ReportIsRight'
    BY <2>2, <2>4 DEF ReportIsRight, Simulation!BooksBalance, Simulation!DrawdownIsWorstFall,
                      Simulation!Reported, TestTypes
  <2> QED
    BY <2>3, <2>4, <2>5 DEF TestInv
<1>2. CASE Simulation!Loaded
  <2>1. /\ result = Simulation!Running /\ date = 0 /\ date' = MinWindow /\ close' \in Nat
        /\ UNCHANGED <<length, money, stake, trades, equity, result>>
    BY <1>2, SimulationAssumption DEF Simulation!Loaded
  <2>2. TestTypes /\ BooksInv
    BY <2>1 DEF TestInv
  <2>3. TestTypes'
    BY <2>1, <2>2, SimulationAssumption DEF TestTypes
  <2>4. equity' = <<>> /\ date' = MinWindow + 0 /\ Len(equity') = 0 /\ date' # 0
    BY <2>1, <2>2, SimulationAssumption DEF BooksInv
  <2>5. BooksInv'
    BY <2>1, <2>2, <2>4 DEF BooksInv
  <2>6. result'.state # "reported"
    BY <2>1 DEF Simulation!Running
  <2>7. ReportIsRight'
    BY <2>3, <2>6 DEF ReportIsRight, Simulation!BooksBalance, Simulation!DrawdownIsWorstFall,
                      Simulation!Reported, TestTypes
  <2> QED
    BY <2>3, <2>5, <2>7 DEF TestInv
<1>3. CASE Simulation!SellDay
  <2>1. /\ Simulation!InRange /\ Simulation!DayEnds /\ Simulation!Held /\ Simulation!Sold
        /\ TestTypes /\ BooksInv
    BY <1>3 DEF Simulation!SellDay, Simulation!InRange, TestInv
  <2>2. /\ money' \in Nat /\ trades' \in Seq(Trade)
        /\ stake' \in [quantity : Nat, price : Nat] /\ stake'.quantity = 0
        /\ money' = Capital + Gain(trades')
        /\ Cardinality(Simulation!Purchases(trades')) = Cardinality(Simulation!Sales(trades'))
    BY <2>1, SaleBooked
  <2>3. money' + stake'.quantity * stake'.price * 10 = Capital + Gain(trades')
    <3>1. stake'.price \in Nat
      BY <2>2
    <3>2. 0 * stake'.price * 10 = 0
      BY <3>1
    <3> QED
      BY <2>2, <3>2
  <2>4. Cardinality(Simulation!Purchases(trades'))
          = Cardinality(Simulation!Sales(trades')) + IF stake'.quantity > 0 THEN 1 ELSE 0
    <3>1. Cardinality(Simulation!Sales(trades')) \in Nat
      BY <2>2, SalesCounted
    <3> QED
      BY <2>2, <3>1
  <2> QED
    BY <2>1, <2>2, <2>3, <2>4, DayBooked
<1>4. CASE Simulation!BuyDay
  <2>1. Simulation!InRange /\ Simulation!DayEnds /\ TestTypes /\ BooksInv
    BY <1>4 DEF Simulation!BuyDay, Simulation!InRange, TestInv
  <2>2. /\ money' \in Nat /\ trades' \in Seq(Trade)
        /\ stake' \in [quantity : Nat, price : Nat] /\ stake'.quantity > 0
        /\ money' + stake'.quantity * stake'.price * 10 = Capital + Gain(trades')
        /\ Cardinality(Simulation!Purchases(trades'))
             = Cardinality(Simulation!Sales(trades')) + 1
    BY <1>4, <2>1, PurchaseBooked
  <2>3. Cardinality(Simulation!Purchases(trades'))
          = Cardinality(Simulation!Sales(trades')) + IF stake'.quantity > 0 THEN 1 ELSE 0
    BY <2>2
  <2> QED
    BY <2>1, <2>2, <2>3, DayBooked
<1>5. CASE Simulation!QuietDay
  <2>1. /\ Simulation!InRange /\ Simulation!DayEnds /\ UNCHANGED <<money, stake, trades>>
        /\ TestTypes /\ BooksInv
    BY <1>5 DEF Simulation!QuietDay, Simulation!InRange, TestInv
  <2>2. /\ money' \in Nat /\ trades' \in Seq(Trade)
        /\ stake' \in [quantity : Nat, price : Nat]
        /\ money' + stake'.quantity * stake'.price * 10 = Capital + Gain(trades')
        /\ Cardinality(Simulation!Purchases(trades'))
             = Cardinality(Simulation!Sales(trades')) + IF stake'.quantity > 0 THEN 1 ELSE 0
    BY <2>1 DEF TestTypes, BooksInv
  <2> QED
    BY <2>1, <2>2, DayBooked
<1>6. CASE Simulation!Finish
  BY <1>6, FinishKeeps
<1>7. CASE UNCHANGED Simulation!backtestVars
  <2>1. UNCHANGED <<length, date, close, money, stake, trades, equity, result>>
    BY <1>7 DEF Simulation!backtestVars
  <2>2. TestTypes' /\ (result' = Simulation!Running => BooksInv')
    BY <2>1 DEF TestInv, TestTypes, BooksInv
  <2>3. ReportIsRight'
    BY <2>1 DEF TestInv, ReportIsRight, Simulation!BooksBalance, Simulation!DrawdownIsWorstFall,
                Simulation!Reported
  <2> QED
    BY <2>2, <2>3 DEF TestInv
<1> QED
  BY <1>1, <1>2, <1>3, <1>4, <1>5, <1>6, <1>7 DEF Simulation!Next

\* The report of a backtest (src/backtest/report.py) is right: whatever the closes, rates and
\* lengths, and whenever the strategy trades, the capital has gained what the trades report,
\* every purchase was sold, money never went below nothing, and the drawdown that one pass
\* finds is the worst fall between any two days.
THEOREM ReportsAreRight == Simulation!Spec => []ReportIsRight
<1>1. Simulation!Init => TestInv
  <2> SUFFICES ASSUME Simulation!Init  PROVE TestInv
    OBVIOUS
  <2>1. /\ length \in 1..MaxRows /\ date = 0 /\ close = 0 /\ money = Capital /\ stake = [quantity |-> 0, price |-> 0]
        /\ trades = <<>> /\ equity = <<>> /\ result = Simulation!Running
    BY DEF Simulation!Init, Simulation!None
  <2>2. TestTypes
    BY <2>1, SimulationAssumption DEF TestTypes
  <2>3. Gain(trades) = 0
    <3>1. trades \in Seq(Trade) /\ Len(trades) = 0
      BY <2>1
    <3> QED
      BY <3>1, EarningsDef DEF Gain
  <2>4. Simulation!Purchases(trades) = {} /\ Simulation!Sales(trades) = {}
    BY <2>1 DEF Simulation!Purchases, Simulation!Sales
  <2>5. BooksInv
    <3>1. /\ Cardinality(Simulation!Purchases(trades)) = 0
          /\ Cardinality(Simulation!Sales(trades)) = 0
      BY <2>4, FS_EmptySet
    <3>2. stake.quantity = 0 /\ stake.price = 0 /\ Capital \in Nat
      BY <2>1, SimulationAssumption
    <3>3. money + stake.quantity * stake.price * 10 = Capital + Gain(trades)
      BY <2>1, <2>3, <3>2
    <3> QED
      BY <2>1, <3>1, <3>2, <3>3 DEF BooksInv
  <2>6. ReportIsRight
    BY <2>1, <2>2, NoReportYet DEF TestTypes, Simulation!Running
  <2> QED
    BY <2>2, <2>5, <2>6 DEF TestInv
<1>2. TestInv => ReportIsRight
  BY DEF TestInv
<1> QED
  BY <1>1, <1>2, TestStep, PTL DEF Simulation!Spec
=============================================================================
