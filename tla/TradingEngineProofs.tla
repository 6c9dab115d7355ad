------------------------- MODULE TradingEngineProofs -------------------------
(***************************************************************************)
(* Theorems about TradingEngine for any number of stocks, polls, orders    *)
(* and crashes, any timeout and limits, and under every fault.             *)
(***************************************************************************)
EXTENDS TradingEngine, Recursion, FiniteSetTheorems, TLAPS

\* A record with the fields of an order whose age is in range.
IsOrder(o) ==
    /\ o = [no |-> o.no, side |-> o.side, before |-> o.before, age |-> o.age]
    /\ o.age \in 0..OrderTimeout

Fresh(c) == pending[c] # NoOrder => pending[c].age < OrderTimeout

\* An order over its timeout is in the book only where the sweep of its cycle
\* has still to visit it, or when no cycle is under way.
TrackingInv ==
    /\ todo \subseteq Stocks
    /\ pending = [c \in Stocks |-> pending[c]]
    /\ \A c \in Stocks : IsOrder(pending[c])
    /\ pc \in {"balance", "stocks", "confirm"} => \A c \in Stocks : Fresh(c)
    /\ pc \in {"sweep", "cancel"} /\ job = "cycle" => \A c \in Stocks \ todo : Fresh(c)
    /\ pc \in {"cancel", "confirm"} => cur \in Stocks
    /\ pc = "confirm" => pending[cur] = NoOrder
    /\ IsOrder(op) /\ op.age = 0

LEMMA NoOrderIsOrder == IsOrder(NoOrder) /\ NoOrder.age = 0
BY EngineAssumption DEF IsOrder, NoOrder

LEMMA TrackingInit == Init => TrackingInv
BY NoOrderIsOrder DEF Init, TrackingInv

\* The ages after the head of a cycle: what is not stale is fresh.
LEMMA AgedTracked ==
    ASSUME TrackingInv
    PROVE  /\ AgedOrders = [c \in Stocks |-> AgedOrders[c]]
           /\ \A c \in Stocks : IsOrder(AgedOrders[c])
           /\ \A c \in Stocks \ Stale :
                AgedOrders[c] # NoOrder => AgedOrders[c].age < OrderTimeout
           /\ Stale \subseteq Stocks
<1>1. ASSUME NEW o, IsOrder(o)  PROVE IsOrder(Aged(o))
  BY <1>1, EngineAssumption DEF Aged, IsOrder
<1>2. \A c \in Stocks : IsOrder(AgedOrders[c])
  BY <1>1 DEF TrackingInv, AgedOrders
<1>3. \A c \in Stocks \ Stale :
        AgedOrders[c] # NoOrder => AgedOrders[c].age < OrderTimeout
  <2> SUFFICES ASSUME NEW c \in Stocks, c \notin Stale, AgedOrders[c] # NoOrder
               PROVE  AgedOrders[c].age < OrderTimeout
    OBVIOUS
  <2>1. AgedOrders[c].age \in 0..OrderTimeout
    BY <1>2 DEF IsOrder
  <2>2. ~(AgedOrders[c].age >= OrderTimeout)
    BY DEF Stale
  <2> QED
    BY <2>1, <2>2, EngineAssumption
<1> QED
  BY <1>2, <1>3 DEF AgedOrders, Stale

\* A step that leaves the loop's state and the book alone.
LEMMA Bystander ==
    ASSUME TrackingInv, UNCHANGED <<pc, job, todo, cur, op, pending>>
    PROVE  TrackingInv'
BY DEF TrackingInv, Fresh

\* The loop over the targets goes on, or the cycle returns.
LEMMA AdvanceTracked ==
    ASSUME TrackingInv, NEW c \in Stocks, pc \in {"stocks", "confirm"}, Advance(c),
           UNCHANGED pending, op' = op \/ op' = NoOrder
    PROVE  TrackingInv'
BY NoOrderIsOrder DEF TrackingInv, Fresh, Advance, CycleReturns

LEMMA ReturnTracked ==
    ASSUME TrackingInv, CycleReturns, UNCHANGED <<pending, op>>
    PROVE  TrackingInv'
BY DEF TrackingInv, Fresh, CycleReturns

\* A process that starts, or a day that begins, has an empty book.
LEMMA ResetTracked ==
    ASSUME MemoryReset
    PROVE  TrackingInv'
BY NoOrderIsOrder DEF MemoryReset, TrackingInv, Fresh

LEMMA TrackingStep == TrackingInv /\ [Next]_vars => TrackingInv'
<1> SUFFICES ASSUME TrackingInv, [Next]_vars  PROVE TrackingInv'
  OBVIOUS
\* The head of a cycle.
<1>1. CASE CycleFrozen \/ CycleBreakerOpen
  BY <1>1, AgedTracked DEF CycleFrozen, CycleBreakerOpen, TrackingInv, loopVars
<1>2. CASE CycleBegin
  <2>1. pending' = AgedOrders /\ UNCHANGED <<cur, op>> /\ pc = "idle"
    BY <1>2 DEF CycleBegin
  <2>2. UNCHANGED <<pc, job, todo>> \/ (pc' = "sweep" /\ job' = "cycle" /\ todo' = Stale)
    BY <1>2 DEF CycleBegin
  <2> QED
    BY <2>1, <2>2, AgedTracked DEF TrackingInv, Fresh
\* The sweep.
<1>3. ASSUME NEW c \in Stocks, SweepReconciles(c)  PROVE TrackingInv'
  <2>1. /\ pc = "sweep" /\ todo' = todo \ {c}
        /\ pending' = [pending EXCEPT ![c] = NoOrder]
        /\ UNCHANGED <<pc, job, cur, op>>
    BY <1>3 DEF SweepReconciles
  <2> QED
    BY <2>1, NoOrderIsOrder DEF TrackingInv, Fresh
<1>4. ASSUME NEW c \in Stocks, SweepCancels(c)  PROVE TrackingInv'
  BY <1>4 DEF SweepCancels, TrackingInv, Fresh
<1>5. CASE CancelOrder
  <2>1. /\ pc = "cancel" /\ pc' = "sweep" /\ todo' = todo \ {cur}
        /\ pending' = [pending EXCEPT ![cur] = NoOrder]
        /\ UNCHANGED <<job, op>>
    BY <1>5 DEF CancelOrder
  <2> QED
    BY <2>1, NoOrderIsOrder DEF TrackingInv, Fresh
<1>6. CASE SweepDone
  BY <1>6 DEF SweepDone, TrackingInv, Fresh
\* The balance and the loop.
<1>7. CASE ReadBalance
  <2>1. ASSUME NEW shares, CycleReturns \/ (pc' = "stocks" /\ todo' = Targets(shares)
                                             /\ UNCHANGED job),
               pc = "balance", UNCHANGED <<cur, op, pending>>
        PROVE  TrackingInv'
    <3>1. CASE CycleReturns
      BY <2>1, <3>1, ReturnTracked
    <3>2. CASE pc' = "stocks" /\ todo' = Targets(shares) /\ UNCHANGED job
      <4>1. Targets(shares) \subseteq Stocks
        BY DEF Targets
      <4> QED
        BY <2>1, <3>2, <4>1 DEF TrackingInv, Fresh
    <3> QED
      BY <2>1, <3>1, <3>2
  <2> QED
    BY <1>7, <2>1 DEF ReadBalance
<1>8. CASE ReadBalanceFails \/ ApiLimit \/ BreakerOpens
  BY <1>8, ReturnTracked DEF ReadBalanceFails, ApiLimit, BreakerOpens
<1>9. ASSUME NEW c \in Stocks, SkipStock(c) \/ BuyUntradable(c)  PROVE TrackingInv'
  BY <1>9, AdvanceTracked DEF SkipStock, BuyUntradable
\* Placing and confirming.
<1>10. ASSUME NEW c \in Stocks, NEW side \in Sides, OrderAccepted(c, side)
       PROVE  TrackingInv'
  <2>1. PICK n, b : op' = [no |-> n, side |-> side, before |-> b, age |-> 0]
    BY <1>10 DEF OrderAccepted
  <2>2. IsOrder(op') /\ op'.age = 0
    BY <2>1, EngineAssumption DEF IsOrder
  <2>3. pending[c] = NoOrder
    BY <1>10 DEF OrderAccepted, Allowed, BuyAllowed, SellAllowed
  <2>4. pc = "stocks" /\ pc' = "confirm" /\ cur' = c /\ UNCHANGED <<todo, job, pending>>
    BY <1>10 DEF OrderAccepted
  <2> QED
    BY <2>2, <2>3, <2>4 DEF TrackingInv, Fresh
<1>11. ASSUME NEW c \in Stocks, NEW side \in Sides,
              OrderReplyLost(c, side) \/ OrderRejected(c, side)
       PROVE  TrackingInv'
  BY <1>11, AdvanceTracked DEF OrderReplyLost, OrderRejected
<1>12. CASE ConfirmFilled
  <2>1. pc = "confirm" /\ cur \in Stocks /\ Advance(cur) /\ op' = NoOrder
        /\ UNCHANGED pending
    BY <1>12 DEF ConfirmFilled, TrackingInv
  <2> QED
    BY <2>1, AdvanceTracked
\* The order enters a slot that is free, at age 0.
<1>13. CASE ConfirmUnfilled
  <2>1. pc = "confirm" /\ cur \in Stocks
    BY <1>13 DEF ConfirmUnfilled, TrackingInv
  <2>2. CASE UNCHANGED <<pc, job, todo, cur, op, pending>>
    BY <2>2, Bystander
  <2>3. CASE pending' = [pending EXCEPT ![cur] = op] /\ Advance(cur) /\ op' = NoOrder
    <3>1. \A c \in Stocks : IsOrder(pending'[c]) /\ Fresh(c)'
      BY <2>1, <2>3, EngineAssumption DEF TrackingInv, Fresh
    <3> QED
      BY <2>1, <2>3, <3>1, NoOrderIsOrder DEF TrackingInv, Fresh, Advance, CycleReturns
  <2> QED
    BY <1>13, <2>2, <2>3 DEF ConfirmUnfilled
\* The daily jobs and crashes.
<1>14. CASE PreMarket \/ StartLate \/ Crash
  BY <1>14, ResetTracked DEF PreMarket, StartLate, Crash
<1>15. CASE PostMarket
  BY <1>15 DEF PostMarket, TrackingInv, Fresh
\* The rest of the world touches neither the loop nor the book.
<1>16. ASSUME World, ~Crash  PROVE TrackingInv'
  BY <1>16, Bystander
     DEF World, BrokerFills, MarketCloses, NewDay, CacheExpires, CooldownElapses,
         WorkerSaves, ToggleKillFile, CmdHalt, loopVars
<1>17. CASE UNCHANGED vars
  BY <1>17, Bystander DEF vars
<1> QED
  BY <1>1, <1>2, <1>3, <1>4, <1>5, <1>6, <1>7, <1>8, <1>9, <1>10, <1>11, <1>12,
     <1>13, <1>14, <1>15, <1>16, <1>17 DEF Next, Engine

\* Under every fault, any timeout and any number of stocks and polls: the cycle
\* decides only when no order is over its timeout, so that the cancel-and-replace
\* branch of _suppress_or_replace_pending is dead code behind the sweep, and
\* an order given up by _confirm_fill never overwrites another pending one.
THEOREM TrackingIsSound == Spec => []TrackingSound
<1>1. TrackingInv => TrackingSound
  BY DEF TrackingInv, TrackingSound, Fresh
<1> QED
  BY <1>1, TrackingInit, TrackingStep, PTL DEF Spec

-----------------------------------------------------------------------------
(* Live orders *)

EngineTypes ==
    /\ held \in [Stocks -> Nat] /\ snap \in [Stocks -> Nat]
    /\ cache \in [Stocks -> Nat] \cup {NoCache}
    /\ lastNo \in Nat /\ crashes \in Nat
    /\ live \subseteq [no : Nat \ {0}, code : Stocks, side : Sides, qty : Nat]
    /\ phase # "open" => live = {}

\* The engine knows the order's number, and the reference quantity it will
\* measure a fill against is what the broker holds until the order fills.
Covered(o) ==
    \/ pending[o.code].no = o.no /\ pending[o.code].before = held[o.code]
    \/ Confirming(o.code) /\ op.no = o.no /\ op.before = held[o.code]

\* A cached balance is out of date only for a stock whose order is tracked, and
\* not for the one whose cancel is under way.
CacheCurrent(c) == cache # NoCache => cache[c] = held[c]

LiveInv ==
    crashes = 0 =>
        /\ \A o \in live : Covered(o)
        /\ \A o, q \in live : o.code = q.code => o = q
        /\ \A c \in Stocks : ~Tracked(c) => CacheCurrent(c)
        /\ pc = "cancel" => CacheCurrent(cur)

\* Replies, reads and cancels get through, and orders fill whole.
Reliable ==
    Faults \cap {"lateFill", "lostReply", "cancelFail", "readFail", "partial"} = {}

LEMMA TypesInit == Init => EngineTypes
BY DEF Init, EngineTypes, NoShares

LEMMA PlacedTypes ==
    ASSUME EngineTypes, NEW c \in Stocks, NEW side \in Sides,
           NEW qty \in OrderSizes(c, side), Placed(c, side, qty)
    PROVE  /\ lastNo' \in Nat /\ phase = "open"
           /\ live' \subseteq [no : Nat \ {0}, code : Stocks, side : Sides, qty : Nat]
<1>1. qty \in Nat
  BY EngineAssumption DEF OrderSizes, EngineTypes
<1> QED
  BY <1>1 DEF EngineTypes, Placed, Accepts

LEMMA TypesStep == EngineTypes /\ [Next]_vars => EngineTypes'
<1> SUFFICES ASSUME EngineTypes, [Next]_vars  PROVE EngineTypes'
  OBVIOUS
\* Most actions leave the broker alone.
<1>1. ASSUME UNCHANGED <<held, lastNo, crashes, phase>>, live' \subseteq live,
             cache' \in {cache, held, NoCache},
             snap' \in {snap, NoShares, held, cache}, snap' # NoCache
      PROVE  EngineTypes'
  BY <1>1 DEF EngineTypes, NoShares
<1>2. NoShares # NoCache /\ held # NoCache /\ snap # NoCache
  BY EngineAssumption DEF EngineTypes, NoShares
<1>3. CASE CycleFrozen \/ CycleBreakerOpen \/ CycleBegin \/ SweepDone \/ PostMarket
  BY <1>1, <1>2, <1>3
     DEF CycleFrozen, CycleBreakerOpen, CycleBegin, SweepDone, PostMarket, brokerVars,
         loopVars, worldVars
<1>4. ASSUME NEW c \in Stocks, SweepReconciles(c) \/ SweepCancels(c)  PROVE EngineTypes'
  BY <1>1, <1>2, <1>4 DEF SweepReconciles, SweepCancels, brokerVars, worldVars
<1>5. CASE CancelOrder
  <2>1. live' \subseteq live
    BY <1>5 DEF CancelOrder
  <2> QED
    BY <1>1, <1>2, <1>5, <2>1 DEF CancelOrder, worldVars
<1>6. CASE ReadBalance
  <2> DEFINE shares == IF cache = NoCache THEN held ELSE cache
  <2>1. cache' = shares /\ snap' \in {shares, NoShares}
        /\ UNCHANGED <<brokerVars, worldVars>>
    BY <1>6 DEF ReadBalance, CycleReturns
  <2> QED
    BY <1>1, <1>2, <2>1 DEF brokerVars, worldVars
<1>7. CASE ReadBalanceFails \/ ApiLimit \/ BreakerOpens
  BY <1>1, <1>2, <1>7
     DEF ReadBalanceFails, ApiLimit, BreakerOpens, CycleReturns, brokerVars, worldVars
<1>8. ASSUME NEW c, Advance(c)  PROVE snap' \in {snap, NoShares}
  BY <1>8 DEF Advance, CycleReturns
<1>9. ASSUME NEW c \in Stocks, SkipStock(c) \/ BuyUntradable(c)  PROVE EngineTypes'
  BY <1>1, <1>2, <1>8, <1>9 DEF SkipStock, BuyUntradable, brokerVars, worldVars
<1>10. ASSUME NEW c \in Stocks, NEW side \in Sides, OrderAccepted(c, side)
       PROVE  EngineTypes'
  <2>1. lastNo' \in Nat /\ phase = "open"
        /\ live' \subseteq [no : Nat \ {0}, code : Stocks, side : Sides, qty : Nat]
    BY <1>10, PlacedTypes DEF OrderAccepted
  <2> QED
    BY <1>10, <2>1 DEF OrderAccepted, EngineTypes, worldVars
<1>11. ASSUME NEW c \in Stocks, NEW side \in Sides, OrderReplyLost(c, side)
       PROVE  EngineTypes'
  <2>1. lastNo' \in Nat /\ phase = "open"
        /\ live' \subseteq [no : Nat \ {0}, code : Stocks, side : Sides, qty : Nat]
    BY <1>11, PlacedTypes DEF OrderReplyLost
  <2>2. snap' \in {snap, NoShares} /\ cache' = NoCache /\ UNCHANGED <<held, worldVars>>
    BY <1>8, <1>11 DEF OrderReplyLost
  <2> QED
    BY <2>1, <2>2 DEF EngineTypes, NoShares, worldVars
<1>12. ASSUME NEW c \in Stocks, NEW side \in Sides, OrderRejected(c, side)
       PROVE  EngineTypes'
  BY <1>1, <1>2, <1>8, <1>12 DEF OrderRejected, brokerVars, worldVars
<1>13. CASE ConfirmFilled \/ ConfirmUnfilled
  <2>1. snap' \in {snap, NoShares} /\ cache' \in {cache, held}
        /\ UNCHANGED <<brokerVars, worldVars>>
    BY <1>8, <1>13 DEF ConfirmFilled, ConfirmUnfilled
  <2> QED
    BY <1>1, <1>2, <2>1 DEF brokerVars, worldVars
<1>14. CASE PreMarket \/ StartLate \/ Crash
  <2>1. snap' = NoShares /\ cache' \in {held, NoCache} /\ UNCHANGED brokerVars
        /\ crashes' \in {crashes, crashes + 1} /\ phase' \in {phase, "open"}
    BY <1>14 DEF PreMarket, StartLate, Crash, MemoryReset
  <2> QED
    BY <2>1 DEF EngineTypes, NoShares, brokerVars
<1>15. ASSUME NEW o \in live, NEW n \in FillSizes(o), BrokerFills(o, n)
       PROVE  EngineTypes'
  <2>1. o \in [no : Nat \ {0}, code : Stocks, side : Sides, qty : Nat]
    BY DEF EngineTypes
  <2>2. n \in Nat /\ n <= o.qty
    BY <2>1 DEF FillSizes
  <2>3. held' \in [Stocks -> Nat]
    <3>1. o.side = "SELL" => held[o.code] - n \in Nat
      BY <1>15, <2>1, <2>2 DEF BrokerFills, EngineTypes
    <3>2. o.side # "BUY" => o.side = "SELL"
      BY <2>1 DEF Sides
    <3> QED
      BY <1>15, <2>1, <2>2, <3>1, <3>2 DEF BrokerFills, EngineTypes
  <2>4. live' \subseteq [no : Nat \ {0}, code : Stocks, side : Sides, qty : Nat]
    <3>1. [o EXCEPT !.qty = o.qty - n]
            \in [no : Nat \ {0}, code : Stocks, side : Sides, qty : Nat]
      BY <2>1, <2>2
    <3> QED
      BY <1>15, <3>1 DEF BrokerFills, EngineTypes
  <2> QED
    BY <1>15, <2>3, <2>4 DEF BrokerFills, EngineTypes, loopVars, worldVars
<1>16. CASE MarketCloses \/ NewDay
  BY <1>16 DEF MarketCloses, NewDay, EngineTypes, loopVars
<1>17. ASSUME World, ~Crash, ~MarketCloses, ~NewDay,
              ~(\E o \in live : \E n \in FillSizes(o) : BrokerFills(o, n))
       PROVE  EngineTypes'
  BY <1>1, <1>2, <1>17
     DEF World, CacheExpires, CooldownElapses, WorkerSaves, ToggleKillFile, CmdHalt,
         brokerVars, loopVars, worldVars
<1>18. CASE UNCHANGED vars
  BY <1>1, <1>2, <1>18 DEF vars
<1> QED
  BY <1>3, <1>4, <1>5, <1>6, <1>7, <1>9, <1>10, <1>11, <1>12, <1>13, <1>14, <1>15,
     <1>16, <1>17, <1>18 DEF Next, Engine, World

LEMMA LiveInit == Init => LiveInv
BY DEF Init, LiveInv, Tracked, CacheCurrent

\* Actions that leave the broker and the tracking alone, and a cache that is
\* kept, dropped or read anew.
LEMMA LiveKept ==
    ASSUME EngineTypes, LiveInv, cache' \in {cache, held, NoCache},
           UNCHANGED <<held, live, pending, crashes>>,
           \/ UNCHANGED <<pc, cur, op>>
           \/ pc \notin {"cancel", "confirm"} /\ pc' \notin {"cancel", "confirm"}
    PROVE  LiveInv'
BY DEF EngineTypes, LiveInv, Covered, Confirming, Tracked, CacheCurrent

LEMMA ReturnLeaves ==
    ASSUME NEW c, Advance(c) \/ CycleReturns
    PROVE  pc' \notin {"cancel", "confirm"}
BY DEF Advance, CycleReturns

LEMMA LiveStep ==
    ASSUME Reliable
    PROVE  TrackingInv /\ EngineTypes /\ LiveInv /\ [Next]_vars => LiveInv'
<1> SUFFICES ASSUME TrackingInv, EngineTypes, LiveInv, [Next]_vars  PROVE LiveInv'
  OBVIOUS
\* Ageing changes neither the number nor the reference quantity of an order.
<1>1. ASSUME pending' = AgedOrders, UNCHANGED <<held, live, crashes, cache, cur, op>>,
             pc = "idle", pc' \in {"idle", "sweep"}
      PROVE  LiveInv'
  <2>1. ASSUME NEW c \in Stocks
        PROVE  /\ pending'[c].no = pending[c].no
               /\ pending'[c].before = pending[c].before
               /\ pending'[c] = NoOrder => pending[c] = NoOrder
    <3>1. IsOrder(pending[c]) /\ pending'[c] = Aged(pending[c])
      BY <1>1 DEF TrackingInv, AgedOrders
    <3>2. CASE pending'[c] = pending[c]
      BY <3>2
    <3>3. CASE pending'[c] # pending[c]
      <4>1. pending'[c] = [pending[c] EXCEPT !.age = @ + 1]
        BY <3>1, <3>3 DEF Aged, IsOrder
      <4>2. pending'[c].age = pending[c].age + 1 /\ pending[c].age \in Nat
        BY <3>1, <4>1, EngineAssumption DEF IsOrder
      <4> QED
        BY <3>1, <4>1, <4>2 DEF IsOrder, NoOrder
    <3> QED
      BY <3>2, <3>3
  <2> QED
    BY <1>1, <2>1 DEF LiveInv, EngineTypes, Covered, Confirming, Tracked, CacheCurrent
<1>2. CASE CycleFrozen \/ CycleBreakerOpen \/ CycleBegin
  BY <1>1, <1>2
     DEF CycleFrozen, CycleBreakerOpen, CycleBegin, brokerVars, loopVars, worldVars
\* The order that the balance shows filled is no longer live.
<1>3. ASSUME NEW c \in Stocks, SweepReconciles(c)  PROVE LiveInv'
  <2>1. /\ pc = "sweep" /\ cache' = held /\ FilledSince(pending[c], held[c]) > 0
        /\ pending' = [pending EXCEPT ![c] = NoOrder]
        /\ UNCHANGED <<pc, cur, op, held, live, crashes>>
    BY <1>3 DEF SweepReconciles, brokerVars, worldVars
  <2>2. held[c] \in Nat
    BY DEF EngineTypes
  <2>3. crashes = 0 => \A o \in live : o.code # c
    <3> SUFFICES ASSUME crashes = 0, NEW o \in live, o.code = c  PROVE FALSE
      OBVIOUS
    <3>1. pending[c].before = held[c]
      BY <2>1 DEF LiveInv, Covered, Confirming
    <3> QED
      BY <2>1, <2>2, <3>1 DEF FilledSince
  <2> QED
    BY <2>1, <2>3
       DEF LiveInv, EngineTypes, TrackingInv, Covered, Confirming, Tracked, CacheCurrent
<1>4. ASSUME NEW c \in Stocks, SweepCancels(c)  PROVE LiveInv'
  <2>1. /\ pc = "sweep" /\ pc' = "cancel" /\ cur' = c /\ cache' = held
        /\ UNCHANGED <<op, held, live, crashes, pending>>
    BY <1>4 DEF SweepCancels, Reliable, brokerVars, countVars, worldVars
  <2> QED
    BY <2>1 DEF LiveInv, EngineTypes, Covered, Confirming, Tracked, CacheCurrent
\* The cancel gets through: no order of this stock is live any more.
<1>5. CASE CancelOrder
  <2>1. /\ pc = "cancel" /\ pc' = "sweep" /\ cur \in Stocks
        /\ live' = live \ {o \in live : o.no = pending[cur].no}
        /\ pending' = [pending EXCEPT ![cur] = NoOrder]
        /\ UNCHANGED <<held, cache, crashes, op>>
    BY <1>5 DEF CancelOrder, Reliable, worldVars, TrackingInv
  <2>2. crashes = 0 => \A o \in live' : o.code # cur
    BY <2>1 DEF LiveInv, Covered, Confirming
  <2> QED
    BY <2>1, <2>2
       DEF LiveInv, EngineTypes, TrackingInv, Covered, Confirming, Tracked, CacheCurrent
<1>6. CASE SweepDone \/ PostMarket \/ ReadBalanceFails \/ ApiLimit \/ BreakerOpens
  BY <1>6, LiveKept
     DEF SweepDone, PostMarket, ReadBalanceFails, ApiLimit, BreakerOpens, CycleReturns,
         brokerVars, loopVars, worldVars
<1>7. CASE ReadBalance
  <2>1. /\ pc = "balance" /\ pc' \in {"idle", "stocks"} /\ cache' \in {cache, held}
        /\ UNCHANGED <<held, live, crashes, pending>>
    BY <1>7 DEF ReadBalance, CycleReturns, brokerVars, worldVars
  <2> QED
    BY <2>1, LiveKept
<1>8. ASSUME NEW c \in Stocks, SkipStock(c) \/ BuyUntradable(c)  PROVE LiveInv'
  <2>1. /\ pc = "stocks" /\ pc' \notin {"cancel", "confirm"} /\ cache' \in {cache, held}
        /\ UNCHANGED <<held, live, crashes, pending>>
    BY <1>8, ReturnLeaves DEF SkipStock, BuyUntradable, brokerVars, worldVars
  <2> QED
    BY <2>1, LiveKept
\* No order of the stock is pending, so none is live, and the quantity read for
\* the new order is what the broker holds.
<1>9. ASSUME NEW c \in Stocks, NEW side \in Sides, OrderAccepted(c, side)
      PROVE  LiveInv'
  <2>1. PICK qty \in OrderSizes(c, side), before \in ReferenceQty(c, side) :
          /\ Placed(c, side, qty)
          /\ op' = [no |-> lastNo + 1, side |-> side, before |-> before, age |-> 0]
    BY <1>9 DEF OrderAccepted
  <2>2. /\ pc = "stocks" /\ pc' = "confirm" /\ cur' = c /\ cache' = NoCache
        /\ UNCHANGED <<held, crashes, pending>> /\ pending[c] = NoOrder
    BY <1>9 DEF OrderAccepted, worldVars, Allowed, BuyAllowed, SellAllowed
  <2>3. live' = live \cup {[no |-> lastNo + 1, code |-> c, side |-> side, qty |-> qty]}
    BY <2>1 DEF Placed
  <2> SUFFICES ASSUME crashes = 0  PROVE LiveInv'
    BY <2>2 DEF LiveInv
  <2>4. \A o \in live : o.code # c
    <3> SUFFICES ASSUME NEW o \in live, o.code = c  PROVE FALSE
      OBVIOUS
    <3>1. o.no \in Nat \ {0} /\ o.no = NoOrder.no
      BY <2>2 DEF EngineTypes, LiveInv, Covered, Confirming
    <3> QED
      BY <3>1 DEF NoOrder
  <2>5. before = held[c]
    BY <2>1, <2>2 DEF ReferenceQty, Reliable, LiveInv, Tracked, Confirming, CacheCurrent
  <2> QED
    BY <2>1, <2>2, <2>3, <2>4, <2>5
       DEF LiveInv, Covered, Confirming, Tracked, CacheCurrent
<1>10. ASSUME NEW c \in Stocks, NEW side \in Sides, OrderReplyLost(c, side)
       PROVE  LiveInv'
  BY <1>10 DEF OrderReplyLost, Reliable
<1>11. ASSUME NEW c \in Stocks, NEW side \in Sides, OrderRejected(c, side)
       PROVE  LiveInv'
  <2>1. /\ pc = "stocks" /\ pc' \notin {"cancel", "confirm"} /\ cache' = NoCache
        /\ UNCHANGED <<held, live, crashes, pending>>
    BY <1>11, ReturnLeaves DEF OrderRejected, brokerVars, worldVars
  <2> QED
    BY <2>1, LiveKept
<1>12. CASE ConfirmFilled
  <2>1. /\ pc = "confirm" /\ cur \in Stocks /\ pending[cur] = NoOrder
        /\ pc' \notin {"cancel", "confirm"} /\ cache' = held
        /\ FilledSince(op, held[cur]) > 0
        /\ UNCHANGED <<held, live, crashes, pending>>
    BY <1>12, ReturnLeaves DEF ConfirmFilled, TrackingInv, brokerVars, worldVars
  <2>2. crashes = 0 => \A o \in live : o.code # cur
    <3> SUFFICES ASSUME crashes = 0, NEW o \in live, o.code = cur  PROVE FALSE
      OBVIOUS
    <3>1. o.no \in Nat \ {0} /\ held[cur] \in Nat
      BY <2>1 DEF EngineTypes
    <3>2. op.before = held[cur]
      BY <2>1, <3>1 DEF LiveInv, Covered, NoOrder
    <3> QED
      BY <2>1, <3>1, <3>2 DEF FilledSince
  <2> QED
    BY <2>1, <2>2 DEF LiveInv, EngineTypes, Covered, Confirming, Tracked, CacheCurrent
\* The order moves from the confirmation into the book.
<1>13. CASE ConfirmUnfilled
  <2>1. /\ pc = "confirm" /\ cur \in Stocks /\ pending[cur] = NoOrder /\ cache' = held
        /\ UNCHANGED <<held, live, crashes>>
    BY <1>13 DEF ConfirmUnfilled, Reliable, TrackingInv, brokerVars, worldVars
  <2>2. CASE UNCHANGED <<pc, cur, op, pending>>
    BY <2>1, <2>2, LiveKept
  <2>3. CASE pending' = [pending EXCEPT ![cur] = op] /\ Advance(cur)
    <3>1. pc' \notin {"cancel", "confirm"}
      BY <2>3, ReturnLeaves
    <3>2. \A o \in live : o.no \in Nat \ {0} /\ o.code \in Stocks
      BY DEF EngineTypes
    <3>3. \A c \in Stocks : pending'[c] = IF c = cur THEN op ELSE pending[c]
      BY <2>1, <2>3 DEF TrackingInv
    <3>4. crashes = 0 => \A o \in live : Covered(o)'
      BY <2>1, <3>1, <3>2, <3>3 DEF LiveInv, Covered, Confirming, NoOrder
    <3> QED
      BY <2>1, <3>1, <3>4 DEF LiveInv, CacheCurrent
  <2> QED
    BY <1>13, <2>2, <2>3 DEF ConfirmUnfilled
\* Days begin without live orders.
<1>14. CASE PreMarket \/ StartLate
  <2>1. live = {} /\ live' = {} /\ cache' \in {held, NoCache} /\ held' = held
        /\ pc' = "idle"
    BY <1>14 DEF PreMarket, StartLate, MemoryReset, EngineTypes, brokerVars
  <2> QED
    BY <2>1 DEF LiveInv, CacheCurrent
<1>15. CASE Crash
  BY <1>15 DEF Crash, LiveInv, EngineTypes
\* A fill changes the holdings of a stock whose order is tracked, and removes
\* the only live order of that stock.
<1>16. ASSUME NEW o \in live, NEW n \in FillSizes(o), BrokerFills(o, n)
       PROVE  LiveInv'
  <2>1. n = o.qty /\ o.code \in Stocks /\ o.no \in Nat \ {0}
    BY DEF FillSizes, Reliable, EngineTypes
  <2>2. /\ live' = live \ {o} /\ \A c \in Stocks : c # o.code => held'[c] = held[c]
        /\ ~(pc = "cancel" /\ pending[cur].no = o.no)
        /\ UNCHANGED <<pc, cur, op, pending, cache, crashes>>
    BY <1>16, <2>1 DEF BrokerFills, Reliable, EngineTypes, loopVars, worldVars
  <2> SUFFICES ASSUME crashes = 0  PROVE LiveInv'
    BY <2>2 DEF LiveInv
  <2>3. \A q \in live' : q \in live /\ q.code # o.code /\ q.code \in Stocks
    BY <2>2 DEF LiveInv, EngineTypes
  <2>4. \A q \in live' : Covered(q)'
    BY <2>2, <2>3 DEF LiveInv, Covered, Confirming
  <2>5. Tracked(o.code) /\ (pc = "cancel" => cur # o.code)
    BY <2>1, <2>2 DEF LiveInv, Covered, Tracked, Confirming, NoOrder
  <2> QED
    BY <2>2, <2>3, <2>4, <2>5
       DEF LiveInv, Tracked, Confirming, CacheCurrent, TrackingInv
<1>17. CASE MarketCloses \/ NewDay
  <2>1. live' \subseteq live
        /\ UNCHANGED <<held, pc, cur, op, pending, cache, crashes>>
    BY <1>17 DEF MarketCloses, NewDay, loopVars
  <2> QED
    BY <2>1 DEF LiveInv, Covered, Confirming, Tracked, CacheCurrent
<1>18. CASE UNCHANGED vars
  BY <1>18, LiveKept DEF vars
<1>19. ASSUME World, ~Crash, ~MarketCloses, ~NewDay,
              ~(\E o \in live : \E n \in FillSizes(o) : BrokerFills(o, n))
       PROVE  LiveInv'
  BY <1>19, LiveKept
     DEF World, CacheExpires, CooldownElapses, WorkerSaves, ToggleKillFile, CmdHalt,
         brokerVars, loopVars, worldVars
<1> QED
  BY <1>2, <1>3, <1>4, <1>5, <1>6, <1>7, <1>8, <1>9, <1>10, <1>11, <1>12, <1>13,
     <1>14, <1>15, <1>16, <1>17, <1>18, <1>19 DEF Next, Engine, World

\* For any number of stocks, polls and orders, any timeout and limits, and also
\* with a failing database, an open breaker, an exhausted quota and an operator:
\* as long as replies, reads and cancels get through, no order fills between its
\* last check and its cancel, and orders fill whole, the engine knows every order
\* that can still fill, and a stock never has two.
THEOREM OrdersAreTracked ==
    ASSUME Reliable
    PROVE  Spec => []LiveOrdersTracked
<1>1. TrackingInv /\ EngineTypes /\ LiveInv => LiveOrdersTracked
  BY DEF EngineTypes, LiveInv, LiveOrdersTracked, Covered
<1>2. TrackingInv /\ EngineTypes /\ LiveInv /\ [Next]_vars => LiveInv'
  BY LiveStep
<1> QED
  BY <1>1, <1>2, TrackingInit, TrackingStep, TypesInit, TypesStep, LiveInit, PTL DEF Spec

-----------------------------------------------------------------------------
(* What the day has recorded *)

\* The rows of trades reach a restart: it reads them, and finds all of them saved.
Recovered == Faults \cap {"restoreFail", "undrained"} = {}

\* An order, or no order with nothing to measure a fill against.
Measured(o) == o \in OrderType /\ (o.side = "none" => o.before = 0)

DayTypes ==
    /\ ledger \in Seq(RowType)
    /\ buysToday \in [Stocks -> Nat]
    /\ \A c \in Stocks : Measured(pending[c])
    /\ Measured(op)

LEMMA NoOrderMeasured == Measured(NoOrder)
BY EngineAssumption DEF Measured, NoOrder, OrderType

LEMMA DayTypesInit == Init => DayTypes
BY NoOrderMeasured DEF Init, DayTypes, NoShares

\* What booking a fill does to the rows and the counters.
LEMMA BookAppends ==
    ASSUME ledger \in Seq(RowType), buysToday \in [Stocks -> Nat],
           NEW c \in Stocks, NEW side \in Sides, NEW qty \in Nat, Book(c, side, qty)
    PROVE  /\ ledger' \in Seq(RowType)
           /\ buysToday' \in [Stocks -> Nat]
           /\ buysToday' = IF side = "BUY" THEN [buysToday EXCEPT ![c] = @ + 1]
                                           ELSE buysToday
           /\ lossSold \subseteq lossSold'
           /\ \/ ledger' = ledger
              \/ \E row \in RowType :
                    /\ ledger' = Append(ledger, row)
                    /\ row.code = c /\ row.side = side /\ row.qty = qty
                    /\ row.side = "SELL" /\ row.pnl < 0 => c \in lossSold'
<1>1. PICK pnl \in IF side = "SELL" THEN Amounts ELSE {0} :
        /\ lossSold' = IF pnl < 0 THEN lossSold \cup {c} ELSE lossSold
        /\ \/ ledger' = Append(ledger,
                  [code |-> c, side |-> side, qty |-> qty, pnl |-> pnl,
                   saved |-> FALSE, recent |-> side = "SELL"])
           \/ UNCHANGED ledger
  BY DEF Book
<1>2. pnl \in Int
  BY EngineAssumption
<1> DEFINE row == [code |-> c, side |-> side, qty |-> qty, pnl |-> pnl,
                   saved |-> FALSE, recent |-> side = "SELL"]
<1>3. row \in RowType
  BY <1>2 DEF RowType
<1>4. row.code = c /\ row.side = side /\ row.pnl = pnl /\ row.qty = qty
  OBVIOUS
<1>5. buysToday' = IF side = "BUY" THEN [buysToday EXCEPT ![c] = @ + 1] ELSE buysToday
  BY DEF Book
<1>6. buysToday' \in [Stocks -> Nat]
  BY <1>5
<1>7. ledger' = ledger \/ ledger' = Append(ledger, row)
  BY <1>1
<1> HIDE DEF row
<1>8. ledger' \in Seq(RowType)
  BY <1>3, <1>7
<1>9. lossSold \subseteq lossSold' /\ (pnl < 0 => c \in lossSold')
  BY <1>1
<1> QED
  BY <1>3, <1>4, <1>5, <1>6, <1>7, <1>8, <1>9

\* A fill is only inferred for an order, and of a positive number of shares.
LEMMA FillsMeasured ==
    ASSUME NEW o, Measured(o), NEW n \in Nat, FilledSince(o, n) > 0
    PROVE  o.side \in Sides /\ FilledSince(o, n) \in Nat
BY DEF Measured, OrderType, Sides, FilledSince

\* A row stays what it is but for its two flags.
SameRows ==
    /\ DOMAIN ledger' = DOMAIN ledger
    /\ \A i \in DOMAIN ledger :
        /\ ledger'[i].code = ledger[i].code /\ ledger'[i].side = ledger[i].side
        /\ ledger'[i].pnl = ledger[i].pnl /\ ledger'[i].qty = ledger[i].qty
        /\ ledger[i].saved => ledger'[i].saved

LEMMA FlagsOnly ==
    ASSUME DayTypes,
           \/ UNCHANGED ledger
           \/ \E c \in Stocks : CooldownElapses(c)
           \/ \E i \in DOMAIN ledger : WorkerSaves(i)
    PROVE  ledger' \in Seq(RowType) /\ SameRows
<1>0. \A i \in DOMAIN ledger : ledger[i] \in RowType
  BY DEF DayTypes
<1>1. CASE UNCHANGED ledger
  BY <1>1 DEF DayTypes, SameRows
<1>2. ASSUME NEW c \in Stocks, CooldownElapses(c)
      PROVE  ledger' \in Seq(RowType) /\ SameRows
  <2>1. ledger' = [i \in 1..Len(ledger) |->
                     IF ledger[i].code = c THEN [ledger[i] EXCEPT !.recent = FALSE]
                                           ELSE ledger[i]]
    BY <1>2 DEF CooldownElapses, DayTypes
  <2>2. ASSUME NEW r \in RowType
        PROVE  LET q == [r EXCEPT !.recent = FALSE]
               IN  /\ q \in RowType /\ q.code = r.code /\ q.side = r.side
                   /\ q.pnl = r.pnl /\ q.qty = r.qty /\ q.saved = r.saved
    BY DEF RowType
  <2>3. \A i \in 1..Len(ledger) :
          /\ ledger'[i] \in RowType
          /\ ledger'[i].code = ledger[i].code /\ ledger'[i].side = ledger[i].side
          /\ ledger'[i].pnl = ledger[i].pnl /\ ledger'[i].qty = ledger[i].qty
          /\ ledger'[i].saved = ledger[i].saved
    BY <1>0, <2>1, <2>2 DEF DayTypes
  <2> QED
    BY <2>1, <2>3 DEF DayTypes, SameRows
<1>3. ASSUME NEW n \in DOMAIN ledger, WorkerSaves(n)
      PROVE  ledger' \in Seq(RowType) /\ SameRows
  <2> DEFINE row == [ledger[n] EXCEPT !.saved = TRUE]
  <2>1. ledger' = [ledger EXCEPT ![n] = row]
    BY <1>3 DEF WorkerSaves
  <2>2. /\ row \in RowType /\ row.code = ledger[n].code /\ row.side = ledger[n].side
        /\ row.pnl = ledger[n].pnl /\ row.qty = ledger[n].qty /\ row.saved
    <3>1. ASSUME NEW r \in RowType
          PROVE  LET q == [r EXCEPT !.saved = TRUE]
                 IN  /\ q \in RowType /\ q.code = r.code /\ q.side = r.side
                     /\ q.pnl = r.pnl /\ q.qty = r.qty /\ q.saved
      BY DEF RowType
    <3> QED
      BY <1>0, <3>1
  <2> HIDE DEF row
  <2>3. ledger' \in Seq(RowType)
    BY <2>1, <2>2 DEF DayTypes
  <2>4. DOMAIN ledger' = DOMAIN ledger
    BY <2>1
  <2>5. \A i \in DOMAIN ledger : ledger'[i] = IF i = n THEN row ELSE ledger[i]
    BY <2>1
  <2> QED
    BY <2>2, <2>3, <2>4, <2>5 DEF SameRows
<1> QED
  BY <1>1, <1>2, <1>3

LEMMA RestoredTypes ==
    ASSUME DayTypes, RestoreIfNeeded
    PROVE  buysToday' \in [Stocks -> Nat]
<1>1. ASSUME NEW c  PROVE Cardinality(Saved \cap Rows("BUY", c)) \in Nat
  <2>1. IsFiniteSet(DOMAIN ledger)
    BY FS_Interval DEF DayTypes
  <2> QED
    BY <2>1, FS_Subset, FS_CardinalityType DEF Saved
<1> QED
  BY <1>1 DEF RestoreIfNeeded, RestoreFromTrades, DayTypes

\* Actions that book nothing leave the rows as they are, up to their flags.
LEMMA OnlyBookingAppends ==
    ASSUME DayTypes, [Next]_vars,
           ~(\E c \in Stocks : SweepReconciles(c)), ~ConfirmFilled, ~NewDay
    PROVE  ledger' \in Seq(RowType) /\ SameRows
<1>1. CASE CycleFrozen \/ CycleBegin \/ CycleBreakerOpen \/ CancelOrder \/ SweepDone
  BY <1>1, FlagsOnly
     DEF CycleFrozen, CycleBegin, CycleBreakerOpen, CancelOrder, SweepDone
<1>2. ASSUME NEW c \in Stocks, SweepCancels(c) \/ SkipStock(c) \/ BuyUntradable(c)
      PROVE  ledger' \in Seq(RowType) /\ SameRows
  BY <1>2, FlagsOnly DEF SweepCancels, SkipStock, BuyUntradable
<1>3. CASE ReadBalance \/ ReadBalanceFails \/ ApiLimit \/ BreakerOpens
  BY <1>3, FlagsOnly DEF ReadBalance, ReadBalanceFails, ApiLimit, BreakerOpens
<1>4. ASSUME NEW c \in Stocks, NEW side \in Sides,
             OrderAccepted(c, side) \/ OrderReplyLost(c, side) \/ OrderRejected(c, side)
      PROVE  ledger' \in Seq(RowType) /\ SameRows
  BY <1>4, FlagsOnly DEF OrderAccepted, OrderReplyLost, OrderRejected
<1>5. CASE ConfirmUnfilled \/ PreMarket \/ StartLate \/ PostMarket \/ Crash
  BY <1>5, FlagsOnly DEF ConfirmUnfilled, PreMarket, StartLate, PostMarket, Crash
<1>6. CASE MarketCloses \/ CacheExpires \/ ToggleKillFile \/ (\E on \in BOOLEAN : CmdHalt(on))
  BY <1>6, FlagsOnly DEF MarketCloses, CacheExpires, ToggleKillFile, CmdHalt
<1>7. ASSUME NEW o \in live, NEW n \in FillSizes(o), BrokerFills(o, n)
      PROVE  ledger' \in Seq(RowType) /\ SameRows
  BY <1>7, FlagsOnly DEF BrokerFills
<1>8. CASE UNCHANGED vars
  BY <1>8, FlagsOnly DEF vars
<1>9. CASE (\E c \in Stocks : CooldownElapses(c)) \/ (\E i \in DOMAIN ledger : WorkerSaves(i))
  BY <1>9, FlagsOnly
<1> QED
  BY <1>1, <1>2, <1>3, <1>4, <1>5, <1>6, <1>7, <1>8, <1>9 DEF Next, Engine, World

\* The fill that a sweep or a confirmation books.
LEMMA SweepBooks ==
    ASSUME EngineTypes, DayTypes, TrackingInv, NEW c \in Stocks, SweepReconciles(c)
    PROVE  \E side \in Sides, qty \in Nat : side = pending[c].side /\ Book(c, side, qty)
<1>1. held[c] \in Nat /\ Measured(pending[c]) /\ FilledSince(pending[c], held[c]) > 0
  BY DEF EngineTypes, DayTypes, SweepReconciles
<1> QED
  BY <1>1, FillsMeasured DEF SweepReconciles

LEMMA ConfirmationBooks ==
    ASSUME EngineTypes, DayTypes, TrackingInv, ConfirmFilled
    PROVE  cur \in Stocks /\ \E side \in Sides, qty \in Nat : side = op.side /\ Book(cur, side, qty)
<1>1. cur \in Stocks
  BY DEF TrackingInv, ConfirmFilled
<1>2. held[cur] \in Nat /\ Measured(op) /\ FilledSince(op, held[cur]) > 0
  BY <1>1 DEF EngineTypes, DayTypes, ConfirmFilled
<1> QED
  BY <1>1, <1>2, FillsMeasured DEF ConfirmFilled

LEMMA AgedMeasured ==
    ASSUME DayTypes, pending' = AgedOrders
    PROVE  \A c \in Stocks :
             /\ Measured(pending'[c])
             /\ pending'[c].side = pending[c].side
             /\ pending'[c].before = pending[c].before
             /\ pending[c] = NoOrder => pending'[c] = NoOrder
<1> SUFFICES ASSUME NEW c \in Stocks
             PROVE  /\ Measured(Aged(pending[c]))
                    /\ Aged(pending[c]).side = pending[c].side
                    /\ Aged(pending[c]).before = pending[c].before
                    /\ pending[c] = NoOrder => Aged(pending[c]) = NoOrder
  BY DEF AgedOrders
<1>1. Measured(pending[c])
  BY DEF DayTypes
<1> QED
  BY <1>1, EngineAssumption DEF Aged, Measured, OrderType

LEMMA DayTypesStep == EngineTypes /\ TrackingInv /\ DayTypes /\ [Next]_vars => DayTypes'
<1> SUFFICES ASSUME EngineTypes, TrackingInv, DayTypes, [Next]_vars  PROVE DayTypes'
  OBVIOUS
\* Where nothing is booked: the rows, the counters, and the orders.
<1>1. ASSUME ledger' \in Seq(RowType), UNCHANGED buysToday, UNCHANGED pending,
             op' = op \/ op' = NoOrder
      PROVE  DayTypes'
  BY <1>1, NoOrderMeasured DEF DayTypes
<1>2. CASE CycleFrozen \/ CycleBegin \/ CycleBreakerOpen
  <2>1. pending' = AgedOrders /\ UNCHANGED <<ledger, op>>
    BY <1>2 DEF CycleFrozen, CycleBegin, CycleBreakerOpen, loopVars
  <2>2. UNCHANGED buysToday \/ RestoreIfNeeded
    BY <1>2 DEF CycleFrozen, CycleBegin, CycleBreakerOpen, countVars
  <2> QED
    BY <2>1, <2>2, AgedMeasured, RestoredTypes DEF DayTypes
<1>3. ASSUME NEW c \in Stocks, SweepReconciles(c)  PROVE DayTypes'
  <2>1. ledger' \in Seq(RowType) /\ buysToday' \in [Stocks -> Nat]
    BY <1>3, SweepBooks, BookAppends DEF DayTypes
  <2>2. pending' = [pending EXCEPT ![c] = NoOrder] /\ UNCHANGED op
    BY <1>3 DEF SweepReconciles
  <2> QED
    BY <2>1, <2>2, NoOrderMeasured DEF DayTypes, TrackingInv
<1>4. CASE CancelOrder
  <2>1. pending' = [pending EXCEPT ![cur] = NoOrder] /\ UNCHANGED <<ledger, op, buysToday>>
    BY <1>4 DEF CancelOrder, countVars
  <2> QED
    BY <2>1, NoOrderMeasured DEF DayTypes, TrackingInv
<1>5. ASSUME NEW c \in Stocks,
             SweepCancels(c) \/ SkipStock(c) \/ BuyUntradable(c)
      PROVE  DayTypes'
  BY <1>1, <1>5 DEF SweepCancels, SkipStock, BuyUntradable, countVars, DayTypes
<1>6. CASE \/ SweepDone \/ ReadBalance \/ ReadBalanceFails \/ ApiLimit \/ BreakerOpens
           \/ PostMarket
  BY <1>1, <1>6
     DEF SweepDone, ReadBalance, ReadBalanceFails, ApiLimit, BreakerOpens, PostMarket,
         countVars, DayTypes
<1>7. ASSUME NEW c \in Stocks, NEW side \in Sides, OrderAccepted(c, side)
      PROVE  DayTypes'
  <2>1. PICK before \in ReferenceQty(c, side) :
          op' = [no |-> lastNo + 1, side |-> side, before |-> before, age |-> 0]
    BY <1>7 DEF OrderAccepted
  <2>2. before \in Nat
    BY DEF ReferenceQty, EngineTypes
  <2>3. Measured(op')
    BY <2>1, <2>2, EngineAssumption DEF Measured, OrderType, EngineTypes, Sides
  <2> QED
    BY <1>7, <2>3 DEF OrderAccepted, DayTypes, countVars
<1>8. ASSUME NEW c \in Stocks, NEW side \in Sides,
             OrderReplyLost(c, side) \/ OrderRejected(c, side)
      PROVE  DayTypes'
  BY <1>1, <1>8 DEF OrderReplyLost, OrderRejected, countVars, DayTypes
<1>9. CASE ConfirmFilled
  <2>1. ledger' \in Seq(RowType) /\ buysToday' \in [Stocks -> Nat]
    BY <1>9, ConfirmationBooks, BookAppends DEF DayTypes
  <2> QED
    BY <1>9, <2>1, NoOrderMeasured DEF ConfirmFilled, DayTypes
<1>10. CASE ConfirmUnfilled
  <2>1. UNCHANGED <<ledger, buysToday>>
    BY <1>10 DEF ConfirmUnfilled, countVars
  <2>2. CASE UNCHANGED <<op, pending>>
    BY <2>1, <2>2 DEF DayTypes
  <2>3. CASE pending' = [pending EXCEPT ![cur] = op] /\ op' = NoOrder
    BY <2>1, <2>3, NoOrderMeasured DEF DayTypes, TrackingInv
  <2> QED
    BY <1>10, <2>2, <2>3 DEF ConfirmUnfilled
<1>11. CASE PreMarket \/ StartLate \/ Crash
  <2>1. /\ pending' = [c \in Stocks |-> NoOrder] /\ op' = NoOrder
        /\ buysToday' = NoShares /\ UNCHANGED ledger
    BY <1>11 DEF PreMarket, StartLate, Crash, MemoryReset
  <2> QED
    BY <2>1, NoOrderMeasured DEF DayTypes, NoShares
<1>12. ASSUME NEW o \in live, NEW n \in FillSizes(o), BrokerFills(o, n)
       PROVE  DayTypes'
  BY <1>1, <1>12 DEF BrokerFills, loopVars, countVars, DayTypes
<1>13. CASE MarketCloses \/ CacheExpires \/ ToggleKillFile \/ NewDay
            \/ (\E on \in BOOLEAN : CmdHalt(on))
  <2>1. <<>> \in Seq(RowType)
    OBVIOUS
  <2> QED
    BY <1>1, <1>13, <2>1
       DEF MarketCloses, CacheExpires, ToggleKillFile, NewDay, CmdHalt, loopVars,
           countVars, DayTypes
<1>14. ASSUME \/ \E c \in Stocks : CooldownElapses(c)
              \/ \E i \in DOMAIN ledger : WorkerSaves(i)
       PROVE  DayTypes'
  <2>1. ledger' \in Seq(RowType)
    BY <1>14, FlagsOnly
  <2> QED
    BY <1>1, <1>14, <2>1 DEF CooldownElapses, WorkerSaves, loopVars, countVars
<1>15. CASE UNCHANGED vars
  BY <1>1, <1>15 DEF vars, DayTypes
<1> QED
  BY <1>2, <1>3, <1>4, <1>5, <1>6, <1>7, <1>8, <1>9, <1>10, <1>11, <1>12, <1>13, <1>14,
     <1>15 DEF Next, Engine, World

\* A restarted process knows no order and has nothing to do before its first cycle has
\* restored the day, and the rows it will find are saved.
Waking ==
    ~restored =>
        /\ pc \in {"idle", "sweep"} /\ job # "cycle" /\ todo = {}
        /\ \A c \in Stocks : pending[c] = NoOrder
        /\ \A i \in DOMAIN ledger : ledger[i].saved

\* Before the market opens nothing runs and nothing is recorded.
Morning == phase = "pre" => pc = "idle" /\ ledger = <<>>

LEMMA WakingStep ==
    ASSUME Recovered
    PROVE  /\ EngineTypes /\ TrackingInv /\ DayTypes /\ Waking /\ Morning /\ [Next]_vars
           => Waking' /\ Morning'
<1> SUFFICES ASSUME EngineTypes, TrackingInv, DayTypes, Waking, Morning, [Next]_vars
             PROVE  Waking' /\ Morning'
  OBVIOUS
<1>1. ASSUME SameRows  PROVE /\ ledger = <<>> => ledger' = <<>>
                             /\ (\A i \in DOMAIN ledger : ledger[i].saved)
                                  => \A i \in DOMAIN ledger' : ledger'[i].saved
  <2>1. ASSUME ledger = <<>>  PROVE ledger' = <<>>
    <3>1. ledger \in Seq(RowType) /\ DOMAIN ledger' = {}
      BY <1>1, <2>1 DEF SameRows, DayTypes
    <3>2. ledger' \in Seq(RowType)
      <4> QED
        BY DayTypesStep DEF DayTypes
    <3> QED
      BY <3>1, <3>2
  <2> QED
    BY <1>1, <2>1 DEF SameRows
\* Nothing that the two look at changes, but for flags of the rows.
<1>2. ASSUME SameRows, UNCHANGED <<restored, phase, pc, job, todo, pending>>
      PROVE  Waking' /\ Morning'
  BY <1>1, <1>2 DEF Waking, Morning
\* A restored process stays one, and what runs when the market is open or closed.
<1>3. ASSUME restored, restored', phase # "pre", phase' # "pre"
      PROVE  Waking' /\ Morning'
  BY <1>3 DEF Waking, Morning
<1>4. CASE CycleFrozen \/ CycleBegin \/ CycleBreakerOpen
  <2>1. /\ phase = "open" /\ UNCHANGED <<phase, ledger>> /\ pending' = AgedOrders
        /\ \/ restored'
           \/ UNCHANGED <<restored, pc, job, todo>>
    BY <1>4 DEF CycleFrozen, CycleBegin, CycleBreakerOpen, worldVars, loopVars, countVars,
                RestoreIfNeeded
  <2> QED
    BY <2>1, AgedMeasured DEF Waking, Morning
<1>5. ASSUME NEW c \in Stocks, SweepReconciles(c) \/ SweepCancels(c)
      PROVE  Waking' /\ Morning'
  <2>1. pc = "sweep" /\ c \in todo /\ UNCHANGED <<phase, restored>>
    BY <1>5 DEF SweepReconciles, SweepCancels, worldVars, countVars
  <2> QED
    BY <2>1, <1>3 DEF Waking, Morning
<1>6. ASSUME pc \notin {"idle", "sweep"}, UNCHANGED <<phase, restored>>
      PROVE  Waking' /\ Morning'
  BY <1>3, <1>6 DEF Waking, Morning
<1>7. CASE \/ CancelOrder \/ ReadBalance \/ ReadBalanceFails \/ ApiLimit \/ BreakerOpens
           \/ ConfirmFilled \/ ConfirmUnfilled
  BY <1>6, <1>7
     DEF CancelOrder, ReadBalance, ReadBalanceFails, ApiLimit, BreakerOpens, ConfirmFilled,
         ConfirmUnfilled, worldVars, countVars
<1>8. ASSUME NEW c \in Stocks,
             \/ SkipStock(c) \/ BuyUntradable(c)
             \/ \E side \in Sides :
                  OrderAccepted(c, side) \/ OrderReplyLost(c, side) \/ OrderRejected(c, side)
      PROVE  Waking' /\ Morning'
  BY <1>6, <1>8
     DEF SkipStock, BuyUntradable, OrderAccepted, OrderReplyLost, OrderRejected, worldVars,
         countVars
<1>9. CASE SweepDone
  <2>1. /\ pc = "sweep" /\ UNCHANGED <<phase, restored, todo, pending, ledger>>
        /\ job = "cycle" \/ (pc' = "idle" /\ job' = "none")
    BY <1>9 DEF SweepDone, worldVars, countVars
  <2> QED
    BY <2>1, <1>3 DEF Waking, Morning
<1>10. CASE PostMarket
  <2>1. /\ phase = "closed" /\ UNCHANGED <<phase, restored, pending, ledger>>
        /\ pc' = "sweep" /\ job' = "post" /\ todo' = {c \in Stocks : pending[c] # NoOrder}
    BY <1>10 DEF PostMarket, worldVars, countVars
  <2> QED
    BY <2>1 DEF Waking, Morning
\* A new process.
<1>11. CASE PreMarket
  BY <1>11 DEF PreMarket, MemoryReset, Waking, Morning
<1>12. CASE StartLate
  BY <1>12 DEF StartLate, MemoryReset, Waking, Morning
<1>13. CASE Crash
  <2>1. \A i \in DOMAIN ledger : ledger[i].saved
    BY <1>13 DEF Crash, Recovered
  <2> QED
    BY <1>13, <2>1 DEF Crash, MemoryReset, Waking, Morning
<1>14. CASE NewDay
  <2>1. /\ pc = "idle" /\ ledger' = <<>> /\ UNCHANGED <<restored, pc, job, todo, pending>>
    BY <1>14 DEF NewDay, loopVars, countVars
  <2> QED
    BY <2>1 DEF Waking, Morning
<1>15. CASE MarketCloses
  BY <1>15 DEF MarketCloses, Waking, Morning, loopVars, countVars
\* The rest of the world.
<1>16. ASSUME NEW o \in live, NEW n \in FillSizes(o), BrokerFills(o, n)
       PROVE  Waking' /\ Morning'
  BY <1>2, <1>16, FlagsOnly DEF BrokerFills, loopVars, countVars, worldVars
<1>17. CASE CacheExpires \/ ToggleKillFile \/ (\E on \in BOOLEAN : CmdHalt(on))
  BY <1>2, <1>17, FlagsOnly
     DEF CacheExpires, ToggleKillFile, CmdHalt, loopVars, countVars, worldVars
<1>18. ASSUME \/ \E c \in Stocks : CooldownElapses(c)
              \/ \E i \in DOMAIN ledger : WorkerSaves(i)
       PROVE  Waking' /\ Morning'
  <2>1. SameRows
    BY <1>18, FlagsOnly
  <2>2. UNCHANGED <<restored, phase, pc, job, todo, pending>>
    BY <1>18 DEF CooldownElapses, WorkerSaves, loopVars, countVars, worldVars
  <2> QED
    BY <1>2, <2>1, <2>2
<1>19. CASE UNCHANGED vars
  BY <1>2, <1>19, FlagsOnly DEF vars
<1> QED
  BY <1>4, <1>5, <1>7, <1>8, <1>9, <1>10, <1>11, <1>12, <1>13, <1>14, <1>15, <1>16,
     <1>17, <1>18, <1>19 DEF Next, Engine, World

LEMMA BuysCounted ==
    ASSUME DayTypes, NEW c \in Stocks
    PROVE  IsFiniteSet(Rows("BUY", c)) /\ Count(Rows("BUY", c)) \in Nat
<1>1. IsFiniteSet(DOMAIN ledger)
  BY FS_Interval DEF DayTypes
<1> QED
  BY <1>1, FS_Subset, FS_CardinalityType DEF Rows, Count

LEMMA RowsOfSameRows ==
    ASSUME SameRows, NEW side, NEW c
    PROVE  Rows(side, c)' = Rows(side, c)
BY DEF SameRows, Rows

\* A row of a purchase is one more row of its stock.
LEMMA NewRowCounts ==
    ASSUME DayTypes, NEW row \in RowType, ledger' = Append(ledger, row), NEW d \in Stocks
    PROVE  Count(Rows("BUY", d))'
             = Count(Rows("BUY", d)) + (IF d = row.code /\ row.side = "BUY" THEN 1 ELSE 0)
<1>1. Count(Rows("BUY", d)) \in Nat /\ IsFiniteSet(Rows("BUY", d))
  BY BuysCounted
<1>2. PICK n : n = Len(ledger) + 1
  OBVIOUS
<1>3. /\ DOMAIN ledger = 1..(n - 1) /\ DOMAIN ledger' = 1..n /\ n \in Nat /\ n > 0
      /\ \A i \in 1..(n - 1) : ledger'[i] = ledger[i]
      /\ ledger'[n] = row
  BY <1>2 DEF DayTypes
<1>4. CASE d = row.code /\ row.side = "BUY"
  <2>1. Rows("BUY", d)' = Rows("BUY", d) \cup {n} /\ n \notin Rows("BUY", d)
    BY <1>3, <1>4 DEF Rows
  <2>2. Cardinality(Rows("BUY", d) \cup {n}) = Cardinality(Rows("BUY", d)) + 1
    BY <1>1, <2>1, FS_AddElement
  <2> QED
    BY <1>4, <2>1, <2>2 DEF Count
<1>5. CASE ~(d = row.code /\ row.side = "BUY")
  <2>1. Rows("BUY", d)' = Rows("BUY", d)
    BY <1>3, <1>5 DEF Rows
  <2> QED
    BY <1>1, <1>5, <2>1 DEF Count
<1> QED
  BY <1>4, <1>5

\* A booked purchase is one more row of its stock, if the queue accepts it.
LEMMA BookedRows ==
    ASSUME DayTypes, NEW c \in Stocks, NEW side \in Sides, NEW qty \in Nat,
           Book(c, side, qty), NEW d \in Stocks
    PROVE  /\ Count(Rows("BUY", d))' \in Nat
           /\ Count(Rows("BUY", d))'
                <= Count(Rows("BUY", d)) + (IF d = c /\ side = "BUY" THEN 1 ELSE 0)
<1>1. Count(Rows("BUY", d)) \in Nat
  BY BuysCounted
<1>2. CASE UNCHANGED ledger
  BY <1>1, <1>2 DEF Rows, Count
<1>3. ASSUME NEW row \in RowType, ledger' = Append(ledger, row),
             row.code = c, row.side = side
      PROVE  Count(Rows("BUY", d))'
               = Count(Rows("BUY", d)) + (IF d = c /\ side = "BUY" THEN 1 ELSE 0)
  BY <1>3, NewRowCounts
<1> QED
  BY <1>1, <1>2, <1>3, BookAppends DEF DayTypes

\* Once the day is restored, the memory counts every recorded purchase and knows every
\* stock that was sold at a loss.
Known ==
    restored =>
        /\ \A c \in Stocks : Count(Rows("BUY", c)) <= buysToday[c]
        /\ \A i \in DOMAIN ledger :
             ledger[i].side = "SELL" /\ ledger[i].pnl < 0 => ledger[i].code \in lossSold

LEMMA BookedKnown ==
    ASSUME DayTypes, Known, NEW c \in Stocks, NEW side \in Sides, NEW qty \in Nat,
           Book(c, side, qty), UNCHANGED restored
    PROVE  Known'
<1> SUFFICES ASSUME restored  PROVE Known'
  BY DEF Known
<1>1. \A d \in Stocks : Count(Rows("BUY", d))' <= buysToday'[d]
  <2> SUFFICES ASSUME NEW d \in Stocks  PROVE Count(Rows("BUY", d))' <= buysToday'[d]
    OBVIOUS
  <2>1. /\ Count(Rows("BUY", d)) \in Nat /\ buysToday[d] \in Nat
        /\ Count(Rows("BUY", d)) <= buysToday[d]
    BY BuysCounted DEF Known, DayTypes
  <2>2. buysToday'[d] = buysToday[d] + (IF d = c /\ side = "BUY" THEN 1 ELSE 0)
    BY <2>1, BookAppends DEF DayTypes
  <2> QED
    BY <2>1, <2>2, BookedRows
<1>2. \A i \in DOMAIN ledger' :
        ledger'[i].side = "SELL" /\ ledger'[i].pnl < 0 => ledger'[i].code \in lossSold'
  <2>1. lossSold \subseteq lossSold'
    BY BookAppends DEF DayTypes
  <2>2. CASE UNCHANGED ledger
    BY <2>1, <2>2 DEF Known
  <2>3. ASSUME NEW row \in RowType, ledger' = Append(ledger, row), row.code = c,
               row.side = "SELL" /\ row.pnl < 0 => c \in lossSold'
        PROVE  \A i \in DOMAIN ledger' :
                 ledger'[i].side = "SELL" /\ ledger'[i].pnl < 0
                   => ledger'[i].code \in lossSold'
    <3>1. /\ DOMAIN ledger' = DOMAIN ledger \cup {Len(ledger) + 1}
          /\ \A i \in DOMAIN ledger : ledger'[i] = ledger[i]
          /\ ledger'[Len(ledger) + 1] = row
      BY <2>3 DEF DayTypes
    <3> QED
      BY <2>1, <2>3, <3>1 DEF Known
  <2> QED
    BY <2>2, <2>3, BookAppends DEF DayTypes
<1> QED
  BY <1>1, <1>2 DEF Known

LEMMA NothingRecorded ==
    ASSUME ledger' = <<>>, NEW c
    PROVE  Count(Rows("BUY", c))' = 0 /\ DOMAIN ledger' = {}
<1>1. Rows("BUY", c)' = {}
  BY DEF Rows
<1> QED
  BY <1>1, FS_EmptySet DEF Count

\* What the restore reads is all that was recorded.
LEMMA RestoreKnows ==
    ASSUME Recovered, DayTypes, Waking, Known, RestoreIfNeeded, UNCHANGED ledger
    PROVE  Known'
<1>1. CASE UNCHANGED <<buysToday, lossSold>> /\ restored
  BY <1>1 DEF Known, Rows, Count
<1>2. CASE ~restored /\ RestoreFromTrades
  <2>1. Saved = DOMAIN ledger
    BY <1>2 DEF Waking, Saved
  <2>2. \A c \in Stocks : buysToday'[c] = Count(Rows("BUY", c))
    <3>1. \A c \in Stocks : Saved \cap Rows("BUY", c) = Rows("BUY", c)
      BY <2>1 DEF Rows
    <3> QED
      BY <1>2, <3>1 DEF RestoreFromTrades, Count
  <2>3. \A c \in Stocks : Count(Rows("BUY", c))' = Count(Rows("BUY", c))
                          /\ Count(Rows("BUY", c)) \in Nat
    BY BuysCounted DEF Rows, Count
  <2>4. \A i \in DOMAIN ledger :
          ledger[i].side = "SELL" /\ ledger[i].pnl < 0 => ledger[i].code \in lossSold'
    BY <1>2, <2>1 DEF RestoreFromTrades
  <2>5. \A c \in Stocks : Count(Rows("BUY", c))' <= buysToday'[c]
    BY <2>2, <2>3
  <2> QED
    BY <2>4, <2>5 DEF Known
<1> QED
  BY <1>1, <1>2 DEF RestoreIfNeeded, Recovered

LEMMA KnownStep ==
    ASSUME Recovered
    PROVE  /\ EngineTypes /\ TrackingInv /\ DayTypes /\ Waking /\ Morning /\ Known
           /\ [Next]_vars
           => Known'
<1> SUFFICES ASSUME EngineTypes, TrackingInv, DayTypes, Waking, Morning, Known, [Next]_vars
             PROVE  Known'
  OBVIOUS
<1>1. ASSUME SameRows, UNCHANGED <<buysToday, lossSold, restored>>  PROVE Known'
  <2> SUFFICES ASSUME restored  PROVE Known'
    BY <1>1 DEF Known
  <2>1. \A c \in Stocks : Count(Rows("BUY", c))' <= buysToday'[c]
    <3>1. \A c \in Stocks : Rows("BUY", c)' = Rows("BUY", c)
      BY <1>1, RowsOfSameRows
    <3> QED
      BY <1>1, <3>1 DEF Known, Count
  <2> QED
    BY <1>1, <2>1 DEF Known, SameRows
<1>2. CASE CycleBegin \/ CycleBreakerOpen
  BY <1>2, RestoreKnows DEF CycleBegin, CycleBreakerOpen
<1>3. ASSUME NEW c \in Stocks, SweepReconciles(c)  PROVE Known'
  <2>1. UNCHANGED restored
    BY <1>3 DEF SweepReconciles
  <2> QED
    BY <1>3, <2>1, SweepBooks, BookedKnown
<1>4. CASE ConfirmFilled
  <2>1. UNCHANGED restored
    BY <1>4 DEF ConfirmFilled
  <2> QED
    BY <1>4, <2>1, ConfirmationBooks, BookedKnown
<1>5. CASE PreMarket
  <2>1. ledger' = <<>> /\ buysToday' = NoShares
    BY <1>5 DEF PreMarket, MemoryReset, Morning
  <2> QED
    BY <2>1, NothingRecorded DEF Known, NoShares
<1>6. CASE StartLate \/ Crash
  BY <1>6 DEF StartLate, Crash, Known
<1>7. CASE NewDay
  <2>1. ledger' = <<>> /\ UNCHANGED buysToday
    BY <1>7 DEF NewDay, countVars
  <2> QED
    BY <2>1, NothingRecorded DEF Known, DayTypes
\* Nothing else books, counts or starts a process.
<1>8. ASSUME ~CycleBegin, ~CycleBreakerOpen, ~(\E c \in Stocks : SweepReconciles(c)),
             ~ConfirmFilled, ~PreMarket, ~StartLate, ~Crash, ~NewDay
      PROVE  Known'
  <2>1. SameRows
    BY <1>8, OnlyBookingAppends
  <2>2. ASSUME NEW c \in Stocks,
               \/ SweepCancels(c) \/ SkipStock(c) \/ BuyUntradable(c) \/ CooldownElapses(c)
               \/ \E side \in Sides :
                    OrderAccepted(c, side) \/ OrderReplyLost(c, side) \/ OrderRejected(c, side)
        PROVE  UNCHANGED <<buysToday, lossSold, restored>>
    BY <2>2
       DEF SweepCancels, SkipStock, BuyUntradable, CooldownElapses, OrderAccepted,
           OrderReplyLost, OrderRejected, countVars
  <2>3. CASE \/ CycleFrozen \/ CancelOrder \/ SweepDone \/ ReadBalance \/ ReadBalanceFails
             \/ ApiLimit \/ BreakerOpens \/ ConfirmUnfilled \/ PostMarket
    BY <1>1, <2>1, <2>3
       DEF CycleFrozen, CancelOrder, SweepDone, ReadBalance, ReadBalanceFails, ApiLimit,
           BreakerOpens, ConfirmUnfilled, PostMarket, countVars
  <2>4. CASE \/ MarketCloses \/ CacheExpires \/ ToggleKillFile
             \/ (\E on \in BOOLEAN : CmdHalt(on)) \/ (\E i \in DOMAIN ledger : WorkerSaves(i))
             \/ (\E o \in live : \E n \in FillSizes(o) : BrokerFills(o, n))
             \/ UNCHANGED vars
    BY <1>1, <2>1, <2>4
       DEF MarketCloses, CacheExpires, ToggleKillFile, CmdHalt, WorkerSaves, BrokerFills,
           countVars, vars
  <2> QED
    BY <1>1, <1>8, <2>1, <2>2, <2>3, <2>4 DEF Next, Engine, World
<1> QED
  BY <1>2, <1>3, <1>4, <1>5, <1>6, <1>7, <1>8

-----------------------------------------------------------------------------
(* Entry limit and loss block *)

\* An order to buy the stock that has still to be booked.
Buying(c) == pending[c].side = "BUY" \/ (Confirming(c) /\ op.side = "BUY")

Room ==
    \A c \in Stocks :
        Count(Rows("BUY", c)) + (IF Buying(c) THEN 1 ELSE 0) <= MaxBuysPerStock

LEMMA RoomStep ==
    /\ EngineTypes /\ TrackingInv /\ DayTypes /\ Waking /\ Known /\ Room /\ [Next]_vars
    => Room'
<1> SUFFICES ASSUME EngineTypes, TrackingInv, DayTypes, Waking, Known, Room, [Next]_vars
             PROVE  Room'
  OBVIOUS
<1>0. \A c \in Stocks : Count(Rows("BUY", c)) \in Nat /\ MaxBuysPerStock \in Nat
  BY BuysCounted, EngineAssumption
\* No more rows, and no new order.
<1>1. ASSUME SameRows, \A c \in Stocks : Buying(c)' => Buying(c)  PROVE Room'
  <2>1. \A c \in Stocks : Count(Rows("BUY", c))' = Count(Rows("BUY", c))
    BY <1>1, RowsOfSameRows DEF Count
  <2> QED
    BY <1>0, <1>1, <2>1 DEF Room
\* A booked purchase takes the place of the order it fills.
<1>2. ASSUME NEW c \in Stocks, NEW side \in Sides, NEW qty \in Nat, Book(c, side, qty),
             side = "BUY" => Buying(c) /\ ~Buying(c)',
             \A d \in Stocks : Buying(d)' => Buying(d)
      PROVE  Room'
  <2> SUFFICES ASSUME NEW d \in Stocks
               PROVE  Count(Rows("BUY", d))' + (IF Buying(d)' THEN 1 ELSE 0)
                        <= MaxBuysPerStock
    BY DEF Room
  <2>1. /\ Count(Rows("BUY", d))' \in Nat
        /\ Count(Rows("BUY", d))'
             <= Count(Rows("BUY", d)) + (IF d = c /\ side = "BUY" THEN 1 ELSE 0)
    BY <1>2, BookedRows
  <2>2. /\ Count(Rows("BUY", d)) + (IF Buying(d) THEN 1 ELSE 0) <= MaxBuysPerStock
        /\ Count(Rows("BUY", d)) \in Nat /\ MaxBuysPerStock \in Nat
    BY <1>0 DEF Room
  <2>3. CASE d = c /\ side = "BUY"
    BY <1>2, <2>1, <2>2, <2>3
  <2>4. CASE ~(d = c /\ side = "BUY")
    BY <1>2, <2>1, <2>2, <2>4
  <2> QED
    BY <2>3, <2>4
<1>3. ASSUME NEW c \in Stocks, SweepReconciles(c)  PROVE Room'
  <2>1. /\ pc = "sweep" /\ pc' = pc /\ pending' = [pending EXCEPT ![c] = NoOrder]
    BY <1>3 DEF SweepReconciles
  <2>2. \A d \in Stocks : Buying(d)' => Buying(d)
    BY <2>1 DEF Buying, Confirming, TrackingInv, NoOrder
  <2>3. ~Buying(c)'
    BY <2>1 DEF Buying, Confirming, TrackingInv, NoOrder
  <2>4. PICK side \in Sides, qty \in Nat : side = pending[c].side /\ Book(c, side, qty)
    BY <1>3, SweepBooks
  <2>5. side = "BUY" => Buying(c)
    BY <2>4 DEF Buying
  <2> QED
    BY <1>2, <2>2, <2>3, <2>4, <2>5
<1>4. CASE ConfirmFilled
  <2>1. /\ pc = "confirm" /\ pc' # "confirm" /\ UNCHANGED pending
        /\ cur \in Stocks /\ pending[cur] = NoOrder
    BY <1>4 DEF ConfirmFilled, TrackingInv, Advance, CycleReturns
  <2>2. \A d \in Stocks : Buying(d)' => Buying(d)
    BY <2>1 DEF Buying, Confirming
  <2>3. PICK side \in Sides, qty \in Nat : side = op.side /\ Book(cur, side, qty)
    BY <1>4, ConfirmationBooks
  <2>4. side = "BUY" => Buying(cur)
    BY <2>1, <2>3 DEF Buying, Confirming
  <2>5. PICK k \in Stocks : k = cur
    BY <2>1
  <2>6. Book(k, side, qty) /\ (side = "BUY" => Buying(k) /\ ~Buying(k)')
    <3>1. ~Buying(k)'
      BY <2>1, <2>5 DEF Buying, Confirming, NoOrder
    <3> QED
      BY <2>3, <2>4, <2>5, <3>1
  <2> QED
    BY <1>2, <2>2, <2>6
<1>5. CASE NewDay \/ PreMarket \/ StartLate \/ Crash
  <2>1. CASE NewDay
    <3>1. \A c \in Stocks : Count(Rows("BUY", c))' = 0 /\ (Buying(c)' => Buying(c))
      BY <2>1, NothingRecorded DEF NewDay, Buying, Confirming, loopVars
    <3> QED
      BY <1>0, <3>1 DEF Room
  <2>2. CASE PreMarket \/ StartLate \/ Crash
    <3>1. /\ ledger' = ledger /\ pc' = "idle" /\ pending' = [c \in Stocks |-> NoOrder]
      BY <2>2 DEF PreMarket, StartLate, Crash, MemoryReset
    <3>2. SameRows
      BY <3>1, FlagsOnly
    <3>3. \A c \in Stocks : ~Buying(c)'
      BY <3>1 DEF Buying, Confirming, NoOrder
    <3> QED
      BY <1>1, <3>2, <3>3
  <2> QED
    BY <1>5, <2>1, <2>2
\* The gate looks at the counter, the counter knows every recorded purchase.
<1>6. ASSUME NEW c \in Stocks, NEW side \in Sides, OrderAccepted(c, side)  PROVE Room'
  <2>1. /\ pc = "stocks" /\ pc' = "confirm" /\ cur' = c /\ UNCHANGED <<pending, ledger>>
        /\ Allowed(c, side)
    BY <1>6 DEF OrderAccepted
  <2>2. op'.side = side
    BY <1>6 DEF OrderAccepted
  <2>3. \A d \in Stocks : Count(Rows("BUY", d))' = Count(Rows("BUY", d))
    BY <2>1 DEF Rows, Count
  <2>4. CASE side = "BUY"
    <3>1. restored /\ buysToday[c] < MaxBuysPerStock /\ buysToday[c] \in Nat
      BY <2>1, <2>4 DEF Waking, Allowed, BuyAllowed, DayTypes
    <3>2. Count(Rows("BUY", c)) + 1 <= MaxBuysPerStock
      BY <1>0, <3>1 DEF Known
    <3>3. \A d \in Stocks : d # c => (Buying(d)' => Buying(d))
      BY <2>1 DEF Buying, Confirming
    <3> QED
      BY <1>0, <2>3, <3>2, <3>3 DEF Room
  <2>5. CASE side # "BUY"
    <3>1. \A d \in Stocks : Buying(d)' => Buying(d)
      BY <2>1, <2>2, <2>5 DEF Buying, Confirming
    <3> QED
      BY <1>0, <2>3, <3>1 DEF Room
  <2> QED
    BY <2>4, <2>5
\* The order moves from the confirmation into the book.
<1>7. CASE ConfirmUnfilled
  <2>1. pc = "confirm" /\ cur \in Stocks /\ UNCHANGED ledger
    BY <1>7 DEF ConfirmUnfilled, TrackingInv
  <2>2. \A c \in Stocks : Buying(c)' => Buying(c)
    <3>1. CASE UNCHANGED <<pc, cur, op, pending>>
      BY <3>1 DEF Buying, Confirming
    <3>2. CASE pending' = [pending EXCEPT ![cur] = op] /\ Advance(cur)
      <4>1. pc' # "confirm"
        BY <3>2 DEF Advance, CycleReturns
      <4> QED
        BY <2>1, <3>2, <4>1 DEF Buying, Confirming, TrackingInv
    <3> QED
      BY <1>7, <3>1, <3>2 DEF ConfirmUnfilled
  <2>3. SameRows
    BY <2>1, FlagsOnly
  <2> QED
    BY <1>1, <2>2, <2>3
\* The rest adds neither rows nor orders to buy.
<1>8. ASSUME ~(\E c \in Stocks : SweepReconciles(c)), ~ConfirmFilled, ~NewDay,
             ~PreMarket, ~StartLate, ~Crash, ~ConfirmUnfilled,
             ~(\E c \in Stocks, side \in Sides : OrderAccepted(c, side))
      PROVE  Room'
  <2>1. SameRows
    BY <1>8, OnlyBookingAppends
  <2>2. ASSUME \/ UNCHANGED <<pc, cur, op, pending>>
               \/ pc' # "confirm" /\ UNCHANGED pending
        PROVE  \A c \in Stocks : Buying(c)' => Buying(c)
    BY <2>2 DEF Buying, Confirming
  <2>3. CASE CycleFrozen \/ CycleBegin \/ CycleBreakerOpen
    <3>1. pending' = AgedOrders /\ pc' # "confirm"
      BY <2>3 DEF CycleFrozen, CycleBegin, CycleBreakerOpen, loopVars
    <3> QED
      BY <1>1, <2>1, <3>1, AgedMeasured DEF Buying, Confirming
  <2>4. CASE CancelOrder
    <3>1. pending' = [pending EXCEPT ![cur] = NoOrder] /\ pc' = "sweep"
      BY <2>4 DEF CancelOrder
    <3>2. \A c \in Stocks : Buying(c)' => Buying(c)
      BY <3>1 DEF Buying, Confirming, TrackingInv, NoOrder
    <3> QED
      BY <1>1, <2>1, <3>2
  <2>5. ASSUME NEW c \in Stocks,
               \/ SweepCancels(c) \/ SkipStock(c) \/ BuyUntradable(c) \/ CooldownElapses(c)
               \/ \E side \in Sides : OrderReplyLost(c, side) \/ OrderRejected(c, side)
        PROVE  \A d \in Stocks : Buying(d)' => Buying(d)
    BY <2>2, <2>5, ReturnLeaves
       DEF SweepCancels, SkipStock, BuyUntradable, CooldownElapses, OrderReplyLost,
           OrderRejected, loopVars
  <2>6. CASE \/ SweepDone \/ ReadBalance \/ ReadBalanceFails \/ ApiLimit \/ BreakerOpens
             \/ PostMarket
    BY <1>1, <2>1, <2>2, <2>6
       DEF SweepDone, ReadBalance, ReadBalanceFails, ApiLimit, BreakerOpens, PostMarket,
           CycleReturns
  <2>7. CASE \/ MarketCloses \/ CacheExpires \/ ToggleKillFile
             \/ (\E on \in BOOLEAN : CmdHalt(on)) \/ (\E i \in DOMAIN ledger : WorkerSaves(i))
             \/ (\E o \in live : \E n \in FillSizes(o) : BrokerFills(o, n))
             \/ UNCHANGED vars
    BY <1>1, <2>1, <2>2, <2>7
       DEF MarketCloses, CacheExpires, ToggleKillFile, CmdHalt, WorkerSaves, BrokerFills,
           loopVars, vars
  <2> QED
    BY <1>1, <1>8, <2>1, <2>3, <2>4, <2>5, <2>6, <2>7 DEF Next, Engine, World
<1> QED
  BY <1>3, <1>4, <1>5, <1>6, <1>7, <1>8

RecordInv ==
    EngineTypes /\ TrackingInv /\ DayTypes /\ Waking /\ Morning /\ Known

LEMMA RecordInvariance ==
    ASSUME Recovered
    PROVE  Spec => []RecordInv
<1>1. Init => RecordInv
  <2> SUFFICES ASSUME Init  PROVE RecordInv
    OBVIOUS
  <2>1. Waking /\ Morning /\ Known
    BY DEF Init, Waking, Morning, Known
  <2> QED
    BY <2>1, TypesInit, TrackingInit, DayTypesInit DEF RecordInv
<1>2. RecordInv /\ [Next]_vars => RecordInv'
  BY TypesStep, TrackingStep, DayTypesStep, WakingStep, KnownStep DEF RecordInv
<1> QED
  BY <1>1, <1>2, PTL DEF Spec

\* For any stocks and limits, under every failure of broker, API, queue and process but a
\* restore that fails and a crash that overtakes the worker: the recorded purchases of a
\* stock and the one that is pending or being confirmed never exceed
\* max_daily_trades_per_stock, also when an entry is only recognised cycles later.
THEOREM BuysStayBounded ==
    ASSUME Recovered
    PROVE  Spec => []BuysPerStockBounded
<1>1. Init => Room
  <2> SUFFICES ASSUME Init, NEW c \in Stocks
               PROVE  Count(Rows("BUY", c)) + (IF Buying(c) THEN 1 ELSE 0) <= MaxBuysPerStock
    BY DEF Room
  <2>1. ledger = <<>> /\ ~Buying(c)
    BY DEF Init, Buying, Confirming, NoOrder
  <2>2. Rows("BUY", c) = {}
    BY <2>1 DEF Rows
  <2>3. Count(Rows("BUY", c)) = 0 /\ MaxBuysPerStock \in Nat
    BY <2>2, FS_EmptySet, EngineAssumption DEF Count
  <2> QED
    BY <2>1, <2>3
<1>2. RecordInv /\ Room /\ [Next]_vars => Room'
  BY RoomStep DEF RecordInv
<1>3. Room => BuysPerStockBounded
  <2> SUFFICES ASSUME Room, NEW c \in Stocks
               PROVE  Count(Rows("BUY", c)) + Count({c} \cap TrackedBuys) <= MaxBuysPerStock
    BY DEF BuysPerStockBounded
  <2>1. CASE Buying(c)
    <3>1. {c} \cap TrackedBuys = {c}
      BY <2>1 DEF Buying, TrackedBuys
    <3> QED
      BY <2>1, <3>1, FS_Singleton DEF Room, Count
  <2>2. CASE ~Buying(c)
    <3>1. {c} \cap TrackedBuys = {}
      BY <2>2 DEF Buying, TrackedBuys
    <3> QED
      BY <2>2, <3>1, FS_EmptySet DEF Room, Count
  <2> QED
    BY <2>1, <2>2
<1>4. Spec => []RecordInv
  BY RecordInvariance
<1> QED
  BY <1>1, <1>2, <1>3, <1>4, PTL DEF Spec

\* An order to buy reaches the broker through the gates only, in a restored process.
LEMMA BuysPassGates ==
    ASSUME RecordInv, Next, NEW o \in NewOrders("BUY")
    PROVE  restored /\ phase = "open" /\ BuyAllowed(o.code)
<1>1. /\ lastNo \in Nat /\ lastNo' = lastNo + 1 /\ o \in live' /\ o \notin live
      /\ o.side = "BUY"
  BY DEF NewOrders, RecordInv, EngineTypes
<1>2. lastNo' # lastNo /\ lastNo' # 0
  BY <1>1
<1>3. \E c \in Stocks, side \in Sides : OrderAccepted(c, side) \/ OrderReplyLost(c, side)
  <2>1. ~(CycleFrozen \/ CycleBegin \/ CycleBreakerOpen \/ CancelOrder \/ SweepDone)
    BY <1>2
       DEF CycleFrozen, CycleBegin, CycleBreakerOpen, CancelOrder, SweepDone, brokerVars
  <2>2. \A c \in Stocks :
          ~(SweepReconciles(c) \/ SweepCancels(c) \/ SkipStock(c) \/ BuyUntradable(c))
    BY <1>2 DEF SweepReconciles, SweepCancels, SkipStock, BuyUntradable, brokerVars
  <2>3. ~(ReadBalance \/ ReadBalanceFails \/ ApiLimit \/ BreakerOpens)
    BY <1>2 DEF ReadBalance, ReadBalanceFails, ApiLimit, BreakerOpens, brokerVars
  <2>4. \A c \in Stocks, side \in Sides : ~OrderRejected(c, side)
    BY <1>2 DEF OrderRejected, brokerVars
  <2>5. ~(ConfirmFilled \/ ConfirmUnfilled \/ PreMarket \/ StartLate \/ PostMarket)
    BY <1>2 DEF ConfirmFilled, ConfirmUnfilled, PreMarket, StartLate, PostMarket, brokerVars
  <2>6. ~World
    BY <1>2
       DEF World, BrokerFills, MarketCloses, NewDay, CacheExpires, CooldownElapses,
           WorkerSaves, ToggleKillFile, CmdHalt, Crash, brokerVars
  <2> QED
    BY <2>1, <2>2, <2>3, <2>4, <2>5, <2>6 DEF Next, Engine
<1>4. PICK c \in Stocks, side \in Sides : OrderAccepted(c, side) \/ OrderReplyLost(c, side)
  BY <1>3
<1>5. /\ pc = "stocks" /\ Allowed(c, side)
      /\ \E qty \in OrderSizes(c, side) : Placed(c, side, qty)
  BY <1>4 DEF OrderAccepted, OrderReplyLost
<1>6. PICK qty \in OrderSizes(c, side) : Placed(c, side, qty)
  BY <1>5
<1>7. o = [no |-> lastNo + 1, code |-> c, side |-> side, qty |-> qty] /\ phase = "open"
  BY <1>1, <1>6 DEF Placed, Accepts
<1>8. o.code = c /\ BuyAllowed(c)
  BY <1>1, <1>5, <1>7 DEF Allowed
<1> QED
  BY <1>5, <1>7, <1>8 DEF RecordInv, Waking

\* Under the same failures, with loss_rebuy_block_same_day on: no order to buy a stock
\* reaches the broker on a day on which a sale of the stock was recorded at a loss,
\* whether the fill was confirmed or reconciled, before a restart or after.
THEOREM LossesBlockBuys ==
    ASSUME Recovered
    PROVE  Spec => NoBuyAfterLoss
<1> DEFINE Blocked ==
      \A o \in NewOrders("BUY") :
         LossRebuyBlock => \A i \in Rows("SELL", o.code) : ledger[i].pnl >= 0
<1>1. ASSUME RecordInv, Next, NEW o \in NewOrders("BUY"), LossRebuyBlock,
             NEW i \in Rows("SELL", o.code)
      PROVE  ledger[i].pnl >= 0
  <2>1. o.code \notin lossSold /\ restored
    BY <1>1, BuysPassGates DEF BuyAllowed
  <2>2. i \in DOMAIN ledger /\ ledger[i].side = "SELL" /\ ledger[i].code = o.code
    BY DEF Rows
  <2>3. ledger[i].pnl \in Int
    <3>1. ledger[i] \in RowType
      BY <1>1, <2>2 DEF RecordInv, DayTypes
    <3> QED
      BY <3>1 DEF RowType
  <2> QED
    BY <1>1, <2>1, <2>2, <2>3 DEF RecordInv, Known
<1>2. RecordInv /\ [Next]_vars => [Blocked]_vars
  BY <1>1
<1>3. Spec => []RecordInv
  BY RecordInvariance
<1> QED
  BY <1>2, <1>3, PTL DEF Spec, NoBuyAfterLoss

-----------------------------------------------------------------------------
(* Memory and ledger *)

LEMMA RecordedTyped ==
    ASSUME NEW r \in RiskState, NEW p \in Int
    PROVE  Recorded(r, p) \in RiskState
<1> DEFINE cum == r.cum + p
           peak == IF cum > r.peak THEN cum ELSE r.peak
           losses == NextLosses(r.losses, p)
<1>1. cum \in Int /\ peak \in Nat /\ losses \in Nat
  BY DEF RiskState, NextLosses
<1>2. Breach(cum, peak, losses) \in BOOLEAN
  BY DEF Breach, DrawdownBreach, LossAbsBreach, LossStreakBreach
<1>3. BreachReason(cum, peak, losses) \in Reasons
  BY DEF BreachReason, Reasons
<1> HIDE DEF cum, peak, losses
<1>4. r.halted \in BOOLEAN /\ r.reason \in Reasons
  BY DEF RiskState
<1>5. [cum |-> cum, peak |-> peak, losses |-> losses,
       halted |-> r.halted \/ Breach(cum, peak, losses),
       reason |-> IF r.reason # "none" THEN r.reason ELSE BreachReason(cum, peak, losses)]
      \in RiskState
  BY <1>1, <1>2, <1>3, <1>4 DEF RiskState
<1> QED
  BY <1>5 DEF Recorded, cum, peak, losses

\* What the replay does with a row.
Counts(rows, chosen, k) == k \in chosen /\ rows[k].side = "SELL"

LEMMA RiskAfterDef ==
    ASSUME NEW rows, rows \in Seq(RowType), NEW chosen
    PROVE  /\ RiskAfter(rows, chosen)[0] = FreshRisk
           /\ \A k \in 1..Len(rows) :
                RiskAfter(rows, chosen)[k] =
                  IF Counts(rows, chosen, k)
                  THEN Recorded(RiskAfter(rows, chosen)[k - 1], rows[k].pnl)
                  ELSE RiskAfter(rows, chosen)[k - 1]
<1> DEFINE P(h) == h = [k \in 0..Len(rows) |->
                          IF k = 0 THEN FreshRisk
                          ELSE IF k \in chosen /\ rows[k].side = "SELL"
                               THEN Recorded(h[k - 1], rows[k].pnl) ELSE h[k - 1]]
<1>1. PICK A, a, n : A = RiskState /\ a = FreshRisk /\ n = Len(rows)
  OBVIOUS
<1>2. PICK step : step = [k \in 1..n |-> [r \in A |->
                            IF Counts(rows, chosen, k) THEN Recorded(r, rows[k].pnl) ELSE r]]
  OBVIOUS
<1>3. a \in A /\ n \in Nat /\ step \in [1..n -> [A -> A]]
  <2>1. a \in A /\ n \in Nat
    BY <1>1 DEF FreshRisk, RiskState, Reasons
  <2>2. ASSUME NEW k \in 1..n, NEW r \in A
        PROVE  (IF Counts(rows, chosen, k) THEN Recorded(r, rows[k].pnl) ELSE r) \in A
    <3>1. rows[k] \in RowType
      BY <1>1
    <3>2. rows[k].pnl \in Int
      BY <3>1 DEF RowType
    <3>3. Recorded(r, rows[k].pnl) \in A
      BY <1>1, <3>2, RecordedTyped
    <3> QED
      BY <3>3
  <2> QED
    BY <1>2, <2>1, <2>2
<1>4. PICK f : f \in [0..n -> A] /\ f[0] = a /\ \A k \in 1..n : f[k] = step[k][f[k - 1]]
  BY ONLY <1>3, RecursionExists
<1>5. ASSUME NEW k \in 1..n
      PROVE  f[k] = IF Counts(rows, chosen, k) THEN Recorded(f[k - 1], rows[k].pnl)
                    ELSE f[k - 1]
  <2>1. k - 1 \in 0..n /\ f[k - 1] \in A
    BY <1>3, <1>4
  <2> QED
    BY <1>2, <1>4, <2>1
<1>6. P(f)
  BY <1>1, <1>4, <1>5 DEF Counts
<1>7. P(RiskAfter(rows, chosen))
  <2>1. RiskAfter(rows, chosen) = CHOOSE h : P(h)
    BY DEF RiskAfter
  <2> HIDE DEF P
  <2> QED
    BY <1>6, <2>1
<1>8. PICK after : after = RiskAfter(rows, chosen)
  OBVIOUS
<1>9. P(after) /\ 0 \in 0..Len(rows) /\ \A k \in 1..Len(rows) : k \in 0..Len(rows) /\ k # 0
  BY <1>7, <1>8
<1> QED
  BY <1>8, <1>9 DEF Counts

\* Rows that count alike have the same effect.
LEMMA ReplaysAgree ==
    ASSUME NEW rows, rows \in Seq(RowType), NEW chosen,
           NEW rows2, rows2 \in Seq(RowType), NEW chosen2,
           NEW n \in Nat, n <= Len(rows), n <= Len(rows2),
           \A k \in 1..n :
             /\ Counts(rows, chosen, k) <=> Counts(rows2, chosen2, k)
             /\ Counts(rows, chosen, k) => rows[k].pnl = rows2[k].pnl
    PROVE  RiskAfter(rows, chosen)[n] = RiskAfter(rows2, chosen2)[n]
<1>1. PICK f, g : f = RiskAfter(rows, chosen) /\ g = RiskAfter(rows2, chosen2)
  OBVIOUS
<1>2. f[0] = g[0]
  BY <1>1, RiskAfterDef
<1>3. ASSUME NEW k \in 1..n, f[k - 1] = g[k - 1]  PROVE f[k] = g[k]
  <2>1. k \in 1..Len(rows) /\ k \in 1..Len(rows2)
    OBVIOUS
  <2>2. f[k] = IF Counts(rows, chosen, k) THEN Recorded(f[k - 1], rows[k].pnl) ELSE f[k - 1]
    BY <1>1, <2>1, RiskAfterDef
  <2>3. g[k] = IF Counts(rows2, chosen2, k) THEN Recorded(g[k - 1], rows2[k].pnl)
               ELSE g[k - 1]
    BY <1>1, <2>1, RiskAfterDef
  <2> QED
    BY <1>3, <2>2, <2>3
<1>4. \A k \in 0..n : f[k] = g[k]
  <2>1. n \in Nat
    OBVIOUS
  <2>2. \A k \in 1..n : f[k - 1] = g[k - 1] => f[k] = g[k]
    BY <1>3
  <2> QED
    BY ONLY <1>2, <2>1, <2>2, RecursionsAgree
<1> QED
  BY <1>1, <1>4

\* Without sales nothing is recorded.
LEMMA NoSalesNoRisk ==
    ASSUME NEW rows, rows \in Seq(RowType), NEW chosen,
           \A k \in 1..Len(rows) : ~Counts(rows, chosen, k)
    PROVE  RiskAfter(rows, chosen)[Len(rows)] = FreshRisk
<1>1. PICK f, g, n : /\ f = RiskAfter(rows, chosen) /\ n = Len(rows)
                     /\ g = [k \in 0..n |-> FreshRisk]
  OBVIOUS
<1>2. f[0] = g[0]
  BY <1>1, RiskAfterDef
<1>3. \A k \in 1..n : f[k - 1] = g[k - 1] => f[k] = g[k]
  <2> SUFFICES ASSUME NEW k \in 1..n, f[k - 1] = g[k - 1]  PROVE f[k] = g[k]
    OBVIOUS
  <2>1. f[k] = f[k - 1]
    BY <1>1, RiskAfterDef
  <2>2. g[k - 1] = FreshRisk /\ g[k] = FreshRisk
    BY <1>1
  <2> QED
    BY <2>1, <2>2
<1>4. n \in Nat
  BY <1>1
<1>5. \A k \in 0..n : f[k] = g[k]
  BY ONLY <1>2, <1>3, <1>4, RecursionsAgree
<1> QED
  BY <1>1, <1>4, <1>5

DaysRisk == ReplaySells(DOMAIN ledger)

LEMMA RiskOfSameRows ==
    ASSUME DayTypes, ledger' \in Seq(RowType), SameRows
    PROVE  DaysRisk' = DaysRisk
<1>1. PICK n, rows, rows2 : n = Len(ledger) /\ rows = ledger /\ rows2 = ledger'
  OBVIOUS
<1>2. /\ rows \in Seq(RowType) /\ rows2 \in Seq(RowType)
      /\ n \in Nat /\ n = Len(rows) /\ n = Len(rows2)
      /\ DOMAIN rows = 1..n /\ DOMAIN rows2 = 1..n
  BY <1>1 DEF DayTypes, SameRows
<1>3. \A k \in 1..n : rows2[k].side = rows[k].side /\ rows2[k].pnl = rows[k].pnl
  BY <1>1, <1>2 DEF SameRows
<1>4. RiskAfter(rows, DOMAIN rows)[n] = RiskAfter(rows2, DOMAIN rows2)[n]
  BY <1>2, <1>3, ReplaysAgree DEF Counts
<1> QED
  BY <1>1, <1>2, <1>4 DEF DaysRisk, ReplaySells

LEMMA RiskOfNewRow ==
    ASSUME DayTypes, NEW row \in RowType, ledger' = Append(ledger, row)
    PROVE  DaysRisk' = IF row.side = "SELL" THEN Recorded(DaysRisk, row.pnl) ELSE DaysRisk
<1>1. PICK n, rows, rows2 : n = Len(ledger) /\ rows = ledger /\ rows2 = ledger'
  OBVIOUS
<1>2. /\ rows \in Seq(RowType) /\ rows2 \in Seq(RowType)
      /\ n \in Nat /\ n = Len(rows) /\ n + 1 = Len(rows2)
      /\ DOMAIN rows = 1..n /\ DOMAIN rows2 = 1..(n + 1)
      /\ \A k \in 1..n : rows2[k] = rows[k]
      /\ rows2[n + 1] = row
  BY <1>1 DEF DayTypes
<1>3. RiskAfter(rows, DOMAIN rows)[n] = RiskAfter(rows2, DOMAIN rows2)[n]
  BY <1>2, ReplaysAgree DEF Counts
<1>4. RiskAfter(rows2, DOMAIN rows2)[n + 1] =
        IF row.side = "SELL" THEN Recorded(RiskAfter(rows2, DOMAIN rows2)[n], row.pnl)
                             ELSE RiskAfter(rows2, DOMAIN rows2)[n]
  <2>1. n + 1 \in 1..Len(rows2) /\ (n + 1) - 1 = n
    BY <1>2
  <2>2. Counts(rows2, DOMAIN rows2, n + 1) <=> row.side = "SELL"
    BY <1>2 DEF Counts
  <2> QED
    BY <1>2, <2>1, <2>2, RiskAfterDef
<1>5. DaysRisk = RiskAfter(rows, DOMAIN rows)[n]
  BY <1>1 DEF DaysRisk, ReplaySells
<1>6. DaysRisk' = RiskAfter(rows2, DOMAIN rows2)[n + 1]
  BY <1>1, <1>2 DEF DaysRisk, ReplaySells
<1> QED
  BY <1>3, <1>4, <1>5, <1>6

LEMMA RiskOfNoRows ==
    ASSUME NEW rows, rows = <<>>, NEW chosen
    PROVE  RiskAfter(rows, chosen)[Len(rows)] = FreshRisk
<1>1. rows \in Seq(RowType) /\ Len(rows) = 0
  OBVIOUS
<1>2. \A k \in 1..Len(rows) : ~Counts(rows, chosen, k)
  BY <1>1
<1> QED
  BY ONLY <1>1, <1>2, NoSalesNoRisk

\* Every recorded fill reaches the queue, and nobody but the engine moves its limits.
Undisturbed == Faults \cap {"restoreFail", "undrained", "enqueueFail", "operator"} = {}

\* Memory is what the rows of the day make of it, from the restore until the next morning;
\* before the restore it is as good as new.
Remembered ==
    /\ crashes \in Nat
    /\ restored /\ phase # "pre" =>
        /\ risk = DaysRisk
        /\ \A c \in Stocks : buysToday[c] = Count(Rows("BUY", c))
        /\ crashes = 0 => tradeCount = Len(ledger)
    /\ ~restored =>
        /\ risk = FreshRisk
        /\ crashes = 0 => tradeCount = 0 /\ ledger = <<>>

LEMMA BookedInFull ==
    ASSUME Undisturbed, DayTypes, NEW c \in Stocks, NEW side \in Sides, NEW qty \in Nat,
           Book(c, side, qty)
    PROVE  \E row \in RowType :
             /\ ledger' = Append(ledger, row) /\ row.code = c /\ row.side = side
             /\ risk' = IF side = "SELL" THEN Recorded(risk, row.pnl) ELSE risk
             /\ tradeCount' = tradeCount + 1
<1>1. PICK pnl \in IF side = "SELL" THEN Amounts ELSE {0} :
        /\ risk' = IF side = "SELL" THEN Recorded(risk, pnl) ELSE risk
        /\ ledger' = Append(ledger,
                  [code |-> c, side |-> side, qty |-> qty, pnl |-> pnl,
                   saved |-> FALSE, recent |-> side = "SELL"])
  BY DEF Book, Undisturbed
<1>2. pnl \in Int
  BY EngineAssumption
<1>3. PICK row : row = [code |-> c, side |-> side, qty |-> qty, pnl |-> pnl,
                        saved |-> FALSE, recent |-> side = "SELL"]
  OBVIOUS
<1>4. row \in RowType /\ row.code = c /\ row.side = side /\ row.pnl = pnl
  BY <1>2, <1>3 DEF RowType
<1>5. tradeCount' = tradeCount + 1
  BY DEF Book
<1> QED
  BY <1>1, <1>3, <1>4, <1>5

\* A booked fill: memory and rows take the same step.
LEMMA BookRemembers ==
    ASSUME Undisturbed, DayTypes, Remembered, restored, phase # "pre",
           UNCHANGED <<restored, phase, crashes>>,
           NEW c \in Stocks, NEW side \in Sides, NEW qty \in Nat, Book(c, side, qty)
    PROVE  Remembered'
<1>1. PICK row \in RowType :
        /\ ledger' = Append(ledger, row) /\ row.code = c /\ row.side = side
        /\ risk' = IF side = "SELL" THEN Recorded(risk, row.pnl) ELSE risk
        /\ tradeCount' = tradeCount + 1
  BY BookedInFull
<1>2. risk' = DaysRisk'
  BY <1>1, RiskOfNewRow DEF Remembered
<1>3. \A d \in Stocks : buysToday'[d] = Count(Rows("BUY", d))'
  <2> SUFFICES ASSUME NEW d \in Stocks  PROVE buysToday'[d] = Count(Rows("BUY", d))'
    OBVIOUS
  <2>1. /\ Count(Rows("BUY", d)) \in Nat /\ buysToday[d] \in Nat
        /\ buysToday[d] = Count(Rows("BUY", d))
    BY BuysCounted DEF Remembered, DayTypes
  <2>2. buysToday'[d] = buysToday[d] + (IF d = c /\ side = "BUY" THEN 1 ELSE 0)
    BY <2>1, BookAppends DEF DayTypes
  <2>3. Count(Rows("BUY", d))'
          = Count(Rows("BUY", d)) + (IF d = c /\ side = "BUY" THEN 1 ELSE 0)
    BY <1>1, NewRowCounts
  <2> QED
    BY <2>1, <2>2, <2>3
<1>4. crashes' = 0 => tradeCount' = Len(ledger')
  BY <1>1 DEF Remembered, DayTypes
<1> QED
  BY <1>2, <1>3, <1>4 DEF Remembered

\* What the restore reads is all that was recorded.
LEMMA RestoreRemembers ==
    ASSUME Undisturbed, DayTypes, Waking, Remembered, phase = "open", RestoreIfNeeded,
           UNCHANGED <<ledger, phase, crashes>>
    PROVE  Remembered'
<1>1. CASE restored /\ UNCHANGED <<buysToday, risk, tradeCount>>
  BY <1>1 DEF Remembered, RestoreIfNeeded, DaysRisk, ReplaySells, Rows, Count
<1>2. CASE ~restored /\ RestoreFromTrades
  <2>1. restored' /\ Saved = DOMAIN ledger
    BY <1>2 DEF Waking, Saved, RestoreIfNeeded
  <2>2. \A c \in Stocks : buysToday'[c] = Count(Rows("BUY", c))'
    <3>1. \A c \in Stocks : Saved \cap Rows("BUY", c) = Rows("BUY", c)
      BY <2>1 DEF Rows
    <3> QED
      BY <1>2, <3>1 DEF RestoreFromTrades, Rows, Count
  <2>3. DaysRisk' = DaysRisk
    BY DEF DaysRisk, ReplaySells
  <2>4. CASE {i \in Saved : ledger[i].side = "SELL"} = {}
    <3>1. UNCHANGED <<risk, tradeCount>>
      BY <1>2, <2>4 DEF RestoreFromTrades
    <3>2. \A k \in 1..Len(ledger) : ~Counts(ledger, DOMAIN ledger, k)
      BY <2>1, <2>4 DEF Counts
    <3>3. DaysRisk = FreshRisk
      BY <3>2, NoSalesNoRisk DEF DayTypes, DaysRisk, ReplaySells
    <3> QED
      BY <1>2, <2>1, <2>2, <2>3, <3>1, <3>3 DEF Remembered
  <2>5. CASE {i \in Saved : ledger[i].side = "SELL"} # {}
    <3>1. risk' = DaysRisk
      BY <1>2, <2>1, <2>5 DEF RestoreFromTrades, DaysRisk
    <3>2. crashes # 0
      BY <1>2, <2>1, <2>5 DEF Remembered
    <3> QED
      BY <2>1, <2>2, <2>3, <3>1, <3>2 DEF Remembered
  <2> QED
    BY <2>4, <2>5
<1> QED
  BY <1>1, <1>2 DEF RestoreIfNeeded, Undisturbed

LEMMA RememberedStep ==
    ASSUME Undisturbed
    PROVE  RecordInv /\ Remembered /\ [Next]_vars => Remembered'
<1> SUFFICES ASSUME RecordInv, Remembered, [Next]_vars  PROVE Remembered'
  OBVIOUS
<1> USE DEF RecordInv
\* The rows stay, up to their flags, and memory with them.
<1>1. ASSUME ledger' \in Seq(RowType), SameRows,
             UNCHANGED <<buysToday, risk, tradeCount, restored, crashes>>,
             phase' = phase \/ (phase' = "closed" /\ phase = "open")
      PROVE  Remembered'
  <2>1. DaysRisk' = DaysRisk
    BY <1>1, RiskOfSameRows
  <2>2. \A c \in Stocks : Count(Rows("BUY", c))' = Count(Rows("BUY", c))
    BY <1>1, RowsOfSameRows DEF Count
  <2>3. Len(ledger') = Len(ledger) /\ (ledger = <<>> => ledger' = <<>>)
    BY <1>1 DEF SameRows, DayTypes
  <2> QED
    BY <1>1, <2>1, <2>2, <2>3 DEF Remembered
<1>2. CASE CycleBegin \/ CycleBreakerOpen
  <2>1. phase = "open" /\ RestoreIfNeeded /\ UNCHANGED <<ledger, phase, crashes>>
    BY <1>2 DEF CycleBegin, CycleBreakerOpen, worldVars
  <2> QED
    BY <2>1, RestoreRemembers
<1>3. ASSUME NEW c \in Stocks, SweepReconciles(c)  PROVE Remembered'
  <2>1. restored /\ phase # "pre" /\ UNCHANGED <<restored, phase, crashes>>
    BY <1>3 DEF SweepReconciles, worldVars, Waking, Morning
  <2> QED
    BY <1>3, <2>1, SweepBooks, BookRemembers
<1>4. CASE ConfirmFilled
  <2>1. restored /\ phase # "pre" /\ UNCHANGED <<restored, phase, crashes>>
    BY <1>4 DEF ConfirmFilled, worldVars, Waking, Morning
  <2> QED
    BY <1>4, <2>1, ConfirmationBooks, BookRemembers
<1>5. CASE PreMarket \/ StartLate
  <2>1. /\ ledger' = <<>> /\ buysToday' = NoShares /\ risk' = FreshRisk /\ tradeCount' = 0
        /\ UNCHANGED crashes
    BY <1>5 DEF PreMarket, StartLate, MemoryReset, Morning
  <2>2. DaysRisk' = FreshRisk
    BY <2>1, RiskOfNoRows DEF DaysRisk, ReplaySells
  <2>3. Len(ledger') = 0
    BY <2>1
  <2> QED
    BY <2>1, <2>2, <2>3, NothingRecorded DEF Remembered, NoShares
<1>6. CASE Crash
  BY <1>6 DEF Crash, MemoryReset, Remembered
<1>7. CASE NewDay
  BY <1>7 DEF NewDay, Remembered, countVars
\* Nothing else books, counts, records a result or starts a process.
<1>8. ASSUME ~CycleBegin, ~CycleBreakerOpen, ~(\E c \in Stocks : SweepReconciles(c)),
             ~ConfirmFilled, ~PreMarket, ~StartLate, ~Crash, ~NewDay
      PROVE  Remembered'
  <2>1. SameRows /\ ledger' \in Seq(RowType)
    BY <1>8, OnlyBookingAppends, DayTypesStep DEF DayTypes
  <2> DEFINE Same == /\ UNCHANGED <<buysToday, risk, tradeCount, restored, crashes>>
                     /\ phase' = phase \/ (phase' = "closed" /\ phase = "open")
  <2>2. ASSUME NEW c \in Stocks,
               SweepCancels(c) \/ SkipStock(c) \/ BuyUntradable(c) \/ CooldownElapses(c)
        PROVE  Same
    BY <2>2
       DEF SweepCancels, SkipStock, BuyUntradable, CooldownElapses, countVars, worldVars
  <2>3. ASSUME NEW c \in Stocks, NEW side \in Sides,
               OrderAccepted(c, side) \/ OrderReplyLost(c, side) \/ OrderRejected(c, side)
        PROVE  Same
    BY <2>3 DEF OrderAccepted, OrderReplyLost, OrderRejected, countVars, worldVars
  <2>4. ASSUME \/ CycleFrozen \/ CancelOrder \/ SweepDone \/ ReadBalance \/ ReadBalanceFails
               \/ ApiLimit \/ BreakerOpens \/ ConfirmUnfilled \/ PostMarket
        PROVE  Same
    BY <2>4
       DEF CycleFrozen, CancelOrder, SweepDone, ReadBalance, ReadBalanceFails, ApiLimit,
           BreakerOpens, ConfirmUnfilled, PostMarket, countVars, worldVars
  <2>5. ASSUME CacheExpires \/ ToggleKillFile \/ MarketCloses \/ UNCHANGED vars
        PROVE  Same
    BY <2>5 DEF MarketCloses, CacheExpires, ToggleKillFile, countVars, worldVars, vars
  <2>6. ASSUME NEW i \in DOMAIN ledger, WorkerSaves(i)  PROVE Same
    BY <2>6 DEF WorkerSaves, countVars, worldVars
  <2>7. ASSUME NEW o \in live, NEW n \in FillSizes(o), BrokerFills(o, n)  PROVE Same
    BY <2>7 DEF BrokerFills, countVars, worldVars
  <2>8. ~(\E on \in BOOLEAN : CmdHalt(on))
    BY DEF CmdHalt, Undisturbed
  <2>9. Same
    <3> HIDE DEF RecordInv, Same
    <3> QED
      BY <1>8, <2>2, <2>3, <2>4, <2>5, <2>6, <2>7, <2>8 DEF Next, Engine, World
  <2> QED
    BY <1>1, <2>1, <2>9
<1> QED
  BY <1>2, <1>3, <1>4, <1>5, <1>6, <1>7, <1>8

LEMMA RememberedInvariance ==
    ASSUME Undisturbed
    PROVE  Spec => [](RecordInv /\ Remembered)
<1>1. Init => Remembered
  BY DEF Init, Remembered
<1>2. RecordInv /\ Remembered /\ [Next]_vars => Remembered'
  BY RememberedStep
<1>3. Spec => []RecordInv
  <2>1. Recovered
    BY DEF Undisturbed, Recovered
  <2> QED
    BY <2>1, RecordInvariance
<1> QED
  BY <1>1, <1>2, <1>3, PTL DEF Spec

\* Under every failure of broker, API and process, as long as rows reach the queue, a crash
\* does not overtake the worker, a restore succeeds and no operator interferes: the
\* memory of the day is what the rows of the day determine, for any amounts and limits.
THEOREM MemoryIsTheLedger ==
    ASSUME Undisturbed
    PROVE  Spec => []MemoryMatchesLedger
<1>1. Remembered => MemoryMatchesLedger
  BY DEF Remembered, MemoryMatchesLedger, DaysRisk
<1> QED
  BY <1>1, RememberedInvariance, PTL

\* Under the same failures: no order to buy reaches the broker once the recorded sales of
\* the day breach a limit, whether they were recorded by this cycle, by an earlier one or
\* by a process that has crashed since.
THEOREM NoBuysOnceHalted ==
    ASSUME Undisturbed
    PROVE  Spec => NoBuyWhenHalted
<1> DEFINE Unhalted == NewOrders("BUY") # {} => ~ReplaySells(DOMAIN ledger).halted
<1>1. ASSUME RecordInv, Remembered, Next, NEW o \in NewOrders("BUY")
      PROVE  ~ReplaySells(DOMAIN ledger).halted
  <2>1. restored /\ phase = "open" /\ ~risk.halted
    BY <1>1, BuysPassGates DEF BuyAllowed
  <2> QED
    BY <1>1, <2>1 DEF Remembered, DaysRisk
<1>2. RecordInv /\ Remembered /\ [Next]_vars => [Unhalted]_vars
  BY <1>1
<1>3. Spec => [](RecordInv /\ Remembered)
  BY RememberedInvariance
<1> QED
  BY <1>2, <1>3, PTL DEF Spec, NoBuyWhenHalted

-----------------------------------------------------------------------------
(* What is recorded has been filled *)

\* What a row adds to the shares recorded for a side of a stock.
Adds(row, side, c) == IF row.side = side /\ row.code = c THEN row.qty ELSE 0

LEMMA BookedDef ==
    ASSUME NEW rows, rows \in Seq(RowType), NEW side, NEW c
    PROVE  /\ Booked(rows, side, c)[0] = 0
           /\ \A k \in 1..Len(rows) :
                /\ Booked(rows, side, c)[k] = Booked(rows, side, c)[k - 1] + Adds(rows[k], side, c)
                /\ Adds(rows[k], side, c) \in Nat
           /\ \A k \in 0..Len(rows) : Booked(rows, side, c)[k] \in Nat
<1> DEFINE P(h) == h = [k \in 0..Len(rows) |->
                          IF k = 0 THEN 0
                          ELSE IF rows[k].side = side /\ rows[k].code = c
                               THEN h[k - 1] + rows[k].qty ELSE h[k - 1]]
<1>1. PICK A, a, n : A = Nat /\ a = 0 /\ n = Len(rows)
  OBVIOUS
<1>2. PICK step : step = [k \in 1..n |-> [x \in A |-> x + Adds(rows[k], side, c)]]
  OBVIOUS
<1>3. \A k \in 1..n : Adds(rows[k], side, c) \in Nat
  <2> SUFFICES ASSUME NEW k \in 1..n  PROVE Adds(rows[k], side, c) \in Nat
    OBVIOUS
  <2>1. rows[k] \in RowType
    BY <1>1
  <2> QED
    BY <2>1 DEF Adds, RowType
<1>4. a \in A /\ n \in Nat /\ step \in [1..n -> [A -> A]]
  BY <1>1, <1>2, <1>3
<1>5. PICK f : f \in [0..n -> A] /\ f[0] = a /\ \A k \in 1..n : f[k] = step[k][f[k - 1]]
  BY ONLY <1>4, RecursionExists
<1>6. ASSUME NEW k \in 1..n
      PROVE  f[k] = f[k - 1] + Adds(rows[k], side, c) /\ f[k - 1] \in Nat
  <2>1. k - 1 \in 0..n /\ f[k - 1] \in A
    BY <1>4, <1>5
  <2> QED
    BY <1>1, <1>2, <1>5, <2>1
<1>7. P(f)
  <2>1. \A k \in 1..n : f[k - 1] \in Nat
    BY <1>6
  <2>2. \A k \in 1..n : f[k] = IF rows[k].side = side /\ rows[k].code = c
                               THEN f[k - 1] + rows[k].qty ELSE f[k - 1]
    BY <1>6, <2>1 DEF Adds
  <2> QED
    BY <1>1, <1>5, <2>2
<1>8. P(Booked(rows, side, c))
  <2>1. Booked(rows, side, c) = CHOOSE h : P(h)
    BY DEF Booked
  <2> HIDE DEF P
  <2> QED
    BY <1>7, <2>1
<1>9. PICK g : g = Booked(rows, side, c)
  OBVIOUS
<1>10. g[0] = 0 /\ \A k \in 1..n : g[k] = IF rows[k].side = side /\ rows[k].code = c
                                          THEN g[k - 1] + rows[k].qty ELSE g[k - 1]
  BY <1>1, <1>8, <1>9
<1>11. \A k \in 0..n : f[k] = g[k]
  <2>1. f[0] = g[0]
    BY <1>1, <1>5, <1>10
  <2>2. \A k \in 1..n : f[k - 1] = g[k - 1] => f[k] = g[k]
    <3> SUFFICES ASSUME NEW k \in 1..n, f[k - 1] = g[k - 1]  PROVE f[k] = g[k]
      OBVIOUS
    <3> QED
      BY <1>6, <1>10 DEF Adds
  <2>3. n \in Nat
    BY <1>4
  <2> QED
    BY ONLY <2>1, <2>2, <2>3, RecursionsAgree
<1>12. \A k \in 1..n : k \in 0..n /\ k - 1 \in 0..n
  BY <1>4
<1> QED
  BY <1>1, <1>3, <1>4, <1>5, <1>6, <1>9, <1>10, <1>11, <1>12

LEMMA BookedAgree ==
    ASSUME NEW rows, rows \in Seq(RowType), NEW rows2, rows2 \in Seq(RowType),
           NEW side, NEW c, NEW n \in Nat, n <= Len(rows), n <= Len(rows2),
           \A k \in 1..n : Adds(rows[k], side, c) = Adds(rows2[k], side, c)
    PROVE  Booked(rows, side, c)[n] = Booked(rows2, side, c)[n]
<1>1. PICK f, g : f = Booked(rows, side, c) /\ g = Booked(rows2, side, c)
  OBVIOUS
<1>2. f[0] = g[0]
  BY <1>1, BookedDef
<1>3. \A k \in 1..n : f[k - 1] = g[k - 1] => f[k] = g[k]
  <2> SUFFICES ASSUME NEW k \in 1..n, f[k - 1] = g[k - 1]  PROVE f[k] = g[k]
    OBVIOUS
  <2>1. k \in 1..Len(rows) /\ k \in 1..Len(rows2)
    OBVIOUS
  <2>2. f[k] = f[k - 1] + Adds(rows[k], side, c)
    BY <1>1, <2>1, BookedDef
  <2>3. g[k] = g[k - 1] + Adds(rows2[k], side, c)
    BY <1>1, <2>1, BookedDef
  <2> QED
    BY <2>2, <2>3
<1>4. n \in Nat
  OBVIOUS
<1>5. \A k \in 0..n : f[k] = g[k]
  BY ONLY <1>2, <1>3, <1>4, RecursionsAgree
<1> QED
  BY <1>1, <1>4, <1>5

LEMMA QtyTyped ==
    ASSUME DayTypes, NEW side, NEW c
    PROVE  RecordedQty(side, c) \in Nat
<1>1. Len(ledger) \in 0..Len(ledger)
  BY DEF DayTypes
<1> QED
  BY <1>1, BookedDef DEF DayTypes, RecordedQty

LEMMA QtyTypedNext ==
    ASSUME ledger' \in Seq(RowType), NEW side, NEW c
    PROVE  RecordedQty(side, c)' \in Nat
<1>1. PICK rows : rows = ledger'
  OBVIOUS
<1>2. rows \in Seq(RowType) /\ Len(rows) \in 0..Len(rows)
  BY <1>1
<1>3. Booked(rows, side, c)[Len(rows)] \in Nat
  BY <1>2, BookedDef
<1> QED
  BY <1>1, <1>3 DEF RecordedQty

LEMMA QtyOfSameRows ==
    ASSUME DayTypes, ledger' \in Seq(RowType), SameRows, NEW side, NEW c
    PROVE  RecordedQty(side, c)' = RecordedQty(side, c)
<1>1. PICK n, rows, rows2 : n = Len(ledger) /\ rows = ledger /\ rows2 = ledger'
  OBVIOUS
<1>2. /\ rows \in Seq(RowType) /\ rows2 \in Seq(RowType)
      /\ n \in Nat /\ n = Len(rows) /\ n = Len(rows2)
      /\ DOMAIN rows = 1..n
  BY <1>1 DEF DayTypes, SameRows
<1>3. \A k \in 1..n : Adds(rows[k], side, c) = Adds(rows2[k], side, c)
  BY <1>1, <1>2 DEF SameRows, Adds
<1>4. Booked(rows, side, c)[n] = Booked(rows2, side, c)[n]
  BY <1>2, <1>3, BookedAgree
<1> QED
  BY <1>1, <1>2, <1>4 DEF RecordedQty

LEMMA QtyOfNewRow ==
    ASSUME DayTypes, NEW row \in RowType, ledger' = Append(ledger, row), NEW side, NEW c
    PROVE  RecordedQty(side, c)' = RecordedQty(side, c) + Adds(row, side, c)
<1>1. PICK n, rows, rows2 : n = Len(ledger) /\ rows = ledger /\ rows2 = ledger'
  OBVIOUS
<1>2. /\ rows \in Seq(RowType) /\ rows2 \in Seq(RowType)
      /\ n \in Nat /\ n = Len(rows) /\ n + 1 = Len(rows2)
      /\ \A k \in 1..n : rows2[k] = rows[k]
      /\ rows2[n + 1] = row
  BY <1>1 DEF DayTypes
<1>3. Booked(rows, side, c)[n] = Booked(rows2, side, c)[n]
  <2>1. \A k \in 1..n : Adds(rows[k], side, c) = Adds(rows2[k], side, c)
    BY <1>2
  <2>2. n <= Len(rows) /\ n <= Len(rows2)
    BY <1>2
  <2> QED
    BY <1>2, <2>1, <2>2, BookedAgree
<1>4. Booked(rows2, side, c)[n + 1] = Booked(rows2, side, c)[n] + Adds(row, side, c)
  <2>1. n + 1 \in 1..Len(rows2) /\ (n + 1) - 1 = n
    BY <1>2
  <2> QED
    BY <1>2, <2>1, BookedDef
<1> QED
  BY <1>1, <1>2, <1>3, <1>4 DEF RecordedQty

LEMMA QtyOfNoRows ==
    ASSUME NEW rows, rows = <<>>, NEW side, NEW c
    PROVE  Booked(rows, side, c)[Len(rows)] = 0
<1>1. rows \in Seq(RowType) /\ Len(rows) = 0
  OBVIOUS
<1>2. Booked(rows, side, c)[0] = 0
  BY ONLY <1>1, BookedDef
<1> QED
  BY <1>1, <1>2

\* Booking now, for a side of a stock, what is held beyond or below b would record no more
\* than has been filled.
Fits(c, side, b) ==
    IF side = "BUY"
    THEN RecordedQty("BUY", c) + held[c] - b <= filled[c]["BUY"]
    ELSE RecordedQty("SELL", c) + b - held[c] <= filled[c]["SELL"]

\* What a booking of the stock is, or may come to be, measured against: the cached balance,
\* the quantity stored with its order, or the holdings its order will be decided on.
Reference(c, side, b) ==
    \/ cache # NoCache /\ b = cache[c]
    \/ pending[c].side = side /\ b = pending[c].before
    \/ Confirming(c) /\ op.side = side /\ b = op.before
    \/ pc \in {"stocks", "confirm"} /\ c \in todo /\ ~Confirming(c) /\ b = snap[c]

FillInv ==
    /\ filled \in [Stocks -> [Sides -> Nat]]
    /\ phase = "pre" => pc = "idle"
    /\ RecordedWithinFilled
    /\ phase # "pre" =>
         \A c \in Stocks, side \in Sides, b \in Nat :
            Reference(c, side, b) => Fits(c, side, b)

\* A step measures against nothing new but what is held now.
References ==
    phase' # "pre" =>
        \A c \in Stocks, side \in Sides, b \in Nat :
            Reference(c, side, b)' => (phase # "pre" /\ Reference(c, side, b)) \/ b = held[c]

LEMMA HeldFits ==
    ASSUME EngineTypes, DayTypes, RecordedWithinFilled, NEW c \in Stocks, NEW side \in Sides
    PROVE  Fits(c, side, held[c])
<1>1. RecordedQty(side, c) \in Nat /\ held[c] \in Nat
  BY QtyTyped DEF EngineTypes
<1>2. RecordedQty(side, c) <= filled[c][side]
  BY DEF RecordedWithinFilled
<1> QED
  BY <1>1, <1>2 DEF Fits, Sides

\* Where nothing is booked and nothing is filled.
LEMMA FillKept ==
    ASSUME EngineTypes, DayTypes, FillInv, ledger' \in Seq(RowType), SameRows, References,
           UNCHANGED <<held, filled>>,
           phase' = "pre" => pc' = "idle"
    PROVE  FillInv'
<1>1. \A c \in Stocks, side \in Sides : RecordedQty(side, c)' = RecordedQty(side, c)
  BY QtyOfSameRows
<1>2. RecordedWithinFilled'
  BY <1>1 DEF FillInv, RecordedWithinFilled
<1>3. ASSUME NEW c \in Stocks, NEW side \in Sides, NEW b \in Nat, Fits(c, side, b)
      PROVE  Fits(c, side, b)'
  <2>1. RecordedQty("BUY", c)' = RecordedQty("BUY", c)
        /\ RecordedQty("SELL", c)' = RecordedQty("SELL", c)
    BY <1>1 DEF Sides
  <2> QED
    BY <1>3, <2>1 DEF Fits
<1>4. ASSUME phase' # "pre", NEW c \in Stocks, NEW side \in Sides, NEW b \in Nat,
             Reference(c, side, b)'
      PROVE  Fits(c, side, b)'
  <2>1. CASE phase # "pre" /\ Reference(c, side, b)
    BY <1>3, <1>4, <2>1 DEF FillInv
  <2>2. CASE b = held[c]
    BY <1>3, <2>2, HeldFits DEF FillInv
  <2> QED
    BY <1>4, <2>1, <2>2 DEF References
<1> QED
  BY <1>2, <1>4 DEF FillInv

\* What is booked was measured against a reference, and takes its place.
LEMMA FillBooked ==
    ASSUME EngineTypes, DayTypes, FillInv, UNCHANGED <<held, filled, phase>>, phase # "pre",
           NEW c \in Stocks, NEW o, Measured(o), Reference(c, o.side, o.before),
           FilledSince(o, held[c]) > 0, Book(c, o.side, FilledSince(o, held[c])),
           \A d \in Stocks, side \in Sides, b \in Nat :
              Reference(d, side, b)' => b = held[d] \/ (d # c /\ Reference(d, side, b))
    PROVE  FillInv'
<1>1. PICK qty \in Nat, way \in Sides :
        /\ qty = FilledSince(o, held[c]) /\ way = o.side /\ Book(c, way, qty)
  <2>1. held[c] \in Nat
    BY DEF EngineTypes
  <2> QED
    BY <2>1, FillsMeasured
<1>2. o.before \in Nat /\ held[c] \in Nat
  BY DEF Measured, OrderType, EngineTypes
<1>3. RecordedQty(way, c) + qty <= filled[c][way]
  <2>1. Fits(c, way, o.before)
    BY <1>1, <1>2 DEF FillInv
  <2>2. RecordedQty(way, c) \in Nat /\ filled[c][way] \in Nat
    BY QtyTyped DEF FillInv
  <2>3. CASE way = "BUY"
    BY <1>1, <1>2, <2>1, <2>2, <2>3 DEF Fits, FilledSince
  <2>4. CASE way = "SELL"
    BY <1>1, <1>2, <2>1, <2>2, <2>4 DEF Fits, FilledSince
  <2> QED
    BY <2>3, <2>4 DEF Sides
<1>4. ledger' \in Seq(RowType)
  BY <1>1, BookAppends DEF DayTypes
<1>5. /\ RecordedQty(way, c)' <= filled[c][way]
      /\ \A d \in Stocks, side \in Sides :
           d # c \/ side # way => RecordedQty(side, d)' = RecordedQty(side, d)
  <2>1. CASE UNCHANGED ledger
    <3>1. \A d \in Stocks, side \in Sides : RecordedQty(side, d)' = RecordedQty(side, d)
      BY <2>1 DEF RecordedQty
    <3>2. RecordedQty(way, c) <= filled[c][way]
      BY DEF FillInv, RecordedWithinFilled
    <3> QED
      BY <3>1, <3>2
  <2>2. ASSUME NEW row \in RowType, ledger' = Append(ledger, row),
               row.code = c, row.side = way, row.qty = qty
        PROVE  /\ RecordedQty(way, c)' <= filled[c][way]
               /\ \A d \in Stocks, side \in Sides :
                    d # c \/ side # way => RecordedQty(side, d)' = RecordedQty(side, d)
    <3>1. Adds(row, way, c) = qty
      BY <2>2 DEF Adds
    <3>2. \A d \in Stocks, side \in Sides : d # c \/ side # way => Adds(row, side, d) = 0
      BY <2>2 DEF Adds
    <3>3. \A d \in Stocks, side \in Sides :
            /\ RecordedQty(side, d)' = RecordedQty(side, d) + Adds(row, side, d)
            /\ RecordedQty(side, d) \in Nat
      BY <2>2, QtyOfNewRow, QtyTyped
    <3> QED
      BY <1>3, <3>1, <3>2, <3>3
  <2> QED
    BY <1>1, <2>1, <2>2, BookAppends DEF DayTypes
<1>6. RecordedWithinFilled'
  BY <1>5 DEF FillInv, RecordedWithinFilled
<1>7. ASSUME NEW d \in Stocks, NEW side \in Sides, NEW b \in Nat, Reference(d, side, b)'
      PROVE  Fits(d, side, b)'
  <2>1. held[d] \in Nat
    BY DEF EngineTypes
  <2>2. CASE b = held[d]
    <3>1. /\ RecordedQty("BUY", d)' \in Nat /\ RecordedQty("SELL", d)' \in Nat
          /\ RecordedQty("BUY", d)' <= filled'[d]["BUY"]
          /\ RecordedQty("SELL", d)' <= filled'[d]["SELL"]
      <4>1. \A way2 \in Sides : RecordedQty(way2, d)' \in Nat
        BY <1>4, QtyTypedNext
      <4> QED
        BY <1>6, <4>1 DEF RecordedWithinFilled, Sides
    <3>2. held'[d] = held[d]
      OBVIOUS
    <3> QED
      BY <2>1, <2>2, <3>1, <3>2 DEF Fits
  <2>3. CASE d # c /\ Reference(d, side, b)
    <3>1. Fits(d, side, b)
      BY <2>3 DEF FillInv
    <3>2. RecordedQty("BUY", d)' = RecordedQty("BUY", d)
          /\ RecordedQty("SELL", d)' = RecordedQty("SELL", d)
      BY <1>5, <2>3 DEF Sides
    <3> QED
      BY <3>1, <3>2 DEF Fits
  <2> QED
    BY <1>7, <2>2, <2>3
<1> QED
  BY <1>6, <1>7 DEF FillInv

\* Steps after which the engine measures against fewer balances, or against a cache it
\* has just read: an order leaves the book or enters it from its confirmation, the loop
\* goes on or ends.
LEMMA FewerReferences ==
    ASSUME EngineTypes, cache' \in {cache, held, NoCache},
           phase' # "pre" => phase # "pre",
           \A c \in Stocks :
              \/ pending'[c].side = pending[c].side /\ pending'[c].before = pending[c].before
              \/ pending'[c].side = "none"
              \/ Confirming(c) /\ pending'[c] = op,
           pc' = "confirm" => pc = "confirm" /\ UNCHANGED <<cur, op>>,
           pc' \in {"stocks", "confirm"} =>
              /\ pc \in {"stocks", "confirm"} /\ snap' = snap /\ todo' \subseteq todo
              /\ \A c \in todo' : Confirming(c)' \/ ~Confirming(c)
    PROVE  References
<1> SUFFICES ASSUME phase' # "pre", NEW c \in Stocks, NEW side \in Sides, NEW b \in Nat,
                    Reference(c, side, b)'
             PROVE  Reference(c, side, b) \/ b = held[c]
  BY DEF References
<1>1. CASE cache' # NoCache /\ b = cache'[c]
  BY <1>1 DEF Reference
<1>2. CASE pending'[c].side = side /\ b = pending'[c].before
  BY <1>2 DEF Reference, Sides
<1>3. CASE Confirming(c)' /\ op'.side = side /\ b = op'.before
  BY <1>3 DEF Reference, Confirming
<1>4. CASE pc' \in {"stocks", "confirm"} /\ c \in todo' /\ ~Confirming(c)' /\ b = snap'[c]
  BY <1>4 DEF Reference
<1> QED
  BY <1>1, <1>2, <1>3, <1>4 DEF Reference

LEMMA FillStep ==
    EngineTypes /\ TrackingInv /\ DayTypes /\ FillInv /\ [Next]_vars => FillInv'
<1> SUFFICES ASSUME EngineTypes, TrackingInv, DayTypes, FillInv, [Next]_vars
             PROVE  FillInv'
  OBVIOUS
<1>1. ASSUME NEW c \in Stocks, SweepReconciles(c)  PROVE FillInv'
  <2>1. Measured(pending[c]) /\ pending[c].side \in Sides
    <3>1. Measured(pending[c]) /\ held[c] \in Nat /\ FilledSince(pending[c], held[c]) > 0
      BY <1>1 DEF DayTypes, EngineTypes, SweepReconciles
    <3> QED
      BY <3>1, FillsMeasured
  <2>2. /\ pc = "sweep" /\ cache' = held /\ UNCHANGED <<pc, cur, op, snap, held, filled, phase>>
        /\ pending' = [pending EXCEPT ![c] = NoOrder]
        /\ FilledSince(pending[c], held[c]) > 0
        /\ Book(c, pending[c].side, FilledSince(pending[c], held[c]))
    BY <1>1 DEF SweepReconciles, brokerVars, worldVars
  <2>3. phase # "pre" /\ Reference(c, pending[c].side, pending[c].before)
    BY <2>2 DEF FillInv, Reference
  <2>4. ASSUME NEW d \in Stocks, NEW side \in Sides, NEW b \in Nat, Reference(d, side, b)'
        PROVE  b = held[d] \/ (d # c /\ Reference(d, side, b))
    <3>1. \/ b = held[d]
          \/ pending'[d].side = side /\ b = pending'[d].before
      BY <2>2, <2>4 DEF Reference, Confirming
    <3>2. d = c => pending'[d].side # side
      BY <2>2 DEF NoOrder, Sides, TrackingInv
    <3>3. d # c => pending'[d] = pending[d]
      BY <2>2
    <3> QED
      BY <3>1, <3>2, <3>3 DEF Reference
  <2> HIDE DEF Reference
  <2> QED
    BY <2>1, <2>2, <2>3, <2>4, FillBooked
<1>2. CASE ConfirmFilled
  <2>1. /\ pc = "confirm" /\ cur \in Stocks /\ cache' = held /\ Advance(cur)
        /\ UNCHANGED <<held, filled, phase, pending>>
        /\ FilledSince(op, held[cur]) > 0 /\ Book(cur, op.side, FilledSince(op, held[cur]))
    BY <1>2 DEF ConfirmFilled, TrackingInv, brokerVars, worldVars
  <2>2. Measured(op) /\ op.side \in Sides
    <3>1. Measured(op) /\ held[cur] \in Nat
      BY <2>1 DEF DayTypes, EngineTypes
    <3> QED
      BY <2>1, <3>1, FillsMeasured
  <2>3. phase # "pre" /\ Reference(cur, op.side, op.before)
    BY <2>1 DEF FillInv, Reference, Confirming
  <2>4. ASSUME NEW d \in Stocks, NEW side \in Sides, NEW b \in Nat, Reference(d, side, b)'
        PROVE  b = held[d] \/ (d # cur /\ Reference(d, side, b))
    <3>1. /\ pc' # "confirm"
          /\ pc' = "stocks" => snap' = snap /\ todo' = todo \ {cur}
      BY <2>1 DEF Advance, CycleReturns
    <3>2. \/ b = held[d]
          \/ pending[d].side = side /\ b = pending[d].before
          \/ d \in todo /\ d # cur /\ b = snap[d]
      BY <2>1, <2>4, <3>1 DEF Reference, Confirming
    <3>3. pending[cur].side = "none"
      BY <2>1 DEF TrackingInv, NoOrder
    <3> QED
      BY <2>1, <3>2, <3>3 DEF Reference, Confirming, Sides
  <2> HIDE DEF Reference
  <2> QED
    BY <2>1, <2>2, <2>3, <2>4, FillBooked
<1>3. CASE NewDay
  <2>1. /\ filled' = [c \in Stocks |-> [s \in Sides |-> 0]] /\ ledger' = <<>>
        /\ phase' = "pre" /\ pc' = "idle"
    BY <1>3 DEF NewDay, loopVars
  <2>2. \A side \in Sides, c \in Stocks : RecordedQty(side, c)' = 0
    BY <2>1, QtyOfNoRows DEF RecordedQty
  <2> QED
    BY <2>1, <2>2 DEF FillInv, RecordedWithinFilled
\* What fills and what is held change together.
<1>4. ASSUME NEW o \in live, NEW n \in FillSizes(o), BrokerFills(o, n)  PROVE FillInv'
  <2>1. /\ o.code \in Stocks /\ o.side \in Sides /\ n \in Nat
    BY DEF EngineTypes, FillSizes
  <2>2. /\ held' = [held EXCEPT ![o.code] = IF o.side = "BUY" THEN @ + n ELSE @ - n]
        /\ filled' = [filled EXCEPT ![o.code][o.side] = @ + n]
        /\ phase = "open" /\ UNCHANGED <<loopVars, pending, cache, ledger, phase>>
    BY <1>4 DEF BrokerFills, worldVars
  <2>3. \A side \in Sides, c \in Stocks :
          RecordedQty(side, c)' = RecordedQty(side, c) /\ RecordedQty(side, c) \in Nat
    BY <2>2, QtyTyped DEF RecordedQty
  <2>4. filled' \in [Stocks -> [Sides -> Nat]]
    BY <2>1, <2>2 DEF FillInv
  <2>5. \A c \in Stocks, side \in Sides :
          filled'[c][side] = filled[c][side] + (IF c = o.code /\ side = o.side THEN n ELSE 0)
    BY <2>1, <2>2 DEF FillInv
  <2>6. RecordedWithinFilled'
    BY <2>1, <2>3, <2>5 DEF FillInv, RecordedWithinFilled
  <2>7. ASSUME NEW c \in Stocks, NEW side \in Sides, NEW b \in Nat, Fits(c, side, b)
        PROVE  Fits(c, side, b)'
    <3>1. held[c] \in Nat /\ filled[c]["BUY"] \in Nat /\ filled[c]["SELL"] \in Nat
      BY DEF EngineTypes, FillInv, Sides
    <3>2. held'[c] = IF c = o.code THEN (IF o.side = "BUY" THEN held[c] + n ELSE held[c] - n)
                                   ELSE held[c]
      BY <2>1, <2>2 DEF EngineTypes
    <3>3. /\ filled'[c]["BUY"] = filled[c]["BUY"] + (IF c = o.code /\ o.side = "BUY" THEN n ELSE 0)
          /\ filled'[c]["SELL"] = filled[c]["SELL"] + (IF c = o.code /\ o.side = "SELL" THEN n ELSE 0)
      BY <2>5 DEF Sides
    <3>4. /\ RecordedQty("BUY", c)' = RecordedQty("BUY", c) /\ RecordedQty("BUY", c) \in Nat
          /\ RecordedQty("SELL", c)' = RecordedQty("SELL", c) /\ RecordedQty("SELL", c) \in Nat
      BY <2>3 DEF Sides
    <3>5. CASE side = "BUY"
      BY <2>1, <2>7, <3>1, <3>2, <3>3, <3>4, <3>5 DEF Fits, Sides
    <3>6. CASE side = "SELL"
      BY <2>1, <2>7, <3>1, <3>2, <3>3, <3>4, <3>6 DEF Fits, Sides
    <3> QED
      BY <3>5, <3>6 DEF Sides
  <2>8. \A c \in Stocks, side \in Sides, b \in Nat :
          Reference(c, side, b)' => Reference(c, side, b)
    BY <2>2 DEF Reference, Confirming, loopVars
  <2> QED
    BY <2>2, <2>4, <2>6, <2>7, <2>8 DEF FillInv, loopVars
\* Nothing else books a fill or fills an order.
<1>5. ASSUME ~(\E c \in Stocks : SweepReconciles(c)), ~ConfirmFilled, ~NewDay,
             ~(\E o \in live : \E n \in FillSizes(o) : BrokerFills(o, n))
      PROVE  FillInv'
  <2>1. ledger' \in Seq(RowType) /\ SameRows
    BY <1>5, OnlyBookingAppends
  <2> DEFINE Kept == /\ References /\ UNCHANGED <<held, filled>>
                     /\ phase' = "pre" => pc' = "idle"
  <2>2. ASSUME CycleFrozen \/ CycleBegin \/ CycleBreakerOpen  PROVE Kept
    <3>1. /\ pending' = AgedOrders /\ cache' = cache
          /\ UNCHANGED <<held, filled, phase>> /\ phase # "pre" /\ pc' \in {"idle", "sweep"}
      BY <2>2 DEF CycleFrozen, CycleBegin, CycleBreakerOpen, brokerVars, loopVars, worldVars
    <3>2. \A c \in Stocks : /\ pending'[c].side = pending[c].side
                            /\ pending'[c].before = pending[c].before
      BY <3>1, AgedMeasured
    <3> QED
      BY <3>1, <3>2, FewerReferences
  \* The loop keeps its order under confirmation and decides on fewer stocks.
  <2>3. ASSUME NEW c, Advance(c), pc = "confirm" => cur = c, pc \in {"stocks", "confirm"}
        PROVE  /\ pc' \in {"idle", "stocks"}
               /\ pc' \in {"stocks", "confirm"} =>
                    /\ pc \in {"stocks", "confirm"} /\ snap' = snap /\ todo' \subseteq todo
                    /\ \A d \in todo' : Confirming(d)' \/ ~Confirming(d)
    BY <2>3 DEF Advance, CycleReturns, Confirming
  <2>4. ASSUME NEW c \in Stocks, SkipStock(c) \/ BuyUntradable(c)  PROVE Kept
    <3>1. /\ pc = "stocks" /\ Advance(c) /\ UNCHANGED <<held, filled, phase, pending>>
          /\ cache' \in {cache, held, NoCache}
      BY <2>4 DEF SkipStock, BuyUntradable, brokerVars, worldVars
    <3>2. phase # "pre"
      BY <3>1 DEF FillInv
    <3> QED
      BY <2>3, <3>1, <3>2, FewerReferences
  <2>5. ASSUME NEW c \in Stocks, NEW side \in Sides,
               OrderReplyLost(c, side) \/ OrderRejected(c, side)
        PROVE  Kept
    <3>1. /\ pc = "stocks" /\ Advance(c) /\ UNCHANGED <<held, filled, phase, pending>>
          /\ cache' = NoCache
      BY <2>5 DEF OrderReplyLost, OrderRejected, brokerVars, worldVars
    <3>2. phase # "pre"
      BY <3>1 DEF FillInv
    <3> QED
      BY <2>3, <3>1, <3>2, FewerReferences
  <2>6. ASSUME ConfirmUnfilled  PROVE Kept
    <3>1. /\ pc = "confirm" /\ UNCHANGED <<held, filled, phase>>
          /\ cache' \in {cache, held, NoCache}
          /\ \/ UNCHANGED <<pc, todo, snap, cur, op, pending>>
             \/ pending' = [pending EXCEPT ![cur] = op] /\ Advance(cur)
      BY <2>6 DEF ConfirmUnfilled, brokerVars, worldVars
    <3>2. phase # "pre" /\ cur \in Stocks
      BY <3>1 DEF FillInv, TrackingInv
    <3>3. CASE UNCHANGED <<pc, todo, snap, cur, op, pending>>
      BY <3>1, <3>2, <3>3, FewerReferences DEF Confirming
    <3>4. CASE pending' = [pending EXCEPT ![cur] = op] /\ Advance(cur)
      <4>1. \A c \in Stocks : pending'[c] = pending[c] \/ (Confirming(c) /\ pending'[c] = op)
        BY <3>1, <3>4 DEF TrackingInv, Confirming
      <4> QED
        BY <2>3, <3>1, <3>2, <3>4, <4>1, FewerReferences
    <3> QED
      BY <3>1, <3>3, <3>4
  <2>7. ASSUME NEW c \in Stocks, SweepCancels(c)  PROVE Kept
    <3>1. /\ pc = "sweep" /\ pc' = "cancel" /\ UNCHANGED <<held, filled, phase, pending>>
          /\ cache' \in {cache, held, NoCache}
      BY <2>7 DEF SweepCancels, brokerVars, worldVars
    <3>2. phase # "pre"
      BY <3>1 DEF FillInv
    <3> QED
      BY <3>1, <3>2, FewerReferences
  <2>8. ASSUME CancelOrder  PROVE Kept
    <3>1. /\ pc = "cancel" /\ pc' = "sweep" /\ UNCHANGED <<held, filled, phase, cache>>
          /\ pending' = [pending EXCEPT ![cur] = NoOrder]
      BY <2>8 DEF CancelOrder, worldVars
    <3>2. phase # "pre"
      BY <3>1 DEF FillInv
    <3>3. \A c \in Stocks : pending'[c] = pending[c] \/ pending'[c].side = "none"
      BY <3>1 DEF TrackingInv, NoOrder
    <3> QED
      BY <3>1, <3>2, <3>3, FewerReferences
  <2>9. ASSUME SweepDone \/ ReadBalanceFails \/ ApiLimit \/ BreakerOpens \/ PostMarket  PROVE Kept
    <3>1. /\ pc' \in {"idle", "sweep", "balance"} /\ UNCHANGED <<held, filled, phase, pending>>
          /\ cache' \in {cache, held, NoCache}
          /\ pc \notin {"idle", "confirm"} \/ phase = "closed"
      BY <2>9 DEF SweepDone, ReadBalanceFails, ApiLimit, BreakerOpens, PostMarket, CycleReturns,
                  brokerVars, worldVars
    <3>2. phase # "pre"
      BY <3>1 DEF FillInv
    <3> QED
      BY <3>1, <3>2, FewerReferences
  <2>10. ASSUME ReadBalance  PROVE Kept
    <3> DEFINE shares == IF cache = NoCache THEN held ELSE cache
    <3>1. /\ pc = "balance" /\ UNCHANGED <<held, filled, phase, pending>>
          /\ cache' = shares
          /\ pc' = "idle" \/ (pc' = "stocks" /\ snap' = shares)
      BY <2>10 DEF ReadBalance, CycleReturns, brokerVars, worldVars
    <3>2. phase # "pre"
      BY <3>1 DEF FillInv
    <3>3. ASSUME NEW c \in Stocks, NEW side \in Sides, NEW b \in Nat, Reference(c, side, b)'
          PROVE  Reference(c, side, b) \/ b = held[c]
      <4>1. \/ b = shares[c]
            \/ pending[c].side = side /\ b = pending[c].before
        BY <3>1, <3>3 DEF Reference, Confirming
      <4> QED
        BY <4>1 DEF Reference
    <3> QED
      BY <3>1, <3>2, <3>3 DEF References
  <2>11. ASSUME NEW c \in Stocks, NEW side \in Sides, OrderAccepted(c, side)  PROVE Kept
    <3>1. PICK before \in ReferenceQty(c, side) :
            op' = [no |-> lastNo + 1, side |-> side, before |-> before, age |-> 0]
      BY <2>11 DEF OrderAccepted
    <3>2. /\ pc = "stocks" /\ pc' = "confirm" /\ cur' = c /\ c \in todo /\ cache' = NoCache
          /\ UNCHANGED <<held, filled, phase, pending, todo, snap>>
      BY <2>11 DEF OrderAccepted, worldVars
    <3>3. phase # "pre"
      BY <3>2 DEF FillInv
    <3>4. before = held[c] \/ (cache # NoCache /\ before = cache[c]) \/ before = snap[c]
      BY <2>11 DEF ReferenceQty, OrderAccepted, Allowed, BuyAllowed, SellAllowed
    <3>5. ASSUME NEW d \in Stocks, NEW way \in Sides, NEW b \in Nat, Reference(d, way, b)'
          PROVE  Reference(d, way, b) \/ b = held[d]
      <4>1. \/ pending[d].side = way /\ b = pending[d].before
            \/ d = c /\ b = before
            \/ d \in todo /\ d # c /\ b = snap[d]
        BY <3>1, <3>2, <3>5 DEF Reference, Confirming
      <4> QED
        BY <3>2, <3>4, <4>1 DEF Reference, Confirming
    <3> QED
      BY <3>2, <3>3, <3>5 DEF References
  \* A process that starts remembers at most a balance it has just read.
  <2>12. ASSUME PreMarket \/ StartLate \/ Crash  PROVE Kept
    <3>1. /\ pc' = "idle" /\ cache' \in {held, NoCache} /\ UNCHANGED <<held, filled>>
          /\ pending' = [c \in Stocks |-> NoOrder]
      BY <2>12 DEF PreMarket, StartLate, Crash, MemoryReset, brokerVars
    <3>2. ASSUME NEW c \in Stocks, NEW side \in Sides, NEW b \in Nat, Reference(c, side, b)'
          PROVE  b = held[c]
      BY <3>1, <3>2 DEF Reference, Confirming, NoOrder, Sides
    <3> QED
      BY <3>1, <3>2 DEF References
  <2>13. ASSUME cache' \in {cache, held, NoCache},
                UNCHANGED <<held, filled, loopVars, pending>>,
                phase' = phase \/ (phase = "open" /\ phase' = "closed")
         PROVE  Kept
    BY <2>13, FewerReferences DEF loopVars, Confirming, FillInv
  <2>14. ASSUME CacheExpires \/ ToggleKillFile \/ MarketCloses \/ UNCHANGED vars
              \/ (\E on \in BOOLEAN : CmdHalt(on))  PROVE Kept
    BY <2>13, <2>14
       DEF CacheExpires, ToggleKillFile, MarketCloses, CmdHalt, vars, brokerVars, worldVars, loopVars
  <2>15. ASSUME (\E c \in Stocks : CooldownElapses(c)) \/ (\E i \in DOMAIN ledger : WorkerSaves(i))  PROVE Kept
    BY <2>13, <2>15 DEF CooldownElapses, WorkerSaves, brokerVars, worldVars
  <2>16. Kept
    <3> HIDE DEF Kept
    <3> QED
      BY <1>5, <2>2, <2>4, <2>5, <2>6, <2>7, <2>8, <2>9, <2>10, <2>11, <2>12, <2>14, <2>15
         DEF Next, Engine, World
  <2> QED
    BY <2>1, <2>16, FillKept
<1> QED
  BY <1>1, <1>2, <1>3, <1>4, <1>5

\* Under every fault, any number of crashes, stocks, orders and partial fills, and however
\* stale the balance an order was measured against: the engine never records more shares of a
\* side of a stock than the broker has filled that day.
THEOREM RecordsAreFills == Spec => []RecordedWithinFilled
<1>1. Init => FillInv
  <2>1. ASSUME Init, NEW side \in Sides, NEW c \in Stocks  PROVE RecordedQty(side, c) = 0
    BY <2>1, QtyOfNoRows DEF Init, RecordedQty
  <2>2. ASSUME Init, NEW side \in Sides, NEW c \in Stocks
        PROVE  RecordedQty(side, c) <= filled[c][side]
    <3>1. filled[c][side] = 0
      BY <2>2 DEF Init
    <3> QED
      BY <2>1, <2>2, <3>1
  <2>3. Init => filled \in [Stocks -> [Sides -> Nat]] /\ phase = "pre" /\ pc = "idle"
    BY DEF Init
  <2> QED
    BY <2>2, <2>3 DEF FillInv, RecordedWithinFilled
<1>2. FillInv => RecordedWithinFilled
  BY DEF FillInv
<1> QED
  BY <1>1, <1>2, TypesInit, TypesStep, TrackingInit, TrackingStep, DayTypesInit, DayTypesStep,
     FillStep, PTL DEF Spec

=============================================================================
