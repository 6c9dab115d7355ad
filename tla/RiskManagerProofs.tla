-------------------------- MODULE RiskManagerProofs --------------------------
(***************************************************************************)
(* Theorems about RiskManager, for every choice of the limits, of the      *)
(* amounts and of the number of sales in a day.                            *)
(***************************************************************************)
EXTENDS RiskManager, Recursion, SequenceTheorems, FiniteSetTheorems, TLAPS

\* record_trade_result never leaves the range of its fields: the peak stays a
\* natural number although single results and the total may be negative.
LEMMA RecordedType ==
    ASSUME NEW r \in RiskState, NEW p \in Int
    PROVE  Recorded(r, p) \in RiskState
<1> DEFINE cum == r.cum + p
           peak == IF cum > r.peak THEN cum ELSE r.peak
           losses == NextLosses(r.losses, p)
<1>1. cum \in Int
  BY DEF RiskState
<1>2. peak \in Nat
  BY <1>1 DEF RiskState
<1>3. losses \in Nat
  BY DEF RiskState, NextLosses
<1>4. BreachReason(cum, peak, losses) \in Reasons
  <2> HIDE DEF cum, peak, losses
  <2> QED  BY Zenon DEF BreachReason, Reasons
<1>5. r.reason \in Reasons /\ r.halted \in BOOLEAN
  BY DEF RiskState
<1>6. Recorded(r, p) =
        [cum |-> cum, peak |-> peak, losses |-> losses,
         halted |-> r.halted \/ Breach(cum, peak, losses),
         reason |-> IF r.reason # "none" THEN r.reason
                    ELSE BreachReason(cum, peak, losses)]
  BY DEF Recorded
<1> HIDE DEF cum, peak, losses
<1>7. (r.halted \/ Breach(cum, peak, losses)) \in BOOLEAN
  BY <1>5
<1> QED
  BY <1>1, <1>2, <1>3, <1>4, <1>5, <1>6, <1>7 DEF RiskState

\* A recorded sale that leaves a limit breached raises the halt, whatever the
\* flag was before.
LEMMA RecordedHalts ==
    ASSUME NEW r, NEW p,
           Breach(Recorded(r, p).cum, Recorded(r, p).peak, Recorded(r, p).losses)
    PROVE  Recorded(r, p).halted
BY DEF Recorded

\* The figures of __init__ and reset_daily_risk breach no limit.
LEMMA FreshRiskCalm ==
    /\ FreshRisk \in RiskState
    /\ ~Breach(FreshRisk.cum, FreshRisk.peak, FreshRisk.losses)
BY RiskLimitsAssumption
   DEF FreshRisk, RiskState, Reasons, Breach, DrawdownBreach, LossAbsBreach,
       LossStreakBreach

\* With a drawdown limit of at most 100% (the default is 5%) the net-loss guard
\* of record_trade_result decides alone: once there has been a realised profit,
\* every net loss halts the day, however small the ratio it is compared with.
THEOREM DrawdownRatioIsMoot ==
    ASSUME DrawdownNum <= DrawdownDen, NEW cum \in Int, NEW peak \in Nat
    PROVE  DrawdownBreach(cum, peak) <=> peak > 0 /\ cum < 0
<1>1. SUFFICES ASSUME peak > 0, cum < 0
               PROVE  (peak - cum) * DrawdownDen >= DrawdownNum * peak
  BY <1>1 DEF DrawdownBreach
<1>2. DrawdownNum * peak <= DrawdownDen * peak
  BY RiskLimitsAssumption
<1>3. (peak - cum) * DrawdownDen = peak * DrawdownDen + (-cum) * DrawdownDen
  BY RiskLimitsAssumption
<1>4. (-cum) * DrawdownDen >= 0
  BY <1>1, RiskLimitsAssumption
<1>5. /\ DrawdownNum * peak \in Int /\ DrawdownDen * peak \in Int
      /\ (-cum) * DrawdownDen \in Int
      /\ DrawdownDen * peak = peak * DrawdownDen
  BY RiskLimitsAssumption
<1> QED
  BY <1>2, <1>3, <1>4, <1>5

-----------------------------------------------------------------------------

LEMMA TypeStep == TypeOK /\ [Next]_vars => TypeOK'
<1> SUFFICES ASSUME TypeOK, [Next]_vars  PROVE TypeOK'
  OBVIOUS
<1> USE DEF TypeOK
<1>1. ASSUME NEW p \in Amounts, RecordTradeResult(p)  PROVE TypeOK'
  <2>1. Recorded(risk, p) \in RiskState
    BY RecordedType, AmountsAssumption
  <2> QED
    BY <1>1, <2>1 DEF RecordTradeResult
<1>2. CASE ResetDailyRisk
  <2>1. sells' \in Seq(Amounts)
    BY <1>2, EmptySeq DEF ResetDailyRisk
  <2> QED
    BY <1>2, <2>1, FreshRiskCalm DEF ResetDailyRisk
<1>3. CASE Crash
  BY <1>3, FreshRiskCalm DEF Crash
<1>4. CASE RestoreNothing
  BY <1>4 DEF RestoreNothing
<1>5. CASE RestoreBegin
  <2>1. Len(sells) > 0
    BY <1>5 DEF RestoreBegin
  <2> QED
    BY <1>5, <2>1, FreshRiskCalm DEF RestoreBegin
<1>6. CASE ReplaySell
  <2>1. sells[replayed + 1] \in Int
    <3>1. replayed + 1 \in 1..Len(sells)
      BY <1>6 DEF ReplaySell
    <3>2. sells[replayed + 1] \in Amounts
      BY <3>1, ElementOfSeq
    <3> QED
      BY <3>2, AmountsAssumption
  <2>2. Recorded(risk, sells[replayed + 1]) \in RiskState
    BY <2>1, RecordedType
  <2>3. mode' = "replay" => replayed' < Len(sells')
    BY <1>6 DEF ReplaySell
  <2> QED
    BY <1>6, <2>2, <2>3 DEF ReplaySell
<1>7. CASE CmdStop
  BY <1>7 DEF CmdStop, RiskState
<1>8. CASE CmdResume
  <2>1. Accounted \in Nat
    BY DEF Accounted
  <2> QED
    BY <1>8, <2>1 DEF CmdResume, RiskState
<1>9. CASE UNCHANGED vars
  BY <1>9 DEF vars
<1> QED
  BY <1>1, <1>2, <1>3, <1>4, <1>5, <1>6, <1>7, <1>8, <1>9 DEF Next

\* Type correctness of the RiskManager object and of its replay: in particular
\* the replay loop never reads past the day's sales.
THEOREM TypeCorrect == Spec => []TypeOK
<1>1. Init => TypeOK
  <2>1. <<>> \in Seq(Amounts)
    BY EmptySeq
  <2> SUFFICES ASSUME Init  PROVE TypeOK
    OBVIOUS
  <2>2. risk \in RiskState /\ sells \in Seq(Amounts)
    BY <2>1, FreshRiskCalm DEF Init
  <2>3. mode = "fresh" /\ replayed = 0 /\ stopped = FALSE /\ resumedAt = 0
    BY DEF Init
  <2> QED
    BY <2>2, <2>3 DEF TypeOK
<1> QED
  BY <1>1, TypeStep, PTL DEF Spec

-----------------------------------------------------------------------------

LEMMA HaltStep ==
    TypeOK /\ CurrentBreachHalts /\ [Next]_vars => CurrentBreachHalts'
<1> SUFFICES ASSUME TypeOK, CurrentBreachHalts, [Next]_vars
             PROVE  CurrentBreachHalts'
  OBVIOUS
<1>1. ASSUME NEW p \in Amounts, RecordTradeResult(p)  PROVE CurrentBreachHalts'
  BY <1>1, RecordedHalts DEF RecordTradeResult, CurrentBreachHalts
<1>2. CASE ResetDailyRisk
  BY <1>2, FreshRiskCalm DEF ResetDailyRisk, CurrentBreachHalts
<1>3. CASE Crash
  BY <1>3 DEF Crash, CurrentBreachHalts
<1>4. CASE RestoreNothing
  <2>1. Accounted' = 0
    BY <1>4 DEF RestoreNothing, Accounted
  <2> QED
    BY <1>4, <2>1 DEF RestoreNothing, CurrentBreachHalts, TypeOK
<1>5. CASE RestoreBegin
  BY <1>5, FreshRiskCalm DEF RestoreBegin, CurrentBreachHalts
<1>6. CASE ReplaySell
  BY <1>6, RecordedHalts DEF ReplaySell, CurrentBreachHalts
<1>7. CASE CmdStop
  <2>1. risk'.halted
    BY <1>7 DEF CmdStop, TypeOK, RiskState
  <2> QED
    BY <2>1 DEF CurrentBreachHalts
<1>8. CASE CmdResume
  <2>1. Accounted' = Accounted /\ Accounted \in Nat
    BY <1>8 DEF CmdResume, Accounted, TypeOK
  <2> QED
    BY <1>8, <2>1 DEF CmdResume, CurrentBreachHalts
<1>9. CASE UNCHANGED vars
  BY <1>9 DEF vars, CurrentBreachHalts, Accounted
<1> QED
  BY <1>1, <1>2, <1>3, <1>4, <1>5, <1>6, <1>7, <1>8, <1>9 DEF Next

\* For all limits, amounts and day lengths, through crashes, replays and
\* operator commands: a limit breached by figures newer than the last /resume
\* has the halt up, so the next trading cycle stops at its halt test.
THEOREM BreachIsHalted == Spec => []CurrentBreachHalts
<1>1. Init => CurrentBreachHalts
  BY DEF Init, CurrentBreachHalts
<1> QED
  BY <1>1, TypeStep, HaltStep, TypeCorrect, PTL DEF Spec

-----------------------------------------------------------------------------
(* The figures in memory are those of the day's sales *)

\* The totals begin at zero and add one result after another.
LEMMA TotalsDef ==
    ASSUME NEW s, s \in Seq(Int)
    PROVE  /\ Totals(s) \in [0..Len(s) -> Int]
           /\ Totals(s)[0] = 0
           /\ \A k \in 1..Len(s) : Totals(s)[k] = Totals(s)[k - 1] + s[k]
<1> DEFINE P(h) == h = [k \in 0..Len(s) |-> IF k = 0 THEN 0 ELSE h[k - 1] + s[k]]
<1>1. PICK A, a, n : A = Int /\ a = 0 /\ n = Len(s)
  OBVIOUS
<1>2. PICK step : step = [k \in 1..n |-> [x \in A |-> x + s[k]]]
  OBVIOUS
<1>3. a \in A /\ n \in Nat /\ step \in [1..n -> [A -> A]]
  BY <1>1, <1>2
<1>4. PICK f : f \in [0..n -> A] /\ f[0] = a /\ \A k \in 1..n : f[k] = step[k][f[k - 1]]
  BY ONLY <1>3, RecursionExists
<1>5. ASSUME NEW k \in 1..n  PROVE f[k] = f[k - 1] + s[k]
  <2>1. k - 1 \in 0..n /\ f[k - 1] \in A
    BY <1>3, <1>4
  <2> QED
    BY <1>2, <1>4, <2>1
<1>6. P(f)
  BY <1>1, <1>4, <1>5
<1>7. P(Totals(s))
  <2>1. Totals(s) = CHOOSE h : P(h)
    BY DEF Totals
  <2> HIDE DEF P
  <2> QED
    BY <1>6, <2>1
<1>8. PICK sum : sum = Totals(s)
  OBVIOUS
<1>9. sum[0] = 0 /\ \A k \in 1..n : sum[k] = sum[k - 1] + s[k]
  BY <1>1, <1>7, <1>8
<1>10. \A k \in 0..n : f[k] = sum[k]
  <2>1. f[0] = sum[0] /\ \A k \in 1..n : f[k - 1] = sum[k - 1] => f[k] = sum[k]
    BY <1>1, <1>4, <1>5, <1>9
  <2>2. n \in Nat
    BY <1>3
  <2> QED
    BY ONLY <2>2, <2>1, RecursionsAgree
<1>11. sum \in [0..n -> A]
  BY <1>1, <1>4, <1>7, <1>8, <1>10
<1> QED
  BY <1>1, <1>8, <1>9, <1>11

\* The total of a day, place by place.
LEMMA CumSteps ==
    ASSUME sells \in Seq(Int)
    PROVE  /\ CumAt(0) = 0
           /\ \A k \in 0..Len(sells) : CumAt(k) \in Int
           /\ \A k \in 1..Len(sells) : CumAt(k) = CumAt(k - 1) + sells[k]
  BY TotalsDef DEF CumAt

LEMMA MaxIs ==
    ASSUME NEW S \in SUBSET Int, NEW m \in S, \A y \in S : y <= m
    PROVE  Max(S) = m
<1>1. m \in S /\ \A y \in S : m >= y
  OBVIOUS
<1>2. Max(S) \in S /\ \A y \in S : Max(S) >= y
  <2> DEFINE P(x) == x \in S /\ \A y \in S : x >= y
  <2>1. Max(S) = CHOOSE x : P(x)
    BY DEF Max
  <2>2. P(m)
    BY <1>1
  <2>3. P(CHOOSE x : P(x))
    <3> HIDE DEF P
    <3> QED
      BY <2>2
  <2> QED
    BY <2>1, <2>3
<1>3. PICK x \in Int : x = Max(S)
  BY <1>2
<1> QED
  BY <1>1, <1>2, <1>3

LEMMA MinIs ==
    ASSUME NEW S \in SUBSET Int, NEW m \in S, \A y \in S : m <= y
    PROVE  Min(S) = m
<1>1. m \in S /\ \A y \in S : m <= y
  OBVIOUS
<1>2. Min(S) \in S /\ \A y \in S : Min(S) <= y
  <2> DEFINE P(x) == x \in S /\ \A y \in S : x <= y
  <2>1. Min(S) = CHOOSE x : P(x)
    BY DEF Min
  <2>2. P(m)
    BY <1>1
  <2>3. P(CHOOSE x : P(x))
    <3> HIDE DEF P
    <3> QED
      BY <2>2
  <2> QED
    BY <2>1, <2>3
<1>3. PICK x \in Int : x = Min(S)
  BY <1>2
<1> QED
  BY <1>1, <1>2, <1>3

\* The peak of a day exists, and rises with the total only.
LEMMA PeakSteps ==
    ASSUME sells \in Seq(Int)
    PROVE  /\ PeakAt(0) = 0
           /\ \A k \in 0..Len(sells) : PeakAt(k) \in Int
           /\ \A k \in 1..Len(sells) :
                 PeakAt(k) = IF CumAt(k) > PeakAt(k - 1) THEN CumAt(k) ELSE PeakAt(k - 1)
<1> DEFINE n == Len(sells)
           IsPeak(m, k) == /\ m \in {CumAt(j) : j \in 0..k}
                           /\ \A j \in 0..k : CumAt(j) <= m
           S == {k \in Nat : k <= n => IsPeak(PeakAt(k), k)}
<1> HIDE DEF n
<1>1. n \in Nat /\ CumAt(0) = 0 /\ \A k \in 0..n : CumAt(k) \in Int
  BY CumSteps DEF n
<1>2. ASSUME NEW k \in 0..n, NEW m, IsPeak(m, k)  PROVE PeakAt(k) = m
  <2>1. {CumAt(j) : j \in 0..k} \in SUBSET Int
    BY <1>1
  <2>2. \A y \in {CumAt(j) : j \in 0..k} : y <= m
    BY <1>2
  <2> QED
    BY <1>2, <2>1, <2>2, MaxIs DEF PeakAt
<1>3. PeakAt(0) = 0 /\ IsPeak(PeakAt(0), 0)
  <2>1. IsPeak(0, 0)
    BY <1>1
  <2> QED
    BY <1>1, <1>2, <2>1
<1>4. ASSUME NEW k \in Nat, k + 1 <= n, IsPeak(PeakAt(k), k)
      PROVE  /\ IsPeak(PeakAt(k + 1), k + 1)
             /\ PeakAt(k + 1) = IF CumAt(k + 1) > PeakAt(k) THEN CumAt(k + 1) ELSE PeakAt(k)
  <2> DEFINE m == IF CumAt(k + 1) > PeakAt(k) THEN CumAt(k + 1) ELSE PeakAt(k)
  <2>1. PeakAt(k) \in Int /\ CumAt(k + 1) \in Int
    BY <1>1, <1>4
  <2>2. m \in {CumAt(j) : j \in 0..(k + 1)}
    <3>1. PICK j \in 0..k : PeakAt(k) = CumAt(j)
      BY <1>4
    <3> QED
      BY <3>1
  <2>3. \A j \in 0..(k + 1) : CumAt(j) <= m
    <3>1. ASSUME NEW j \in 0..(k + 1)  PROVE CumAt(j) <= m
      <4>1. CASE j = k + 1
        BY <2>1, <4>1
      <4>2. CASE j \in 0..k
        <5>1. CumAt(j) <= PeakAt(k) /\ CumAt(j) \in Int
          BY <1>1, <1>4, <4>2
        <5> QED
          BY <2>1, <5>1
      <4> QED
        BY <4>1, <4>2
    <3> QED
      BY <3>1
  <2>4. IsPeak(m, k + 1)
    BY <2>2, <2>3
  <2>5. PeakAt(k + 1) = m
    <3>1. k + 1 \in 0..n
      BY <1>1, <1>4
    <3> HIDE DEF IsPeak, m
    <3> QED
      BY <1>2, <2>4, <3>1
  <2> QED
    BY <2>4, <2>5
<1>5. \A k \in 0..n : IsPeak(PeakAt(k), k)
  <2>1. 0 \in S /\ \A k \in Nat : k \in S => k + 1 \in S
    BY <1>1, <1>3, <1>4
  <2>2. \A k \in Nat : k \in S
    <3> HIDE DEF S
    <3> QED
      BY <2>1, SetInduction
  <2> QED
    BY <1>1, <2>2
<1>6. ASSUME NEW k \in 1..n
      PROVE  PeakAt(k) = IF CumAt(k) > PeakAt(k - 1) THEN CumAt(k) ELSE PeakAt(k - 1)
  <2>1. k - 1 \in 0..n /\ k - 1 \in Nat /\ (k - 1) + 1 = k /\ k <= n
    BY <1>1
  <2>2. IsPeak(PeakAt(k - 1), k - 1)
    BY <1>5, <2>1
  <2> HIDE DEF IsPeak
  <2> QED
    BY <1>4, <2>1, <2>2
<1> QED
  BY <1>1, <1>3, <1>5, <1>6 DEF n

\* The losses in a row: a loss adds one, a profit ends them, a sale at cost keeps them.
Streak(k) == {i \in 1..k : sells[i] < 0 /\ \A j \in i..k : sells[j] <= 0}

LEMMA LossSteps ==
    ASSUME sells \in Seq(Int)
    PROVE  /\ LossesAt(0) = 0
           /\ \A k \in 0..Len(sells) : LossesAt(k) \in Nat
           /\ \A k \in 1..Len(sells) : LossesAt(k) = NextLosses(LossesAt(k - 1), sells[k])
<1>1. \A k \in 0..Len(sells) : Streak(k) \subseteq 1..k /\ IsFiniteSet(Streak(k))
  BY FS_Interval, FS_Subset DEF Streak
<1>2. \A k \in 0..Len(sells) : LossesAt(k) = Cardinality(Streak(k)) /\ LossesAt(k) \in Nat
  BY <1>1, FS_CardinalityType DEF LossesAt, Streak
<1>3. LossesAt(0) = 0
  <2>1. Streak(0) = {}
    BY DEF Streak
  <2>2. 0 \in 0..Len(sells)
    OBVIOUS
  <2>3. LossesAt(0) = Cardinality(Streak(0))
    BY <1>2, <2>2
  <2> QED
    BY <2>1, <2>3, FS_EmptySet
<1>4. ASSUME NEW k \in 1..Len(sells)
      PROVE  LossesAt(k) = NextLosses(LossesAt(k - 1), sells[k])
  <2>1. k - 1 \in 0..Len(sells) /\ k \in 0..Len(sells) /\ sells[k] \in Int
    OBVIOUS
  <2>2. CASE sells[k] < 0
    <3>1. Streak(k) = Streak(k - 1) \cup {k} /\ k \notin Streak(k - 1)
      BY <2>1, <2>2 DEF Streak
    <3>2. Cardinality(Streak(k)) = Cardinality(Streak(k - 1)) + 1
      BY <1>1, <2>1, <3>1, FS_AddElement
    <3>3. LossesAt(k) = LossesAt(k - 1) + 1
      BY <1>2, <2>1, <3>2
    <3> QED
      BY <2>2, <3>3 DEF NextLosses
  <2>3. CASE sells[k] > 0
    <3>1. Streak(k) = {}
      BY <2>1, <2>3 DEF Streak
    <3>2. LossesAt(k) = 0
      BY <1>2, <2>1, <3>1, FS_EmptySet
    <3> QED
      BY <2>1, <2>3, <3>2 DEF NextLosses
  <2>4. CASE sells[k] = 0
    <3>1. Streak(k) = Streak(k - 1)
      BY <2>1, <2>4 DEF Streak
    <3>2. LossesAt(k) = LossesAt(k - 1)
      BY <1>2, <2>1, <3>1
    <3> QED
      BY <2>4, <3>2 DEF NextLosses
  <2> QED
    BY <2>1, <2>2, <2>3, <2>4
<1> QED
  BY <1>2, <1>3, <1>4

\* A day with a breach has a first one.
LEMMA FirstBreach ==
    ASSUME NEW n \in Nat, Breaches(n) # {}
    PROVE  \E f \in Breaches(n) : f = Min(Breaches(n)) /\ \A j \in Breaches(n) : f <= j
<1> DEFINE First(f, k) == f \in Breaches(k) /\ \A j \in Breaches(k) : f <= j
<1>1. \A k \in Nat : Breaches(k) # {} => \E f : First(f, k)
  <2> DEFINE S == {k \in Nat : Breaches(k) # {} => \E f : First(f, k)}
  <2>1. 0 \in S
    BY DEF Breaches
  <2>2. ASSUME NEW k \in Nat, k \in S  PROVE k + 1 \in S
    <3>1. CASE Breaches(k) = {}
      <4>1. Breaches(k + 1) # {} => First(k + 1, k + 1)
        BY <3>1 DEF Breaches
      <4> QED
        BY <4>1
    <3>2. CASE Breaches(k) # {}
      <4>1. PICK f : First(f, k)
        BY <2>2, <3>2
      <4>2. First(f, k + 1)
        BY <4>1 DEF Breaches
      <4> QED
        BY <4>2
    <3> QED
      BY <3>1, <3>2
  <2>3. \A k \in Nat : k \in S
    <3> HIDE DEF S
    <3> QED
      BY <2>1, <2>2, SetInduction
  <2> QED
    BY <2>3
<1>2. PICK f : First(f, n)
  BY <1>1
<1>3. Breaches(n) \in SUBSET Int
  BY DEF Breaches
<1>4. Min(Breaches(n)) = f
  BY <1>2, <1>3, MinIs
<1> QED
  BY <1>2, <1>4

\* The first breach gives the reason, and later ones do not change it.
LEMMA ReasonSteps ==
    ASSUME NEW n \in Nat
    PROVE  /\ FirstReason(0) = "none"
           /\ \A k \in 1..n :
                 FirstReason(k) = IF FirstReason(k - 1) # "none" THEN FirstReason(k - 1)
                                  ELSE BreachReason(CumAt(k), PeakAt(k), LossesAt(k))
<1> DEFINE ReasonOf(f) == BreachReason(CumAt(f), PeakAt(f), LossesAt(f))
           First(f, k) == f \in Breaches(k) /\ \A j \in Breaches(k) : f <= j
<1>1. \A f : BreachAt(f) <=> ReasonOf(f) # "none"
  BY DEF BreachAt, Breach, BreachReason
<1>2. ASSUME NEW k \in Nat, NEW f, First(f, k)  PROVE FirstReason(k) = ReasonOf(f)
  <2>1. Breaches(k) \in SUBSET Int
    BY DEF Breaches
  <2>2. Min(Breaches(k)) = f
    BY <1>2, <2>1, MinIs
  <2>3. Breaches(k) # {}
    BY <1>2
  <2> QED
    BY <2>2, <2>3 DEF FirstReason
<1>3. \A k \in Nat : Breaches(k) = {} => FirstReason(k) = "none"
  BY DEF FirstReason
<1>4. \A k \in Nat : Breaches(k) # {} => \E f : First(f, k)
  BY FirstBreach
<1>5. FirstReason(0) = "none"
  BY <1>3 DEF Breaches
<1>6. ASSUME NEW k \in 1..n
      PROVE  FirstReason(k) = IF FirstReason(k - 1) # "none" THEN FirstReason(k - 1)
                              ELSE ReasonOf(k)
  <2>1. k - 1 \in Nat /\ k \in Nat
    OBVIOUS
  <2>2. CASE Breaches(k - 1) # {}
    <3>1. PICK f : First(f, k - 1)
      BY <1>4, <2>1, <2>2
    <3>2. First(f, k) /\ BreachAt(f)
      BY <3>1 DEF Breaches
    <3>3. FirstReason(k - 1) = ReasonOf(f) /\ FirstReason(k) = ReasonOf(f)
      BY <1>2, <2>1, <3>1, <3>2
    <3> QED
      BY <1>1, <3>2, <3>3
  <2>3. CASE Breaches(k - 1) = {}
    <3>1. FirstReason(k - 1) = "none"
      BY <1>3, <2>1, <2>3
    <3>2. CASE BreachAt(k)
      <4>1. First(k, k)
        BY <2>3, <3>2 DEF Breaches
      <4> QED
        BY <1>2, <2>1, <3>1, <4>1
    <3>3. CASE ~BreachAt(k)
      <4>1. Breaches(k) = {}
        BY <2>3, <3>3 DEF Breaches
      <4> QED
        BY <1>1, <1>3, <2>1, <3>1, <3>3, <4>1
    <3> QED
      BY <3>2, <3>3
  <2> QED
    BY <2>2, <2>3
<1> QED
  BY <1>5, <1>6

\* A further sale leaves the figures of the places before it.
LEMMA FiguresKept ==
    ASSUME sells \in Seq(Int), NEW p \in Int, sells' = Append(sells, p)
    PROVE  /\ sells' \in Seq(Int) /\ Len(sells') = Len(sells) + 1
           /\ sells'[Len(sells) + 1] = p
           /\ \A k \in 0..Len(sells) :
                 /\ CumAt(k)' = CumAt(k) /\ PeakAt(k)' = PeakAt(k)
                 /\ LossesAt(k)' = LossesAt(k) /\ FirstReason(k)' = FirstReason(k)
                 /\ k > 0 => BreachAt(k)' = BreachAt(k)
<1>1. /\ sells' \in Seq(Int) /\ Len(sells') = Len(sells) + 1 /\ Len(sells) \in Nat
      /\ sells'[Len(sells) + 1] = p
      /\ \A i \in 1..Len(sells) : sells'[i] = sells[i]
  OBVIOUS
<1>2. \A k \in 0..Len(sells) : CumAt(k)' = CumAt(k)
  <2>1. PICK old, new, n : old = Totals(sells) /\ new = Totals(sells') /\ n = Len(sells)
    OBVIOUS
  <2>2. n \in Nat
    BY <1>1, <2>1
  <2>3. /\ old[0] = 0 /\ \A k \in 1..n : old[k] = old[k - 1] + sells[k]
        /\ new[0] = 0 /\ \A k \in 1..n : new[k] = new[k - 1] + sells[k]
    <3>1. old[0] = 0 /\ \A k \in 1..n : old[k] = old[k - 1] + sells[k]
      BY <2>1, TotalsDef
    <3>2. new[0] = 0 /\ \A k \in 1..Len(sells') : new[k] = new[k - 1] + sells'[k]
      BY <1>1, <2>1, TotalsDef
    <3>3. \A k \in 1..n : k \in 1..Len(sells') /\ sells'[k] = sells[k]
      BY <1>1, <2>1
    <3> QED
      BY <3>1, <3>2, <3>3
  <2>4. new[0] = old[0] /\ \A k \in 1..n : new[k - 1] = old[k - 1] => new[k] = old[k]
    BY <2>3
  <2>5. \A k \in 0..n : new[k] = old[k]
    BY ONLY <2>2, <2>4, RecursionsAgree
  <2> QED
    BY <2>1, <2>5 DEF CumAt
<1>3. \A k \in 0..Len(sells) : PeakAt(k)' = PeakAt(k)
  <2>1. ASSUME NEW k \in 0..Len(sells)  PROVE PeakAt(k)' = PeakAt(k)
    <3>1. {CumAt(j) : j \in 0..k}' = {CumAt(j) : j \in 0..k}
      BY <1>1, <1>2
    <3> QED
      BY <3>1 DEF PeakAt
  <2> QED
    BY <2>1
<1>4. \A k \in 0..Len(sells) : LossesAt(k)' = LossesAt(k)
  <2>1. ASSUME NEW k \in 0..Len(sells)  PROVE LossesAt(k)' = LossesAt(k)
    <3>1. Streak(k)' = Streak(k)
      BY <1>1 DEF Streak
    <3> QED
      BY <3>1 DEF LossesAt, Streak
  <2> QED
    BY <2>1
<1>5. \A k \in 0..Len(sells) : BreachAt(k)' = BreachAt(k)
  BY <1>2, <1>3, <1>4 DEF BreachAt
<1>6. \A k \in 0..Len(sells) : FirstReason(k)' = FirstReason(k)
  <2>1. ASSUME NEW k \in 0..Len(sells)  PROVE FirstReason(k)' = FirstReason(k)
    <3>1. Breaches(k)' = Breaches(k) /\ Breaches(k) \subseteq 0..Len(sells)
      BY <1>5 DEF Breaches
    <3>2. CASE Breaches(k) = {}
      BY <3>1, <3>2 DEF FirstReason
    <3>3. CASE Breaches(k) # {}
      <4>1. PICK f : f = Min(Breaches(k))
        OBVIOUS
      <4>2. f \in 0..Len(sells)
        BY <3>1, <3>3, <4>1, FirstBreach
      <4>3. CumAt(f)' = CumAt(f) /\ PeakAt(f)' = PeakAt(f) /\ LossesAt(f)' = LossesAt(f)
        BY <1>2, <1>3, <1>4, <4>2
      <4> QED
        BY <3>1, <3>3, <4>1, <4>3 DEF FirstReason
    <3> QED
      BY <3>2, <3>3
  <2> QED
    BY <2>1
<1> QED
  BY <1>1, <1>2, <1>3, <1>4, <1>5, <1>6

\* The figures of a place of the day follow from those of the place before as
\* record_trade_result computes them.
FiguresFollow ==
    /\ CumAt(0) = 0 /\ PeakAt(0) = 0 /\ LossesAt(0) = 0 /\ FirstReason(0) = "none"
    /\ \A k \in 1..Len(sells) :
          LET cum == CumAt(k - 1) + sells[k]
              peak == IF cum > PeakAt(k - 1) THEN cum ELSE PeakAt(k - 1)
              losses == NextLosses(LossesAt(k - 1), sells[k])
          IN  /\ CumAt(k) = cum /\ PeakAt(k) = peak /\ LossesAt(k) = losses
              /\ FirstReason(k) = IF FirstReason(k - 1) # "none" THEN FirstReason(k - 1)
                                  ELSE BreachReason(cum, peak, losses)

LEMMA FiguresDoFollow == sells \in Seq(Int) => FiguresFollow
<1> SUFFICES ASSUME sells \in Seq(Int)  PROVE FiguresFollow
  OBVIOUS
<1>1. Len(sells) \in Nat
  OBVIOUS
<1> QED
  BY <1>1, CumSteps, PeakSteps, LossSteps, ReasonSteps DEF FiguresFollow

LEMMA FiguresFollowNext == sells' \in Seq(Int) => FiguresFollow'
<1>1. (sells \in Seq(Int) => FiguresFollow)'
  BY FiguresDoFollow, PTL
<1> QED
  BY <1>1

\* The figures in memory are those of the k-th place of the day.
MatchedAt(k) ==
    /\ risk.cum = CumAt(k) /\ risk.peak = PeakAt(k) /\ risk.losses = LossesAt(k)
    /\ risk.reason = FirstReason(k)

\* Recording the next sale takes memory from one place to the next.
LEMMA RecordedMatches ==
    ASSUME risk \in RiskState, sells' \in Seq(Int), NEW k \in 1..Len(sells'),
           risk.cum = CumAt(k - 1)', risk.peak = PeakAt(k - 1)',
           risk.losses = LossesAt(k - 1)', risk.reason = FirstReason(k - 1)',
           risk' = Recorded(risk, sells'[k])
    PROVE  /\ MatchedAt(k)'
           /\ risk'.halted => risk.halted \/ BreachAt(k)'
<1> DEFINE cum == risk.cum + sells'[k]
           peak == IF cum > risk.peak THEN cum ELSE risk.peak
           losses == NextLosses(risk.losses, sells'[k])
<1>1. /\ CumAt(k)' = cum /\ PeakAt(k)' = peak /\ LossesAt(k)' = losses
      /\ FirstReason(k)' = IF risk.reason # "none" THEN risk.reason
                           ELSE BreachReason(cum, peak, losses)
  BY FiguresFollowNext DEF FiguresFollow
<1>2. /\ risk'.cum = cum /\ risk'.peak = peak /\ risk'.losses = losses
      /\ risk'.reason = IF risk.reason # "none" THEN risk.reason
                        ELSE BreachReason(cum, peak, losses)
      /\ risk'.halted = (risk.halted \/ Breach(cum, peak, losses))
  BY DEF Recorded
<1> HIDE DEF cum, peak, losses
<1> QED
  BY <1>1, <1>2 DEF MatchedAt, BreachAt

\* What memory accounts for it accounts for rightly, and a halt has its cause there.
FiguresInv == MatchedAt(Accounted) /\ HaltExplained

LEMMA FreshMatches ==
    ASSUME sells' \in Seq(Int), risk' = FreshRisk
    PROVE  MatchedAt(0)' /\ HaltExplained'
  BY FiguresFollowNext DEF FiguresFollow, MatchedAt, FreshRisk, HaltExplained

LEMMA FiguresStep == TypeOK /\ TypeOK' /\ FiguresInv /\ [Next]_vars => FiguresInv'
<1> SUFFICES ASSUME TypeOK, TypeOK', FiguresInv, [Next]_vars  PROVE FiguresInv'
  OBVIOUS
<1>1. sells \in Seq(Int) /\ sells' \in Seq(Int) /\ Accounted \in 0..Len(sells)
  BY AmountsAssumption DEF TypeOK, Accounted
<1>2. ASSUME NEW p \in Amounts, RecordTradeResult(p)  PROVE FiguresInv'
  <2>1. PICK n : n = Len(sells)
    OBVIOUS
  <2>2. n \in Nat /\ Accounted = n /\ Accounted' = n + 1 /\ p \in Int
    BY <1>1, <1>2, <2>1, AmountsAssumption DEF RecordTradeResult, Accounted
  <2>3. /\ Len(sells') = n + 1 /\ sells'[n + 1] = p
        /\ CumAt(n)' = CumAt(n) /\ PeakAt(n)' = PeakAt(n)
        /\ LossesAt(n)' = LossesAt(n) /\ FirstReason(n)' = FirstReason(n)
        /\ \A k \in 1..n : BreachAt(k)' = BreachAt(k)
    BY <1>1, <1>2, <2>1, <2>2, FiguresKept DEF RecordTradeResult
  <2>4. MatchedAt(n + 1)' /\ (risk'.halted => risk.halted \/ BreachAt(n + 1)')
    <3>1. n + 1 \in 1..Len(sells') /\ (n + 1) - 1 = n
      BY <2>2, <2>3
    <3>2. risk' = Recorded(risk, sells'[n + 1]) /\ risk \in RiskState
      BY <1>2, <2>3 DEF RecordTradeResult, TypeOK
    <3>3. MatchedAt(n)
      BY <2>2 DEF FiguresInv
    <3> QED
      BY <1>1, <2>3, <3>1, <3>2, <3>3, RecordedMatches DEF MatchedAt
  <2>5. HaltExplained'
    <3>1. risk.halted => stopped \/ \E k \in 1..n : BreachAt(k)
      BY <2>2 DEF FiguresInv, HaltExplained
    <3>2. stopped' = stopped /\ 1..n \subseteq 1..(n + 1) /\ n + 1 \in 1..(n + 1)
      BY <1>2, <2>2 DEF RecordTradeResult
    <3>3. risk'.halted => stopped' \/ \E k \in 1..(n + 1) : BreachAt(k)'
      BY <2>3, <2>4, <3>1, <3>2
    <3> QED
      BY <2>2, <3>3 DEF HaltExplained
  <2> QED
    BY <2>2, <2>4, <2>5 DEF FiguresInv
<1>3. CASE ReplaySell
  <2>1. PICK n : n = replayed
    OBVIOUS
  <2>2. n \in Nat /\ n + 1 \in 1..Len(sells) /\ Accounted = n /\ Accounted' = n + 1
    BY <1>3, <2>1 DEF ReplaySell, TypeOK, Accounted
  <2>3. sells' = sells /\ stopped' = stopped /\ risk' = Recorded(risk, sells'[n + 1])
    BY <1>3, <2>1 DEF ReplaySell
  <2>4. MatchedAt(n)
    BY <2>2 DEF FiguresInv
  <2>5. /\ CumAt(n)' = CumAt(n) /\ PeakAt(n)' = PeakAt(n) /\ LossesAt(n)' = LossesAt(n)
        /\ FirstReason(n)' = FirstReason(n) /\ \A k \in 1..n : BreachAt(k)' = BreachAt(k)
    BY <2>3 DEF CumAt, PeakAt, LossesAt, BreachAt, FirstReason, Breaches
  <2>6. MatchedAt(n + 1)' /\ (risk'.halted => risk.halted \/ BreachAt(n + 1)')
    <3>1. n + 1 \in 1..Len(sells') /\ (n + 1) - 1 = n /\ risk \in RiskState
      BY <2>2, <2>3 DEF TypeOK
    <3> QED
      BY <1>1, <2>3, <2>4, <2>5, <3>1, RecordedMatches DEF MatchedAt
  <2>7. HaltExplained'
    <3>1. risk.halted => stopped \/ \E k \in 1..n : BreachAt(k)
      BY <2>2 DEF FiguresInv, HaltExplained
    <3>2. 1..n \subseteq 1..(n + 1) /\ n + 1 \in 1..(n + 1)
      BY <2>2
    <3>3. risk'.halted => stopped' \/ \E k \in 1..(n + 1) : BreachAt(k)'
      BY <2>3, <2>5, <2>6, <3>1, <3>2
    <3> QED
      BY <2>2, <3>3 DEF HaltExplained
  <2> QED
    BY <2>2, <2>6, <2>7 DEF FiguresInv
<1>4. CASE ResetDailyRisk \/ Crash \/ RestoreBegin
  <2>1. risk' = FreshRisk /\ Accounted' = 0
    BY <1>4, <1>1 DEF ResetDailyRisk, Crash, RestoreBegin, Accounted
  <2> QED
    BY <1>1, <2>1, FreshMatches DEF FiguresInv
<1>5. CASE RestoreNothing \/ CmdStop \/ CmdResume \/ UNCHANGED vars
  <2>1. /\ sells' = sells /\ Accounted' = Accounted
        /\ UNCHANGED <<risk.cum, risk.peak, risk.losses, risk.reason>>
        /\ risk'.halted => stopped' \/ (risk.halted /\ stopped' = stopped)
    <3>1. CASE RestoreNothing
      BY <3>1 DEF RestoreNothing, Accounted
    <3>2. CASE CmdStop
      BY <3>2 DEF CmdStop, Accounted, TypeOK, RiskState
    <3>3. CASE CmdResume
      BY <3>3 DEF CmdResume, Accounted, TypeOK, RiskState
    <3>4. CASE UNCHANGED vars
      BY <3>4 DEF vars, Accounted
    <3> QED
      BY <1>5, <3>1, <3>2, <3>3, <3>4
  <2>2. \A k : /\ CumAt(k)' = CumAt(k) /\ PeakAt(k)' = PeakAt(k)
               /\ LossesAt(k)' = LossesAt(k) /\ FirstReason(k)' = FirstReason(k)
               /\ BreachAt(k)' = BreachAt(k)
    BY <2>1 DEF CumAt, PeakAt, LossesAt, BreachAt, FirstReason, Breaches
  <2>3. MatchedAt(Accounted)'
    BY <2>1, <2>2 DEF FiguresInv, MatchedAt
  <2>4. HaltExplained'
    BY <2>1, <2>2 DEF FiguresInv, HaltExplained
  <2> QED
    BY <2>3, <2>4 DEF FiguresInv
<1> QED
  BY <1>2, <1>3, <1>4, <1>5 DEF Next

LEMMA FiguresInvariance == Spec => []FiguresInv
<1>1. Init => FiguresInv
  <2> SUFFICES ASSUME Init  PROVE FiguresInv
    OBVIOUS
  <2>1. sells \in Seq(Int) /\ risk = FreshRisk /\ Accounted = 0
    BY EmptySeq DEF Init, Accounted
  <2> QED
    BY <2>1, FiguresDoFollow
    DEF FiguresFollow, FiguresInv, MatchedAt, FreshRisk, HaltExplained
<1> QED
  BY <1>1, FiguresStep, TypeCorrect, PTL DEF Spec

\* For all limits and amounts, and any number of sales: whatever crashes, half-finished
\* replays and operator commands happen, total, peak, loss streak and the reason of the
\* halt are the ones the day's sales determine.
THEOREM FiguresAreTheDays == Spec => []RiskMatchesSells
<1>1. FiguresInv => RiskMatchesSells
  BY DEF FiguresInv, MatchedAt, RiskMatchesSells
<1> QED
  BY <1>1, FiguresInvariance, PTL

\* For all limits: trading is halted only by /stop or by a sale of this day that breached a
\* limit, of those that memory accounts for.
THEOREM HaltsHaveACause == Spec => []HaltExplained
<1>1. FiguresInv => HaltExplained
  BY DEF FiguresInv
<1> QED
  BY <1>1, FiguresInvariance, PTL

=============================================================================
