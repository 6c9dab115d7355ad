----------------------------- MODULE Strategies -----------------------------
(***************************************************************************)
(* From prices to one signal: the four strategies of src/strategy, the     *)
(* ensemble that lets them vote, and the registry and selector that say    *)
(* whose signal counts for a stock.                                        *)
(*                                                                         *)
(* A reading is what a strategy computes from the daily closes: averages,  *)
(* an RSI, a histogram, a band.  Each reading may also be missing: too few *)
(* rows, or NaN.  Confidences are in parts of Unit, rounded down where the *)
(* code divides floats.                                                    *)
(***************************************************************************)
EXTENDS Integers, Sequences, FiniteSetsExt

CONSTANTS
    Unit,           \* confidence 1.0
    MaxDivergence,  \* strategy.ma_max_divergence, in parts of Unit
    Oversold,       \* strategy.rsi_oversold
    Overbought,     \* strategy.rsi_overbought
    Averages,       \* readings [prev, short, long]: prev is the sign of the bar before
    RsiValues,      \* readings 0..100
    Histograms,     \* readings [prev, cur, price]
    Bands,          \* readings [price, lower, upper]
    SoloMins        \* strategy.solo_buy_min_confidence; more than Unit turns it off

VARIABLES
    method,     \* strategy.ensemble_method
    solo,       \* strategy.solo_buy_min_confidence
    trend,      \* strategy.trend_filter_enabled
    signals,    \* signals of the strategies analysed so far, each with the name of its strategy
    decision    \* the signal the engine gets, and from whom

strategyVars == <<method, solo, trend, signals, decision>>

Methods == {"majority", "weighted", "performance"}
Names == <<"moving_average", "rsi", "macd", "bollinger">>
TrendFollowing == {"moving_average", "macd"}
Registered == {Names[i] : i \in DOMAIN Names} \cup {"ensemble"}

Signal(type, confidence) == [type |-> type, confidence |-> confidence]
Hold == Signal("HOLD", 0)
Undecided == [by |-> "nobody", signal |-> Hold]

Abs(x) == IF x < 0 THEN -x ELSE x
Clamp(x) == Min({Max({x, 0}), Unit})

-----------------------------------------------------------------------------
(* The four strategies *)

\* MovingAverageStrategy.analyze: the short average crosses the long one.
MovingAverage(r) ==
    LET confidence == IF r.long = 0 THEN 0
                      ELSE Min({(Abs(r.short - r.long) * Unit * Unit) \div (r.long * MaxDivergence), Unit})
    IN  CASE r.prev <= 0 /\ r.short > r.long -> Signal("BUY", confidence)
          [] r.prev >= 0 /\ r.short < r.long -> Signal("SELL", confidence)
          [] OTHER -> Hold

\* RSIStrategy.analyze: the further beyond its threshold, the surer.
Rsi(r) ==
    CASE r < Oversold -> Signal("BUY", Clamp(((Oversold - r) * Unit) \div Oversold))
      [] r > Overbought -> Signal("SELL", Clamp(((r - Overbought) * Unit) \div (100 - Overbought)))
      [] OTHER -> Hold

\* MACDStrategy.analyze: the histogram crosses zero; a hundredth of the price is certainty.
Macd(r) ==
    LET confidence == Min({(Abs(r.cur) * 100 * Unit) \div r.price, Unit})
    IN  CASE r.prev <= 0 /\ 0 < r.cur -> Signal("BUY", confidence)
          [] r.prev >= 0 /\ 0 > r.cur -> Signal("SELL", confidence)
          [] OTHER -> Hold

\* %B: where the price is between the bands; half of a band of no width.
PercentB(r) == IF r.upper > r.lower THEN ((r.price - r.lower) * Unit) \div (r.upper - r.lower)
               ELSE Unit \div 2

\* BollingerBandStrategy.analyze.  On a flat price both bands are met, and the lower wins.
Bollinger(r) ==
    CASE r.price <= r.lower ->
            Signal("BUY", Max({Min({Unit - PercentB(r), Unit}), Unit \div 10}))
      [] r.price >= r.upper ->
            Signal("SELL", Max({Min({PercentB(r) - Unit \div 2, Unit}), Unit \div 10}))
      [] OTHER -> Hold

\* The signals a strategy may give.
SignalsOf(name) ==
    {Hold} \cup CASE name = "moving_average" -> {MovingAverage(r) : r \in Averages}
                  [] name = "rsi" -> {Rsi(r) : r \in RsiValues}
                  [] name = "macd" -> {Macd(r) : r \in Histograms}
                  [] name = "bollinger" -> {Bollinger(r) : r \in Bands}

-----------------------------------------------------------------------------
(* EnsembleStrategy: a set of votes, which carry the name of their strategy; their order
   does not matter to any of the three ways to count them *)

Votes(type, votes) == {v \in votes : v.type = type}

Weight(votes) == MapThenSumSet(LAMBDA v : v.confidence, votes)

\* _majority_vote: more heads win, with their mean confidence.
Majority(votes) ==
    LET buys  == Votes("BUY", votes)
        sells == Votes("SELL", votes)
    IN  CASE Cardinality(buys) > Cardinality(sells) ->
                Signal("BUY", Weight(buys) \div Cardinality(buys))
          [] Cardinality(buys) < Cardinality(sells) ->
                Signal("SELL", Weight(sells) \div Cardinality(sells))
          [] OTHER -> Hold

\* A faulty variant: three abstentions of four count as a majority too.
MostlyHoldingAtThreeQuarters(votes) ==
    4 * Cardinality(Votes("HOLD", votes)) >= 3 * Cardinality(votes)

MostlyHolding(votes) == 4 * Cardinality(Votes("HOLD", votes)) > 3 * Cardinality(votes)

\* Mean strength of the winners times their share of all weight.
Certainty(winners, losers) ==
    Min({(Weight(winners) * Weight(winners))
            \div (Cardinality(winners) * (Weight(winners) + Weight(losers))), Unit})

\* A solitary buy must be sure enough and, with the trend filter, follow a trend.
SoloBuyAllowed(buys, sells, certainty) ==
    /\ certainty >= solo
    /\ trend => \E v \in buys : v.by \in TrendFollowing

\* _weighted_vote: the heavier side wins if two of it agree.
Weighted(votes) ==
    LET buys  == Votes("BUY", votes)
        sells == Votes("SELL", votes)
    IN  IF MostlyHolding(votes) \/ Weight(buys) = Weight(sells) THEN Hold
        ELSE IF Weight(buys) > Weight(sells)
             THEN LET certainty == Certainty(buys, sells)
                  IN  IF Cardinality(buys) >= 2 \/ SoloBuyAllowed(buys, sells, certainty)
                      THEN Signal("BUY", certainty) ELSE Hold
             ELSE IF Cardinality(sells) >= 2 THEN Signal("SELL", Certainty(sells, buys)) ELSE Hold

\* _performance_vote: nothing in src/ sets weights, so that all strategies have the same.
Performance(votes) ==
    LET buy  == Weight(Votes("BUY", votes))
        sell == Weight(Votes("SELL", votes))
    IN  CASE buy > sell -> Signal("BUY", (buy * Unit) \div (buy + sell))
          [] buy < sell -> Signal("SELL", (sell * Unit) \div (buy + sell))
          [] OTHER -> Hold

Vote(votes) == CASE method = "majority" -> Majority(votes)
                 [] method = "weighted" -> Weighted(votes)
                 [] method = "performance" -> Performance(votes)

-----------------------------------------------------------------------------
(* StrategySelector: the configuration may name strategies nobody registered *)

\* A mapping to an unknown name is dropped, an unknown default becomes the ensemble.
Default(configured) == IF configured \in Registered THEN configured ELSE "ensemble"
StrategyOf(mapped, configured) == IF mapped \in Registered THEN mapped ELSE Default(configured)

Selectable == {StrategyOf(m, d) : m \in Registered \cup {"none"}, d \in Registered \cup {"none"}}

Init ==
    /\ method \in Methods /\ solo \in SoloMins /\ trend \in BOOLEAN
    /\ signals = {} /\ decision = Undecided

\* One strategy after the other looks at the stock's closes.
Analyse ==
    /\ Cardinality(signals) < Len(Names)
    /\ LET name == Names[Cardinality(signals) + 1]
       IN  \E s \in SignalsOf(name) :
             signals' = signals \cup {[by |-> name, type |-> s.type, confidence |-> s.confidence]}
    /\ UNCHANGED <<method, solo, trend, decision>>

Decide ==
    /\ Cardinality(signals) = Len(Names) /\ decision = Undecided
    /\ \E name \in Selectable :
          decision' = [by |-> name,
                       signal |-> IF name = "ensemble" THEN Vote(signals)
                                  ELSE LET v == CHOOSE x \in signals : x.by = name
                                       IN  Signal(v.type, v.confidence)]
    /\ UNCHANGED <<method, solo, trend, signals>>

\* The next stock.
NextStock ==
    /\ decision # Undecided /\ decision' = Undecided /\ signals' = {}
    /\ UNCHANGED <<method, solo, trend>>

Next == Analyse \/ Decide \/ NextStock

Spec == Init /\ [][Next]_strategyVars

-----------------------------------------------------------------------------
(* Properties *)

\* The types of signals and decision; a confidence outside 0..1 makes the constructor of
\* Signal raise and the stock goes without evaluation.
TypeOK ==
    /\ \A v \in signals : v.type \in {"BUY", "SELL", "HOLD"} /\ v.confidence \in 0..Unit
    /\ decision.by \in Registered \cup {"nobody"} /\ decision.signal.confidence \in 0..Unit

Decided == decision.by = "ensemble" /\ Cardinality(signals) = Len(Names)

\* "HOLD is an abstention and does not dilute": by weighted votes, the decision is the
\* one those that do not hold would take among themselves.
HoldIsAbstention ==
    Decided /\ method = "weighted" =>
        Vote({v \in signals : v.type # "HOLD"}) = decision.signal

=============================================================================
