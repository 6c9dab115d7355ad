------------------------------- MODULE Decisions -------------------------------
(***************************************************************************)
(* What is decided about a stock: the signal of the strategies, the way    *)
(* from a buy signal to an order, the exit of a held position, the risk    *)
(* limits of the day (RiskManager, which this module extends), and the     *)
(* backtest of a strategy.  They share no state; here they are put side by *)
(* side, each with its state and its parameters, so that they can be run   *)
(* and reasoned about in one place.                                        *)
(***************************************************************************)
EXTENDS RiskManager

CONSTANTS
    MaxLoss, TrailingEnabled, TrailActivation, TrailDrawdown, TakeProfit, Breakeven,
    StagnationTicks, ProfitableClose, LossCut,                              \* ExitRules
    Quotes, Lot, CloseTick, LastTick, MaxDays, MaxCrashes, ExitFaults,      \* HeldExit
    Unit, MaxDivergence, Oversold, Overbought, Averages, RsiValues,
    Histograms, Bands, SoloMins,                                            \* Strategies
    Stocks, Deposit, Orderable, RatioDen, Overseas, Prices, MinPrice,
    DayGates, BuyFaults, MaxCycles,                                         \* BuyFunnel
    MinWindow, MaxRows, Closes, Capital, Commission, Slippage, Ratio,       \* Backtest
    StopPercent, TargetPercent

VARIABLES
    session, day, clock, shares, avg, peak, since, order, why, seen, row, queue, crashes,
    top, age, clean, late,
    method, solo, trend, signals, decision,
    cycles, todo, cur, accounts, rows, held, pending, untradable, cash, flagged, disclosed,
    refusedUnraced,
    length, date, close, money, stake, trades, equity, result

exitVars == <<session, day, clock, shares, avg, peak, since, order, why, seen, row, queue,
              crashes, top, age, clean, late>>
signalVars == <<method, solo, trend, signals, decision>>
buyVars == <<cycles, todo, cur, accounts, rows, held, pending, untradable, cash, flagged,
             disclosed, refusedUnraced>>
testVars == <<length, date, close, money, stake, trades, equity, result>>

\* A price is positive (a quote of 0 is no quote), and the clocks and sizes are counts.
ASSUME PositionAssumption ==
    /\ Quotes \subseteq Nat \ {0}
    /\ Lot \in Nat /\ LastTick \in Nat /\ StagnationTicks \in Nat

Exit == INSTANCE HeldExit WITH Prices <- Quotes, Faults <- ExitFaults
Signals == INSTANCE Strategies
Buys == INSTANCE BuyFunnel WITH Faults <- BuyFaults

\* The money of a purchase is counted in whole units, a gate is no outcome of an order, and
\* no stock has the name that stands for none.
ASSUME PurchaseAssumption ==
    /\ Prices \subseteq Nat \ {0}
    /\ Deposit \in Nat /\ Orderable \in Nat /\ RatioDen \in Nat \ {0}
    /\ DayGates \cap Buys!Outcomes = {}
    /\ "nobody" \notin Stocks

\* A backtest needs a first window, its money is counted in whole hundredths, and commission
\* and slippage are rates of at most one.
ASSUME SimulationAssumption ==
    /\ MinWindow \in Nat \ {0} /\ MaxRows \in Nat /\ Closes \subseteq Nat
    /\ Capital \in Nat /\ Ratio \in Nat /\ Commission \in 0..10 /\ Slippage \in 0..10

Simulation == INSTANCE Backtest WITH
    rows <- length, day <- date, cash <- money, position <- stake,
    MaxLoss <- StopPercent, TakeProfit <- TargetPercent

-----------------------------------------------------------------------------
(* Properties *)

\* The peak of the rules is that of the position, as long as nothing was lost.
PeakRemembered == Exit!PeakRemembered

\* A gain that armed the break-even stop is not given back to the entry.
GainIsProtected == Exit!GainIsProtected

\* A stagnation exit sells what has been held that long.
StagnationHonest == Exit!StagnationHonest

\* "HOLD is an abstention": the vote of the ensemble is that of the others alone.
HoldIsAbstention == Signals!HoldIsAbstention

\* Of every signal to buy there is one account, which agrees with its row.
AccountedOnce == Buys!AccountedOnce

\* An order is refused for want of cash only if somebody else has spent some meanwhile.
RefusedOnlyIfRaced == Buys!RefusedOnlyIfRaced

\* The report of a backtest agrees with its trades, and its drawdown is the worst fall.
ReportIsRight == Simulation!BooksBalance /\ Simulation!DrawdownIsWorstFall
=============================================================================
