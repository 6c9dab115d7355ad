------------------------------ MODULE ExitRules ------------------------------
(***************************************************************************)
(* The price rules of RiskManager in src/strategy/risk.py that decide when *)
(* a held position is sold.  Prices are whole currency units and the       *)
(* ratios of the settings are given in percent, so that every comparison   *)
(* of two quotients is one of products.                                    *)
(***************************************************************************)
EXTENDS Integers, Sequences, FiniteSetsExt

CONSTANTS
    MaxLoss,            \* max_loss_rate, in percent
    TrailingEnabled,    \* trailing_stop_enabled
    TrailActivation,    \* trailing_activation_ratio
    TrailDrawdown,      \* trailing_drawdown_ratio
    TakeProfit,         \* take_profit_ratio
    Breakeven,          \* breakeven_activation_ratio, 0 = off
    StagnationTicks,    \* stagnation_hours on the model's clock, 0 = off
    ProfitableClose,    \* min_profitable_close
    LossCut             \* market_close_loss_cut_rate, 0 = off

\* (price - avg) / avg >= pct / 100, for avg > 0; and the same for a fall.
GainAtLeast(price, avg, pct) == 100 * (price - avg) >= pct * avg
LossAtLeast(price, avg, pct) == 100 * (avg - price) >= pct * avg

ShouldStopLoss(price, avg) == avg > 0 /\ LossAtLeast(price, avg, MaxLoss)

ShouldCloseForMarketEnd(price, avg, near) ==
    /\ avg > 0 /\ near
    /\ \/ GainAtLeast(price, avg, ProfitableClose)
       \/ LossCut > 0 /\ LossAtLeast(price, avg, LossCut)

\* Armed by the peak, released by the fall from it.
ShouldTrailingStop(price, avg, peak) ==
    /\ avg > 0 /\ peak > 0
    /\ GainAtLeast(peak, avg, TrailActivation)
    /\ LossAtLeast(price, peak, TrailDrawdown)

\* The target is halved when the market is about to close.
ShouldTakeProfit(price, avg, near) ==
    /\ avg > 0
    /\ IF near THEN 200 * (price - avg) >= TakeProfit * avg
               ELSE GainAtLeast(price, avg, TakeProfit)

\* A faulty variant: a price that is back at the entry is not yet a fall.
BreakevenBelowEntry(price, avg, peak) ==
    /\ Breakeven > 0 /\ avg > 0
    /\ GainAtLeast(peak, avg, Breakeven)
    /\ price < avg

ShouldBreakevenStop(price, avg, peak) ==
    /\ Breakeven > 0 /\ avg > 0
    /\ GainAtLeast(peak, avg, Breakeven)
    /\ price <= avg

ShouldStagnationExit(avg, peak, heldFor) ==
    /\ StagnationTicks > 0 /\ avg > 0
    /\ heldFor >= StagnationTicks
    /\ ~GainAtLeast(peak, avg, TrailActivation)

\* _process_held_stock: the first rule that applies decides.
Reasons == <<"stop", "close", "trailing", "profit", "breakeven", "stagnation", "strategy">>

Applies(price, avg, peak, near, heldFor, signal) ==
    [stop       |-> ShouldStopLoss(price, avg),
     close      |-> ShouldCloseForMarketEnd(price, avg, near),
     trailing   |-> TrailingEnabled /\ ShouldTrailingStop(price, avg, peak),
     profit     |-> ~TrailingEnabled /\ ShouldTakeProfit(price, avg, near),
     breakeven  |-> ShouldBreakevenStop(price, avg, peak),
     stagnation |-> ShouldStagnationExit(avg, peak, heldFor),
     strategy   |-> signal]

ExitReason(price, avg, peak, near, heldFor, signal) ==
    LET rules == Applies(price, avg, peak, near, heldFor, signal)
        hits  == {i \in DOMAIN Reasons : rules[Reasons[i]]}
    IN  IF hits = {} THEN "none" ELSE Reasons[Min(hits)]
=============================================================================
