------------------------------ MODULE RiskRules ------------------------------
(***************************************************************************)
(* The day's portfolio-risk bookkeeping of src/strategy/risk.py as pure    *)
(* operators on one record: what RiskManager holds in memory between       *)
(* calls.  The state machines RiskManager and TradingEngine are built on   *)
(* these operators.  Money is a whole number of currency units, which is   *)
(* what the KRX process records.                                           *)
(***************************************************************************)
EXTENDS Integers

CONSTANTS
    MaxConsecutiveLosses,      \* settings.trading.max_consecutive_losses
    MaxDailyLossAbs,           \* settings.trading.max_daily_loss_abs, 0 = off
    DrawdownNum, DrawdownDen   \* settings.trading.max_daily_drawdown as a ratio

ASSUME RiskLimitsAssumption ==
    /\ MaxConsecutiveLosses \in Nat \ {0}
    /\ MaxDailyLossAbs \in Nat
    /\ DrawdownNum \in Nat
    /\ DrawdownDen \in Nat \ {0}

Reasons == {"none", "MAX_DAILY_DRAWDOWN", "MAX_DAILY_LOSS_ABS",
            "MAX_CONSECUTIVE_LOSSES"}

RiskState ==
    [cum : Int, peak : Nat, losses : Nat, halted : BOOLEAN, reason : Reasons]

\* RiskManager.__init__ and reset_daily_risk leave the same values.
FreshRisk ==
    [cum |-> 0, peak |-> 0, losses |-> 0, halted |-> FALSE, reason |-> "none"]

\* The three limits of record_trade_result, on the updated figures.
DrawdownBreach(cum, peak) ==
    /\ peak > 0
    /\ cum < 0
    /\ (peak - cum) * DrawdownDen >= DrawdownNum * peak
LossAbsBreach(cum) == MaxDailyLossAbs > 0 /\ cum <= -MaxDailyLossAbs
LossStreakBreach(losses) == losses >= MaxConsecutiveLosses

Breach(cum, peak, losses) ==
    DrawdownBreach(cum, peak) \/ LossAbsBreach(cum) \/ LossStreakBreach(losses)

\* The reason the three checks would give, in the order they are made.
BreachReason(cum, peak, losses) ==
    CASE DrawdownBreach(cum, peak) -> "MAX_DAILY_DRAWDOWN"
      [] ~DrawdownBreach(cum, peak) /\ LossAbsBreach(cum) -> "MAX_DAILY_LOSS_ABS"
      [] ~DrawdownBreach(cum, peak) /\ ~LossAbsBreach(cum) /\ LossStreakBreach(losses)
            -> "MAX_CONSECUTIVE_LOSSES"
      [] OTHER -> "none"

\* A faulty variant: a sale at cost ends the streak.
NextLossesZeroResets(losses, p) == IF p < 0 THEN losses + 1 ELSE 0

NextLosses(losses, p) ==
    CASE p < 0 -> losses + 1
      [] p > 0 -> 0
      [] OTHER -> losses          \* a sale at cost keeps the streak

RecordedLate(r, p) ==
    [cum |-> r.cum + p, peak |-> IF r.cum + p > r.peak THEN r.cum + p ELSE r.peak,
     losses |-> NextLosses(r.losses, p),
     halted |-> r.halted \/ Breach(r.cum, r.peak, r.losses), reason |-> r.reason]

\* record_trade_result(p): the halt is only ever raised here, and the first
\* reason is kept.
Recorded(r, p) ==
    LET cum == r.cum + p
        peak == IF cum > r.peak THEN cum ELSE r.peak
        losses == NextLosses(r.losses, p)
    IN  [cum |-> cum, peak |-> peak, losses |-> losses,
         halted |-> r.halted \/ Breach(cum, peak, losses),
         reason |-> IF r.reason # "none" THEN r.reason
                    ELSE BreachReason(cum, peak, losses)]

=============================================================================
