----------------------------- MODULE RiskManager -----------------------------
(***************************************************************************)
(* One trading day after another of the RiskManager object, as the engine, *)
(* the process supervisor and the operator's Telegram commands drive it:   *)
(* sales are recorded, the pre-market job resets, the process crashes and  *)
(* the first trading cycle afterwards rebuilds the state by replaying the  *)
(* day's sales one by one, and /stop and /resume write the halt flag from  *)
(* the bot's thread at any moment, a replay included.                      *)
(***************************************************************************)
EXTENDS RiskRules, Sequences, SequencesExt, FiniteSets

CONSTANTS
    Amounts,      \* realised profit or loss of one sale
    MaxSells      \* bound: sales of one day

ASSUME AmountsAssumption == Amounts \subseteq Int
ASSUME MaxSellsAssumption == MaxSells \in Nat

VARIABLES
    risk,         \* the fields of the RiskManager object
    mode,         \* "up", "fresh" (started, nothing restored) or "replay"
    replayed,     \* how many of the day's sales the replay has recorded
    sells,        \* the day's sales in the trades table, oldest first
    stopped,      \* history: the operator's last command of the day is /stop
    resumedAt     \* history: sales recorded when /resume last took effect

vars == <<risk, mode, replayed, sells, stopped, resumedAt>>

\* Sales the in-memory figures account for.
Accounted ==
    CASE mode = "up" -> Len(sells)
      [] mode = "replay" -> replayed
      [] OTHER -> 0

Init ==
    /\ risk = FreshRisk
    /\ mode = "fresh"
    /\ replayed = 0
    /\ sells = <<>>
    /\ stopped = FALSE
    /\ resumedAt = 0

\* A confirmed sale: _record_trade_to_db calls record_trade_result, the row
\* reaches the trades table.
RecordTradeResult(p) ==
    /\ mode = "up"
    /\ Len(sells) < MaxSells
    /\ risk' = Recorded(risk, p)
    /\ sells' = Append(sells, p)
    /\ UNCHANGED <<mode, replayed, stopped, resumedAt>>

\* A faulty variant: the new day inherits yesterday's halt.
ResetKeepsHalt ==
    /\ risk' = [FreshRisk EXCEPT !.halted = risk.halted]
    /\ mode' = "up"
    /\ replayed' = 0
    /\ sells' = <<>>
    /\ stopped' = FALSE
    /\ resumedAt' = 0

\* pre_market of the next trading day: reset_daily_risk, restore disabled.
ResetDailyRisk ==
    /\ risk' = FreshRisk
    /\ mode' = "up"
    /\ replayed' = 0
    /\ sells' = <<>>
    /\ stopped' = FALSE
    /\ resumedAt' = 0

\* The process dies during the day; the supervisor starts a new one.
Crash ==
    /\ risk' = FreshRisk
    /\ mode' = "fresh"
    /\ replayed' = 0
    /\ UNCHANGED <<sells, stopped, resumedAt>>

\* _restore_risk_state_if_needed without a sale today: nothing is touched.
RestoreNothing ==
    /\ mode = "fresh"
    /\ sells = <<>>
    /\ mode' = "up"
    /\ UNCHANGED <<risk, replayed, sells, stopped, resumedAt>>

\* ... with sales: reset_daily_risk, then the loop over the sales.
RestoreBegin ==
    /\ mode = "fresh"
    /\ sells # <<>>
    /\ risk' = FreshRisk
    /\ mode' = "replay"
    /\ replayed' = 0
    /\ resumedAt' = 0
    /\ UNCHANGED <<sells, stopped>>

ReplaySell ==
    /\ mode = "replay"
    /\ risk' = Recorded(risk, sells[replayed + 1])
    /\ replayed' = replayed + 1
    /\ mode' = IF replayed + 1 = Len(sells) THEN "up" ELSE "replay"
    /\ UNCHANGED <<sells, stopped, resumedAt>>

\* /stop and /resume only write _portfolio_halted.
CmdStop ==
    /\ risk' = [risk EXCEPT !.halted = TRUE]
    /\ stopped' = TRUE
    /\ UNCHANGED <<mode, replayed, sells, resumedAt>>

CmdResume ==
    /\ risk' = [risk EXCEPT !.halted = FALSE]
    /\ stopped' = FALSE
    /\ resumedAt' = Accounted
    /\ UNCHANGED <<mode, replayed, sells>>

Next ==
    \/ \E p \in Amounts : RecordTradeResult(p)
    \/ ResetDailyRisk
    \/ Crash
    \/ RestoreNothing
    \/ RestoreBegin
    \/ ReplaySell
    \/ CmdStop
    \/ CmdResume

Spec == Init /\ [][Next]_vars

-----------------------------------------------------------------------------
(* Reference figures, computed from the day's sales alone. *)

Totals(results) ==
    LET sum[k \in 0..Len(results)] == IF k = 0 THEN 0 ELSE sum[k - 1] + results[k]
    IN  sum
CumAt(k) == Totals(sells)[k]
PeakAt(k) == Max({CumAt(j) : j \in 0..k})
LossesAt(k) == Cardinality({i \in 1..k : /\ sells[i] < 0
                                         /\ \A j \in i..k : sells[j] <= 0})
BreachAt(k) == Breach(CumAt(k), PeakAt(k), LossesAt(k))
Breaches(k) == {j \in 1..k : BreachAt(j)}
FirstReason(k) ==
    IF Breaches(k) = {} THEN "none"
    ELSE LET f == Min(Breaches(k)) IN BreachReason(CumAt(f), PeakAt(f), LossesAt(f))

\* The types of the variables; a replay is always strictly inside the day's sales.
TypeOK ==
    /\ risk \in RiskState
    /\ mode \in {"up", "fresh", "replay"}
    /\ replayed \in Nat
    /\ sells \in Seq(Amounts)
    /\ stopped \in BOOLEAN
    /\ resumedAt \in Nat
    /\ mode = "replay" => replayed < Len(sells)

\* Whatever crashes, replays and operator commands happened, the running total,
\* the peak, the loss streak and the first halt reason are the ones the day's
\* sales determine (the "deterministic" restore of _restore_risk_state_if_needed).
RiskMatchesSells ==
    mode # "fresh" =>
        /\ risk.cum = CumAt(Accounted)
        /\ risk.peak = PeakAt(Accounted)
        /\ risk.losses = LossesAt(Accounted)
        /\ risk.reason = FirstReason(Accounted)

\* The same promise on the in-memory figures alone, which is what the trading
\* cycle reads before it trades: a limit that is breached now, by figures newer
\* than the last /resume, has the halt flag up.
CurrentBreachHalts ==
    /\ mode # "fresh"
    /\ Accounted > resumedAt
    /\ Breach(risk.cum, risk.peak, risk.losses)
    => risk.halted

\* Trading is never blocked without a cause: either the operator said /stop or
\* some sale of the day really breached a limit.
HaltExplained ==
    risk.halted => stopped \/ \E k \in 1..Accounted : BreachAt(k)

=============================================================================
