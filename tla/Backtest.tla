------------------------------ MODULE Backtest ------------------------------
(***************************************************************************)
(* A simulation of src/backtest: daily closes go through a strategy, the   *)
(* virtual broker buys and sells one stock at the close with slippage and  *)
(* commission, and the report sums it up.                                  *)
(*                                                                         *)
(* Rates are in tenths, so that money in hundredths is exact.              *)
(***************************************************************************)
EXTENDS Integers, Sequences, FiniteSetsExt

CONSTANTS
    MinWindow,      \* MIN_WINDOW_SIZE: rows needed before the first decision
    MaxRows,        \* bound on the rows of data
    Closes,         \* closes, 0 for a day without one
    Capital,        \* initial_capital, in hundredths
    Commission,     \* commission_rate
    Slippage,       \* slippage_rate
    Ratio,          \* max_position_ratio
    MaxLoss,        \* max_loss_rate
    TakeProfit      \* take_profit_ratio

VARIABLES
    rows,       \* rows of the data
    day,        \* row of the day that is simulated, counted from 0 like the code does
    close,      \* close of that row
    cash,
    position,   \* shares and average price, or None
    trades,
    equity,     \* equity_curve
    result      \* the report, or Running, or what run raises

backtestVars == <<rows, day, close, cash, position, trades, equity, result>>

None == [quantity |-> 0, price |-> 0]
Held == position.quantity > 0
Running == [state |-> "running", final |-> 0, drawdown |-> 0, wins |-> 0, losses |-> 0]
Raised(what) == [Running EXCEPT !.state = what]
Reported == result.state = "reported"

\* VirtualBroker: prices in tenths with slippage, the commission in hundredths.
BuyPrice == close * (10 + Slippage)
SellPrice == close * (10 - Slippage)
CommissionOn(price, quantity) == price * quantity * Commission
Cost(quantity) == BuyPrice * quantity * 10 + CommissionOn(BuyPrice, quantity)

\* The shares the ratio of the cash buys before commission.
Wanted == (cash * Ratio) \div (100 * BuyPrice)

\* buy: a share less if the commission does not fit any more; not at all if that is too much.
Quantity ==
    CASE Cost(Wanted) <= cash -> Wanted
      [] Cost(Wanted) > cash /\ Cost(Wanted - 1) <= cash -> Wanted - 1
      [] OTHER -> 0

\* portfolio_value at a close.
Value(money, p, at) == money + p.quantity * at * 100

StopLoss == (position.price - close * 10) * 10 >= MaxLoss * position.price
GainTaken == (close * 10 - position.price) * 10 >= TakeProfit * position.price

Init ==
    /\ rows \in 1..MaxRows /\ day = 0 /\ close = 0 /\ cash = Capital /\ position = None
    /\ trades = <<>> /\ equity = <<>> /\ result = Running

-----------------------------------------------------------------------------

\* run: data that is too short is refused.
TooShort ==
    /\ result = Running /\ day = 0 /\ rows < MinWindow
    /\ result' = Raised("ValueError")
    /\ UNCHANGED <<rows, day, close, cash, position, trades, equity>>

Loaded ==
    /\ result = Running /\ day = 0 /\ rows >= MinWindow
    /\ day' = MinWindow /\ \E c \in Closes : close' = c
    /\ UNCHANGED <<rows, cash, position, trades, equity, result>>

InRange == result = Running /\ day >= MinWindow /\ day > 0 /\ day < rows

\* The equity of the day is noted and the next row is read; after the last one the close stays.
DayEnds ==
    /\ equity' = Append(equity, Value(cash', position', close))
    /\ day' = day + 1
    /\ IF day + 1 < rows THEN \E c \in Closes : close' = c ELSE UNCHANGED close
    /\ UNCHANGED <<rows, result>>

\* VirtualBroker.sell: everything; the profit knows this commission, not that of the purchase.
Sold ==
    LET fee == CommissionOn(SellPrice, position.quantity)
    IN  /\ cash' = cash + SellPrice * position.quantity * 10 - fee
        /\ position' = None
        /\ trades' = Append(trades, [side |-> "SELL", commission |-> fee,
                       profit |-> (SellPrice - position.price) * position.quantity * 10 - fee])

\* _process_day: a held stock is sold at a loss, at a gain (then QuietDay is impossible) or
\* because the strategy says so, which it may at any close.
SellDay == InRange /\ close > 0 /\ Held /\ Sold /\ DayEnds

\* A purchase the strategy wants.
BuyDay ==
    /\ InRange /\ close > 0 /\ ~Held /\ Quantity > 0
    /\ cash' = cash - Cost(Quantity)
    /\ position' = [quantity |-> Quantity, price |-> BuyPrice]
    /\ trades' = Append(trades, [side |-> "BUY", profit |-> 0,
                                 commission |-> CommissionOn(BuyPrice, Quantity)])
    /\ DayEnds

\* No trade: no close, no signal worth a trade, or too little cash.
QuietDay ==
    /\ InRange
    /\ close > 0 /\ Held => ~StopLoss /\ ~GainTaken
    /\ UNCHANGED <<cash, position, trades>> /\ DayEnds

-----------------------------------------------------------------------------
(* The report *)

\* A faulty variant: the peak is that of the first day.
DrawdownFromStart(curve) ==
    IF curve = <<>> THEN 0
    ELSE Max({0} \cup {((curve[1] - curve[i]) * 1000) \div curve[1] : i \in DOMAIN curve})

\* A fall from one value to another, in thousandths.
Fall(from, to) == ((from - to) * 1000) \div from

\* _calculate_max_drawdown: one pass with the highest value so far.
After(scan, value) ==
    LET peak == IF value > scan.peak THEN value ELSE scan.peak
    IN  [peak |-> peak,
         worst |-> IF peak > 0 /\ Fall(peak, value) > scan.worst THEN Fall(peak, value)
                   ELSE scan.worst]
Scan(curve) ==
    LET scan[k \in 0..Len(curve)] ==
            IF k = 0 THEN [peak |-> curve[1], worst |-> 0] ELSE After(scan[k - 1], curve[k])
    IN  scan
MaxDrawdown(curve) == IF curve = <<>> THEN 0 ELSE Scan(curve)[Len(curve)].worst

\* The places of the sales in the log, of those with a profit and of those without.
Sales(log) == {i \in DOMAIN log : log[i].side = "SELL"}
Won(log) == {i \in Sales(log) : log[i].profit > 0}
Lost(log) == {i \in Sales(log) : log[i].profit <= 0}

\* calculate_metrics
Report(log, curve, money) ==
    [state |-> "reported", final |-> money, drawdown |-> MaxDrawdown(curve),
     wins |-> Cardinality(Won(log)), losses |-> Cardinality(Lost(log))]

\* _build_result: what is still held is sold at the last close, even if that is 0.  The
\* period begins at the row MinWindow, which must exist.
Finish ==
    /\ result = Running /\ day >= MinWindow /\ day > 0 /\ day >= rows
    /\ IF Held
       THEN Sold /\ equity' = IF equity = <<>> THEN equity ELSE [equity EXCEPT ![Len(equity)] = cash']
       ELSE UNCHANGED <<cash, position, trades, equity>>
    /\ result' = IF rows > MinWindow THEN Report(trades', equity', cash') ELSE Raised("IndexError")
    /\ UNCHANGED <<rows, day, close>>

Next == TooShort \/ Loaded \/ SellDay \/ BuyDay \/ QuietDay \/ Finish

Spec == Init /\ [][Next]_backtestVars
-----------------------------------------------------------------------------
(* Properties *)

Purchases(log) == {i \in DOMAIN log : log[i].side = "BUY"}

\* What a trade reports: a sale its profit, a purchase nothing but its commission, which no
\* sale reports.
Reports(t) == IF t.side = "BUY" THEN -t.commission ELSE t.profit
Earnings(log) ==
    LET sum[k \in 0..Len(log)] == IF k = 0 THEN 0 ELSE sum[k - 1] + Reports(log[k])
    IN  sum

\* The books: what the capital gained is what the trades report; every purchase was sold;
\* cash never went below nothing.
BooksBalance ==
    /\ cash >= 0
    /\ Reported =>
          /\ result.final - Capital = Earnings(trades)[Len(trades)]
          /\ Cardinality(Purchases(trades)) = result.wins + result.losses
          /\ equity[Len(equity)] = result.final

\* The falls between any two days in that order.
Falls(curve) ==
    {Fall(curve[p[1]], curve[p[2]]) :
        p \in {q \in (DOMAIN curve) \X (DOMAIN curve) : q[1] < q[2] /\ curve[q[1]] > 0}}

\* The drawdown reported is the worst of them.
DrawdownIsWorstFall == Reported => result.drawdown = Max({0} \cup Falls(equity))

=============================================================================
