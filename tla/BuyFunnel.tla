------------------------------ MODULE BuyFunnel ------------------------------
(***************************************************************************)
(* From a buy signal to an order, as one trading cycle of the engine goes  *)
(* through its stocks: the gates, the size from the deposit read at the    *)
(* start of the cycle, the cash the broker says is orderable now, the      *)
(* lists of stocks nobody should buy, and the account given of it all:     *)
(* one row of signals and one metric BUY_REJECT or BUY_OUTCOME.            *)
(*                                                                         *)
(* TradingEngine has what the gates count and what becomes of an order;    *)
(* here a gate is closed or not, and the money and the lists matter.       *)
(***************************************************************************)
EXTENDS Integers, Sequences, FiniteSets, FiniteSetsExt

CONSTANTS
    Stocks,
    Deposit,        \* DNCA_TOT_AMT (US: us_cash_budget): purchases do not lower it at once
    Orderable,      \* what the broker really lets us order at first
    RatioDen,       \* one position is at most Deposit / RatioDen
    Overseas,       \* the US market: at least one share
    Prices,
    MinPrice,       \* screening.min_price
    DayGates,       \* reasons of the gates TradingEngine models
    Faults,         \* which of "queryFail", "lookupFail", "dbDown", "refusal", "lost", "others"
    MaxCycles       \* bound on the cycles

VARIABLES
    cycles,
    todo,           \* stocks of this cycle that are still to be looked at
    cur,            \* the stock in work, or Nobody
    accounts,       \* metrics of this cycle, by stock
    rows,           \* rows of signals of this cycle, by stock
    held,
    pending,        \* value of the unfilled order of a stock, or 0
    untradable,     \* _untradable_today
    cash,           \* external: what the broker lets us order
    flagged,        \* market_actions: stocks with a flag
    disclosed,      \* stocks with a fatal disclosure in the look-back window
    refusedUnraced  \* history: an order was refused for want of cash nobody else had spent

funnelVars == <<cycles, todo, cur, accounts, rows, held, pending, untradable, cash,
                flagged, disclosed, refusedUnraced>>
lists == <<flagged, disclosed>>

Nobody == [stock |-> "nobody", stage |-> "none", price |-> 0, quantity |-> 0, raced |-> FALSE]

Rejections == DayGates \cup
    {"INSUFFICIENT_CASH", "LOW_CONFIDENCE", "POSITION_RATIO", "INSUFFICIENT_BUYABLE"}
Outcomes ==
    {"SKIP_UNTRADABLE_TODAY", "BLOCK_PRICE_FLOOR", "BLOCK_MARKET_ACTION", "BLOCK_DISCLOSURE",
     "SUPPRESS_PENDING", "DB_DOWN", "ORDER_UNTRADABLE", "ORDER_FAIL", "UNFILLED", "FILLED"}

\* RiskManager.calculate_position_size
PositionSize(price) == Max({IF Overseas THEN 1 ELSE 0, Deposit \div (RatioDen * price)})

Init ==
    /\ cycles = 0 /\ todo = {} /\ cur = Nobody
    /\ accounts = [s \in Stocks |-> <<>>] /\ rows = [s \in Stocks |-> <<>>]
    /\ held = {} /\ pending = [s \in Stocks |-> 0] /\ untradable = {}
    /\ cash = Orderable /\ flagged = {} /\ disclosed = {} /\ refusedUnraced = FALSE

-----------------------------------------------------------------------------
(* The end of a stock's evaluation *)

Account(reason) == accounts' = [accounts EXCEPT ![cur.stock] = Append(@, reason)]
Row(acted) == rows' = [rows EXCEPT ![cur.stock] = Append(@, acted)]

\* _record_buy_reject and a row that says the signal was not acted on.
Rejected(s, reason, sure) ==
    /\ accounts' = [accounts EXCEPT ![s] = Append(@, reason)]
    /\ rows' = IF sure THEN [rows EXCEPT ![s] = Append(@, FALSE)] ELSE rows

\* _record_buy_outcome
Done(outcome) ==
    /\ Account(outcome) /\ cur' = Nobody
    /\ UNCHANGED <<cycles, todo, rows, held, lists>>
DoneWithoutOrder(outcome) ==
    Done(outcome) /\ UNCHANGED <<pending, untradable, cash, refusedUnraced>>

-----------------------------------------------------------------------------
(* The cycle *)

\* A cycle reads the balance once and goes through its stocks.
NewCycle ==
    /\ cycles < MaxCycles /\ todo = {} /\ cur = Nobody
    /\ cycles' = cycles + 1 /\ todo' = Stocks \ held
    /\ accounts' = [s \in Stocks |-> <<>>] /\ rows' = [s \in Stocks |-> <<>>]
    /\ UNCHANGED <<cur, held, pending, untradable, cash, lists, refusedUnraced>>

\* Signals that are not buys: HOLD leaves a metric of its own, SELL a row not acted on.
NotABuy(s) ==
    /\ cur = Nobody /\ s \in todo /\ todo' = todo \ {s}
    /\ \/ UNCHANGED rows
       \/ rows' = [rows EXCEPT ![s] = Append(@, FALSE)]
    /\ UNCHANGED <<cycles, cur, accounts, held, pending, untradable, cash, lists, refusedUnraced>>

\* The gates up to check_buy_gates; the first closed one rejects.  A target above the
\* deposit counts as want of cash.  A row of little confidence is not written.
GateClosed(s) ==
    /\ cur = Nobody /\ s \in todo /\ todo' = todo \ {s}
    /\ \/ \E reason \in DayGates, sure \in BOOLEAN : Rejected(s, reason, sure)
       \/ \E target \in Prices, sure \in BOOLEAN :
             (Deposit = 0 \/ target > Deposit) /\ Rejected(s, "INSUFFICIENT_CASH", sure)
       \/ Deposit > 0 /\ Rejected(s, "LOW_CONFIDENCE", FALSE)
    /\ UNCHANGED <<cycles, cur, held, pending, untradable, cash, lists, refusedUnraced>>

\* All gates are open: the size.  A price of 0 raises and the cycle records an ERROR.
Sized(s) ==
    /\ cur = Nobody /\ s \in todo /\ todo' = todo \ {s} /\ Deposit > 0
    /\ \E price \in Prices \cup {0} :
          CASE price = 0 ->
                  /\ accounts' = [accounts EXCEPT ![s] = Append(@, "ERROR")]
                  /\ UNCHANGED <<cur, rows>>
            [] price > 0 /\ PositionSize(price) = 0 ->
                  Rejected(s, "POSITION_RATIO", TRUE) /\ UNCHANGED cur
            [] OTHER ->
                  /\ cur' = [stock |-> s, stage |-> "sized", price |-> price,
                             quantity |-> PositionSize(price), raced |-> FALSE]
                  /\ UNCHANGED <<accounts, rows>>
    /\ UNCHANGED <<cycles, held, pending, untradable, cash, lists, refusedUnraced>>

\* A faulty variant: the answer only stops a purchase it makes impossible.
AskBuyableUncapped ==
    /\ cur.stage = "sized"
    /\ IF cash \div cur.price = 0
       THEN Rejected(cur.stock, "INSUFFICIENT_BUYABLE", TRUE) /\ cur' = Nobody
       ELSE /\ cur' = [cur EXCEPT !.stage = "execute", !.raced = FALSE]
            /\ Row(TRUE) /\ UNCHANGED accounts
    /\ UNCHANGED <<cycles, todo, held, pending, untradable, cash, lists, refusedUnraced>>

\* _get_buyable_qty: how many the orderable cash pays for; a failed question rejects.
AskBuyable ==
    /\ cur.stage = "sized"
    /\ \E buyable \in {cash \div cur.price} \cup (IF "queryFail" \in Faults THEN {0} ELSE {}) :
          IF buyable = 0
          THEN Rejected(cur.stock, "INSUFFICIENT_BUYABLE", TRUE) /\ cur' = Nobody
          ELSE /\ cur' = [cur EXCEPT !.stage = "execute", !.quantity = Min({cur.quantity, buyable}),
                                     !.raced = FALSE]
               /\ Row(TRUE) /\ UNCHANGED accounts
    /\ UNCHANGED <<cycles, todo, held, pending, untradable, cash, lists, refusedUnraced>>

\* _execute_buy up to its first await: the stock's own refusal of today, the price floor, and
\* the two lists.  A look-up that fails blocks nothing.
Lookups ==
    /\ cur.stage = "execute"
    /\ \E seen \in {lists} \cup (IF "lookupFail" \in Faults THEN {<<flagged, {}>>, <<{}, disclosed>>} ELSE {}) :
          CASE cur.stock \in untradable -> DoneWithoutOrder("SKIP_UNTRADABLE_TODAY")
            [] cur.stock \notin untradable /\ cur.price < MinPrice -> DoneWithoutOrder("BLOCK_PRICE_FLOOR")
            [] cur.stock \notin untradable /\ cur.price >= MinPrice /\ cur.stock \in seen[1] ->
                  DoneWithoutOrder("BLOCK_MARKET_ACTION")
            [] cur.stock \notin untradable /\ cur.price >= MinPrice /\ cur.stock \in seen[2] \ seen[1] ->
                  DoneWithoutOrder("BLOCK_DISCLOSURE")
            [] OTHER ->
                  /\ cur' = [cur EXCEPT !.stage = "clear"]
                  /\ UNCHANGED <<cycles, todo, accounts, rows, held, pending, untradable, cash,
                                 lists, refusedUnraced>>

\* A faulty variant: a suppressed purchase is accounted for and goes on.
SuppressedAndOn ==
    /\ cur.stage = "clear" /\ pending[cur.stock] > 0 /\ Account("SUPPRESS_PENDING")
    /\ cur' = [cur EXCEPT !.stage = "place"]
    /\ UNCHANGED <<cycles, todo, rows, held, pending, untradable, cash, lists, refusedUnraced>>

\* _suppress_or_replace_pending: an order of a few cycles ago is still out.
Suppressed ==
    cur.stage = "clear" /\ pending[cur.stock] > 0 /\ DoneWithoutOrder("SUPPRESS_PENDING")

\* It is out for too long: it is cancelled, or found filled, and the new order goes ahead.
Replaced ==
    /\ cur.stage = "clear"
    /\ \/ pending[cur.stock] = 0 /\ UNCHANGED <<held, cash>>
       \/ pending[cur.stock] > 0 /\ cash' = cash + pending[cur.stock] /\ UNCHANGED held
       \/ pending[cur.stock] > 0 /\ held' = held \cup {cur.stock} /\ UNCHANGED cash
    /\ pending' = [pending EXCEPT ![cur.stock] = 0] /\ cur' = [cur EXCEPT !.stage = "place"]
    /\ UNCHANGED <<cycles, todo, accounts, rows, untradable, lists, refusedUnraced>>

\* The check of the database before the order.
DatabaseDown == cur.stage = "place" /\ "dbDown" \in Faults /\ DoneWithoutOrder("DB_DOWN")

Value == cur.quantity * cur.price

\* The broker accepts; the fill is confirmed in time or the order is remembered.
Accepted ==
    /\ cur.stage = "place" /\ Value <= cash /\ cash' = cash - Value
    /\ \/ /\ Done("FILLED") /\ UNCHANGED <<pending, untradable, refusedUnraced>>
       \/ /\ Done("UNFILLED") /\ pending' = [pending EXCEPT ![cur.stock] = Value]
          /\ UNCHANGED <<untradable, refusedUnraced>>
       \/ /\ "lost" \in Faults /\ Done("ORDER_FAIL")
          /\ UNCHANGED <<pending, untradable, refusedUnraced>>

\* The broker refuses: the stock for today, or for want of cash.
Refused ==
    /\ cur.stage = "place" /\ UNCHANGED <<pending, cash>>
    /\ \/ /\ "refusal" \in Faults /\ Done("ORDER_UNTRADABLE")
          /\ untradable' = untradable \cup {cur.stock} /\ UNCHANGED refusedUnraced
       \/ /\ Value > cash /\ Done("ORDER_FAIL") /\ UNCHANGED untradable
          /\ refusedUnraced' = (refusedUnraced \/ ~cur.raced)

-----------------------------------------------------------------------------
(* Around the cycle *)

\* What was filled is seen as held when the next cycle reads the balance.
BalanceShows ==
    /\ todo = {} /\ cur = Nobody
    /\ \E s \in Stocks \ held : held' = held \cup {s} /\ pending' = [pending EXCEPT ![s] = 0]
    /\ UNCHANGED <<cycles, todo, cur, accounts, rows, untradable, cash, lists, refusedUnraced>>

\* The operator or the other market's engine uses the same account.
OthersSpend ==
    /\ "others" \in Faults /\ cash > 0
    /\ \E c \in 0..(cash - 1) : cash' = c
    /\ cur' = IF cur = Nobody THEN cur ELSE [cur EXCEPT !.raced = TRUE]
    /\ UNCHANGED <<cycles, todo, accounts, rows, held, pending, untradable, lists, refusedUnraced>>

\* MasterSyncer.sync, after the close: the stocks of the file get its flags, the others, a
\* delisted one for example, keep theirs.
Sync ==
    /\ todo = {} /\ cur = Nobody
    /\ \E file \in SUBSET Stocks : \E f \in SUBSET file : flagged' = (flagged \ file) \cup f
    /\ UNCHANGED <<cycles, todo, cur, accounts, rows, held, pending, untradable, cash, disclosed,
                   refusedUnraced>>

\* The news worker stores a fatal disclosure.
DisclosureStored ==
    /\ \E s \in Stocks \ disclosed : disclosed' = disclosed \cup {s}
    /\ UNCHANGED <<cycles, todo, cur, accounts, rows, held, pending, untradable, cash, flagged,
                   refusedUnraced>>

Next ==
    \/ NewCycle \/ AskBuyable \/ Lookups \/ Suppressed \/ Replaced \/ DatabaseDown
    \/ Accepted \/ Refused \/ BalanceShows \/ OthersSpend \/ Sync \/ DisclosureStored
    \/ \E s \in Stocks : NotABuy(s) \/ GateClosed(s) \/ Sized(s)

Spec == Init /\ [][Next]_funnelVars

-----------------------------------------------------------------------------
(* Properties *)

\* A stock's evaluation has ended.
Evaluated(s) == s \notin todo /\ cur.stock # s

\* "One _execute_buy leaves exactly one outcome": of every signal there is one account, and
\* the row says "acted" exactly if the account is an outcome of an order.
AccountedOnce ==
    \A s \in Stocks :
        /\ Evaluated(s) => /\ Len(accounts[s]) <= 1 /\ Len(rows[s]) <= 1
                           /\ rows[s] = <<TRUE>> <=> \E i \in DOMAIN accounts[s] : accounts[s][i] \in Outcomes
                           /\ accounts[s] # <<>> => accounts[s][1] \in Rejections \cup Outcomes \cup {"ERROR"}
        /\ cur.stock = s => accounts[s] = <<>>

\* The deposit of the start of the cycle does not know what was spent since; yet the broker
\* refuses an order for want of cash only if somebody else spent some after it was asked.
RefusedOnlyIfRaced == ~refusedUnraced
=============================================================================
