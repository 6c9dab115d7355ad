----------------------------- MODULE OverseasDesk -----------------------------
(***************************************************************************)
(* The US engine's way to the broker.  A US stock is listed on one of      *)
(* several exchanges, and every request about it must name that one: the   *)
(* engine keeps the exchange of each stock it has been told of, from the   *)
(* configured watchlist, from the stocks table, which the screening worker *)
(* fills, and from the answers about its holdings.  Of a stock nobody has  *)
(* told it of it assumes the first exchange.                               *)
(*                                                                         *)
(* Signals, sizes and prices are those of other modules: here any stock    *)
(* with a price may be bought or sold.                                     *)
(***************************************************************************)
EXTENDS Naturals, Sequences, FiniteSets, FiniteSetsExt

CONSTANTS
    Stocks,
    Exchanges,      \* the exchanges of the market profile, in their order
    Home,           \* the exchange each stock is listed on
    Watchlist,      \* the stocks of watchlist_us, which names their exchanges
    MaxScreened,
    MaxStarts       \* bound: restarts and sessions

Unknown == "unknown"

ASSUME DeskAssumption ==
    /\ Exchanges \in Seq(STRING) /\ Exchanges # <<>>
    /\ \A i, j \in DOMAIN Exchanges : Exchanges[i] = Exchanges[j] => i = j
    /\ \A s \in Stocks : \E i \in DOMAIN Exchanges : Home[s] = Exchanges[i]
    /\ \A i \in DOMAIN Exchanges : Exchanges[i] # Unknown
    /\ Watchlist \subseteq Stocks

VARIABLES
    exchanges,   \* engine._exchanges
    market,      \* stocks.market, Unknown where there is no row
    fresh,       \* the stocks whose screening rows are fresh and converted
    screened,    \* engine._screened_codes
    holdings,    \* the holdings of the engine's latest complete balance
    pending,     \* engine._pending_orders: "none", "buy" or "sell"
    held,        \* what the account holds
    live,        \* orders that live at the broker
    starts

engineVars == <<exchanges, screened, holdings, pending>>
brokerVars == <<held, live>>
vars == <<engineVars, market, fresh, brokerVars, starts>>

Configured == [s \in Stocks |-> IF s \in Watchlist THEN Home[s] ELSE Unknown]

Init ==
    /\ exchanges = Configured /\ screened = {} /\ holdings = {}
    /\ pending = [s \in Stocks |-> "none"]
    /\ market = [s \in Stocks |-> Unknown] /\ fresh = {}
    /\ held \in SUBSET Stocks /\ live = {}
    /\ starts = 0

-----------------------------------------------------------------------------
(* Which exchange *)

\* _exchange_of
ExchangeOf(s) == IF exchanges[s] = Unknown THEN Exchanges[1] ELSE exchanges[s]

\* get_current_price and get_daily_price: an exchange that does not list the symbol answers
\* with empty fields, which are read as price 0 and no day.
Quoted(s) == ExchangeOf(s) = Home[s]

\* The broker refuses a cancel that names another exchange than the order's, and _parse
\* raises an OrderError; no order is placed that far from home, for want of a price.
Accepted(s) == ExchangeOf(s) = Home[s]

\* A new row of the stocks table takes the label _board_label gives: the assumed exchange.
Labelled(S) ==
    [s \in Stocks |-> IF s \in S /\ market[s] = Unknown THEN ExchangeOf(s) ELSE market[s]]

-----------------------------------------------------------------------------
(* The balance *)

\* What the broker answers about the holdings on an exchange: those listed there, or for
\* the first exchange all of them, each with its exchange.
Answer(e, account, all) ==
    {s \in account : Home[s] = e \/ (all /\ e = Exchanges[1])}

\* A faulty variant: the exchange that was asked, whatever the answer says.
NamedAsked(e, s, all) == e

\* The exchange of a holding: the answer's, or the one asked where its field is empty.
Named(e, s, all) == IF all THEN Home[s] ELSE e

\* What is known once some exchanges have answered: of each stock what was told last.
Learned(known, account, all, answered) ==
    [s \in Stocks |->
        LET told == {i \in 1..answered : s \in Answer(Exchanges[i], account, all)}
        IN  IF told = {} THEN known[s] ELSE Named(Exchanges[Max(told)], s, all)]

\* _fetch_overseas_balance: asks the exchanges in turn, and each answer counts at once; if
\* a request fails the balance is not there, but the exchanges already heard of are.
FetchBalance(account, known, answered) ==
    /\ \E all \in BOOLEAN : exchanges' = Learned(known, account, all, answered)
    /\ holdings' = IF answered = Len(Exchanges) THEN account ELSE holdings

\* _get_balance, at the beginning of a cycle.
ReadBalance ==
    /\ \E answered \in 0 .. Len(Exchanges) : FetchBalance(held, exchanges, answered)
    /\ UNCHANGED <<screened, pending, market, fresh, brokerVars, starts>>

-----------------------------------------------------------------------------
(* Screening *)

\* get_ranking: a ranking names stocks of the exchange it is asked of.
Listing(answering) == {s \in Stocks : Home[s] \in answering}

\* The worker takes the rankings of the exchanges that answer; rows and exchanges are
\* written by one transaction, and older rows may have ceased to be fresh.
Rank ==
    /\ \E answering \in SUBSET {Home[s] : s \in Stocks}, old \in SUBSET fresh :
      \E ranked \in SUBSET Listing(answering) :
        \E converted \in SUBSET ranked :
          /\ fresh' = old \cup converted
          /\ market' = [s \in Stocks |-> IF s \in ranked THEN Home[s] ELSE market[s]]
    /\ UNCHANGED <<engineVars, brokerVars, starts>>

\* _seed_overseas_exchanges: for the added stocks only; a failure is logged.
Seed(added) ==
    \/ exchanges' = [s \in Stocks |-> IF s \in added /\ market[s] # Unknown
                                       THEN market[s] ELSE exchanges[s]]
    \/ (added # {} /\ UNCHANGED exchanges)

\* _screen_stocks: drops what is not fresh, unless nothing is, and adds up to the limit;
\* names are written before the exchanges are read.
ScreenStocks ==
    LET candidates == fresh \ Watchlist
        kept == IF candidates = {} THEN screened ELSE screened \cap candidates
    IN  \E added \in SUBSET (candidates \ kept) :
            /\ \/ Cardinality(kept \cup added) = MaxScreened
               \/ Cardinality(kept \cup added) < MaxScreened /\ added = candidates \ kept
            /\ screened' = kept \cup added
            /\ market' = Labelled(fresh)
            /\ Seed(added)
            /\ UNCHANGED <<holdings, pending, fresh, brokerVars, starts>>

-----------------------------------------------------------------------------
(* Orders *)

\* _build_monitor_targets
Targets == holdings \cup Watchlist \cup screened

\* The broker fills an order, wholly.
After(account, s, side) == IF side = "buy" THEN account \cup {s} ELSE account \ {s}

Fill ==
    /\ \E o \in live : held' = After(held, o.stock, o.side) /\ live' = live \ {o}
    /\ UNCHANGED <<engineVars, market, fresh, starts>>

\* The request fails, or its answer is lost: the order may live, and is not tracked.
PlaceFails(s, side) ==
    /\ live' \in {live, live \cup {[stock |-> s, side |-> side]}}
    /\ UNCHANGED <<engineVars, market, held>>

\* The order is recorded, and confirmed by readings of the balance; it is tracked unless
\* one of them shows it filled.
PlaceSucceeds(s, side) ==
    /\ market' = Labelled({s})
    /\ \E filled \in BOOLEAN, answered \in 0 .. Len(Exchanges) :
        /\ held' = IF filled THEN After(held, s, side) ELSE held
        /\ live' = IF filled THEN live ELSE live \cup {[stock |-> s, side |-> side]}
        /\ FetchBalance(held', exchanges, answered)
        /\ pending' = IF filled /\ answered = Len(Exchanges) THEN pending
                      ELSE [pending EXCEPT ![s] = side]
    /\ UNCHANGED screened

\* _process_stock down to _place_buy or _place_sell: without a price a holding is not
\* evaluated and nothing is bought; without days a holding is still evaluated.
Process(s, side) ==
    /\ s \in Targets /\ pending[s] = "none"
    /\ side = IF s \in holdings THEN "sell" ELSE "buy"
    /\ Quoted(s)
    /\ PlaceFails(s, side) \/ PlaceSucceeds(s, side)
    /\ UNCHANGED <<fresh, starts>>

\* The sweep of a stale order: a fresh balance first, then the cancel, and whatever comes
\* of it the order is tracked no longer.
CancelStale(s) ==
    /\ pending[s] # "none"
    /\ FetchBalance(held, exchanges, Len(Exchanges))
    /\ pending' = [pending EXCEPT ![s] = "none"]
    /\ live' = IF Accepted(s)' THEN {o \in live : o.stock # s} ELSE live
    /\ UNCHANGED <<screened, market, fresh, held, starts>>

-----------------------------------------------------------------------------
(* Days and restarts *)

\* pre_market, after the broker's orders of the day before have lapsed: what it clears,
\* and the balance it reads; it screens like every cycle, unless something fails before.
PreMarket ==
    /\ starts < MaxStarts /\ starts' = starts + 1
    /\ live' = {} /\ screened' = {} /\ pending' = [s \in Stocks |-> "none"]
    /\ \E answered \in 0 .. Len(Exchanges) : FetchBalance(held, exchanges, answered)
    /\ UNCHANGED <<market, fresh, held>>

\* A crash, and a new process.
Restart ==
    /\ starts < MaxStarts /\ starts' = starts + 1
    /\ exchanges' = Configured /\ screened' = {} /\ holdings' = {}
    /\ pending' = [s \in Stocks |-> "none"]
    /\ UNCHANGED <<market, fresh, brokerVars>>

Next ==
    \/ ReadBalance \/ Rank \/ ScreenStocks \/ Fill \/ PreMarket \/ Restart
    \/ \E s \in Stocks, side \in {"buy", "sell"} : Process(s, side)
    \/ \E s \in Stocks : CancelStale(s)

Spec == Init /\ [][Next]_vars

-----------------------------------------------------------------------------
(* Properties *)

\* What the engine holds it can evaluate and sell, and what it has ordered it can cancel,
\* after every restart, half-read balance and failed seeding.
RoutedHome ==
    \A s \in Stocks : s \in holdings \/ pending[s] # "none" => ExchangeOf(s) = Home[s]
=============================================================================
