--------------------------- MODULE MCTradingEngine ---------------------------
(* Small trading days; the stocks are interchangeable. *)
EXTENDS TradingEngine

MCAmounts == {-2, -1}
MCStocks == Permutations(Stocks)

=============================================================================
