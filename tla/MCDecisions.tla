------------------------------ MODULE MCDecisions ------------------------------
(***************************************************************************)
(* The decisions about a stock run together.  They share no state, so each *)
(* behaviour is one component's: `turn` names it and the others stay as    *)
(* they began.                                                             *)
(***************************************************************************)
EXTENDS Decisions

VARIABLE turn

\* Sales of one or two units of profit or loss.
MCAmounts == {-2, -1, 0, 1}

\* Readings at, below and above every threshold of a strategy.
MCAverages == {[prev |-> p, short |-> s, long |-> 100] : p \in {-1, 0, 1},
                                                         s \in {98, 100, 101, 105, 110}}
MCHistograms == {[prev |-> p, cur |-> c, price |-> 200] : p \in {-1, 0, 1},
                                                          c \in {-3, -1, 0, 1, 2}}
MCBands == {[price |-> p, lower |-> l, upper |-> 100] : p \in {60, 80, 90, 100, 130},
                                                        l \in {80, 100}}

DecisionsInit ==
    /\ turn \in {"signal", "purchase", "exit", "limits", "backtest"}
    /\ Init /\ Exit!Init /\ Signals!Init /\ Buys!Init /\ Simulation!Init
    /\ turn # "signal" => method = "weighted" /\ solo = 60 /\ trend
    /\ turn # "backtest" => length = 1

DecisionsNext ==
    /\ \/ turn = "signal" /\ Signals!Next /\ UNCHANGED <<vars, exitVars, buyVars, testVars>>
       \/ turn = "purchase" /\ Buys!Next /\ UNCHANGED <<vars, exitVars, signalVars, testVars>>
       \/ turn = "exit" /\ Exit!Next /\ UNCHANGED <<vars, signalVars, buyVars, testVars>>
       \/ turn = "limits" /\ Next /\ UNCHANGED <<exitVars, signalVars, buyVars, testVars>>
       \/ turn = "backtest" /\ Simulation!Next
          /\ UNCHANGED <<vars, exitVars, signalVars, buyVars>>
    /\ UNCHANGED turn

DecisionsSpec ==
    /\ DecisionsInit
    /\ [][DecisionsNext]_<<turn, vars, exitVars, signalVars, buyVars, testVars>>

=============================================================================
