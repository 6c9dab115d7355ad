------------------------------ MODULE MCClient ------------------------------
(***************************************************************************)
(* The components on the way to the broker run together: each behaviour is *)
(* one component's, `turn` names it and the others stay as they began.     *)
(***************************************************************************)
EXTENDS BrokerAccess, TLC

CONSTANTS s1, s2

VARIABLE turn

MCExchanges == <<"NASD", "NYSE", "AMEX">>
MCHome == s1 :> "AMEX" @@ s2 :> "NYSE"

ClientInit ==
    /\ turn \in {"calls", "threads", "desk"}
    /\ Init /\ Calls!Init /\ Threads!Init
    /\ turn # "desk" => held = {}

ClientNext ==
    /\ \/ turn = "calls" /\ Calls!Next /\ UNCHANGED <<vars, threadVars>>
       \/ turn = "threads" /\ Threads!Next /\ UNCHANGED <<vars, clientVars>>
       \/ turn = "desk" /\ Next /\ UNCHANGED <<clientVars, threadVars>>
    /\ UNCHANGED turn

ClientSpec ==
    /\ ClientInit
    /\ [][ClientNext]_<<turn, vars, clientVars, threadVars>>
    /\ \A c \in Coroutines : WF_clientVars(Calls!CallSteps(c))

=============================================================================
