------------------------------- MODULE MCOffice -------------------------------
(***************************************************************************)
(* The services run together.  They share no state, so each behaviour is   *)
(* one component's: `turn` names it and the others stay as they began.     *)
(***************************************************************************)
EXTENDS Services, TLC

CONSTANTS KRX, US, k1

VARIABLE turn

MCMarketOf == k1 :> KRX
MCSlots == <<"night", "quota_pre", "pre_market", "register", "open", "noon", "close",
             "quota_post", "post_market", "summary">>

OfficeInit ==
    /\ turn \in {"screening", "books", "bot", "news", "quotes", "days",
                "token", "limiter", "harness"}
    /\ Rotation!Init /\ Bot!Init /\ News!Init /\ Quotes!Init /\ Days!Init
    /\ Books!Init /\ Token!Init /\ Limiter!Init /\ Init
    /\ turn # "screening" => mode = "single"
    /\ turn # "harness" => doc = [p \in Proposals |-> "absent"]
    /\ turn # "limiter" => \A w \in Procs : usingRedis[w]

OfficeNext ==
    /\ \/ /\ turn = "screening" /\ Rotation!Next
          /\ UNCHANGED <<serviceVars, dayVars, sessionVars>>
       \/ /\ turn = "books" /\ Books!Next
          /\ UNCHANGED <<serviceVars, screeningVars, sessionVars>>
       \/ /\ turn = "days" /\ Days!Next
          /\ UNCHANGED <<serviceVars, screeningVars, dayVars>>
       \/ /\ turn = "bot" /\ Bot!Next
          /\ UNCHANGED <<marketVars, newsVars, quoteVars, tokenVars, limiterVars, vars>>
       \/ /\ turn = "news" /\ News!Next
          /\ UNCHANGED <<marketVars, botVars, quoteVars, tokenVars, limiterVars, vars>>
       \/ /\ turn = "quotes" /\ Quotes!Next
          /\ UNCHANGED <<marketVars, botVars, newsVars, tokenVars, limiterVars, vars>>
       \/ /\ turn = "token" /\ Token!Next
          /\ UNCHANGED <<marketVars, botVars, newsVars, quoteVars, limiterVars, vars>>
       \/ /\ turn = "limiter" /\ Limiter!Next
          /\ UNCHANGED <<marketVars, botVars, newsVars, quoteVars, tokenVars, vars>>
       \/ /\ turn = "harness" /\ Next
          /\ UNCHANGED <<marketVars, botVars, newsVars, quoteVars, tokenVars, limiterVars>>
    /\ UNCHANGED turn

OfficeSpec == OfficeInit /\ [][OfficeNext]_<<turn, marketVars, serviceVars>>

=============================================================================
