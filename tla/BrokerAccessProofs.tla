-------------------------- MODULE BrokerAccessProofs --------------------------
(***************************************************************************)
(* What the callers of one client may do to the broker, for any number of  *)
(* callers and attempts, and the exchange a US order is sent to.           *)
(*                                                                         *)
(* OrderAtMostOnce: the broker may have acted on an order only when its    *)
(* call has left the loop: every answer after which it may have acted ends *)
(* the call, and the answers that lead round again (429) are refusals.     *)
(*                                                                         *)
(* OutageLoadBounded: a call under way has a budget of attempts it may     *)
(* still send (ToSend), which only shrinks while the breaker waits, since  *)
(* no call begins then; and the failure that opens the breaker has spent   *)
(* the first attempt of its own call.                                      *)
(***************************************************************************)
EXTENDS BrokerAccess, FiniteSetTheorems, TLAPS

-----------------------------------------------------------------------------
(* An order is acted on at most once *)

\* The places of a call between _request and its return.
Underway == {"token", "quota", "limit", "sent"}

\* The types of what the argument needs.
CallTypes ==
    /\ pc \in [Coroutines -> {"idle"} \cup Underway]
    /\ order \in [Coroutines -> BOOLEAN]
    /\ effects \in [Coroutines -> Nat]

\* An order under way has had no effect yet.
NothingYet == \A c \in Coroutines : order[c] /\ pc[c] \in Underway => effects[c] = 0

CInv == CallTypes /\ NothingYet /\ Calls!OrderAtMostOnce

\* A step that changes neither the kind nor the effects of a call, and lets no idle one
\* under way, keeps what is known of the calls.
LEMMA QuietStep ==
    ASSUME CInv, NEW c \in Coroutines, pc[c] \in Underway,
           NEW dest \in {"idle"} \cup Underway, Calls!Goto(c, dest),
           order' = order, effects' = effects
    PROVE  CInv'
BY DEF CInv, CallTypes, NothingYet, Calls!OrderAtMostOnce, Calls!Goto, Underway

\* A step that may have the effect of a call and ends it: the first effect and the last.
LEMMA LastStep ==
    ASSUME CInv, NEW c \in Coroutines, pc[c] \in Underway, NEW happened \in BOOLEAN,
           Calls!Acts(c, happened), Calls!Goto(c, "idle"), order' = order
    PROVE  CInv'
<1>1. CallTypes'
  BY DEF CInv, CallTypes, Calls!Goto, Calls!Acts, Underway
<1>2. \A d \in Coroutines : d # c => pc'[d] = pc[d] /\ effects'[d] = effects[d]
  BY DEF CInv, CallTypes, Calls!Goto, Calls!Acts
<1>3. pc'[c] = "idle" /\ (order[c] => effects'[c] <= 1)
  BY DEF CInv, CallTypes, NothingYet, Calls!Goto, Calls!Acts
<1>4. NothingYet' /\ Calls!OrderAtMostOnce'
  BY <1>2, <1>3 DEF CInv, NothingYet, Calls!OrderAtMostOnce, Underway
<1> QED BY <1>1, <1>4 DEF CInv

\* A call that is not an order may be acted on at every attempt.
LEMMA ReadStep ==
    ASSUME CInv, NEW c \in Coroutines, ~order[c], NEW dest \in {"idle"} \cup Underway,
           NEW happened \in BOOLEAN, Calls!Acts(c, happened), Calls!Goto(c, dest), order' = order
    PROVE  CInv'
<1>1. CallTypes'
  BY DEF CInv, CallTypes, Calls!Goto, Calls!Acts, Underway
<1>2. \A d \in Coroutines : d # c => pc'[d] = pc[d] /\ effects'[d] = effects[d]
  BY DEF CInv, CallTypes, Calls!Goto, Calls!Acts
<1>3. NothingYet' /\ Calls!OrderAtMostOnce'
  BY <1>2 DEF CInv, NothingYet, Calls!OrderAtMostOnce
<1> QED BY <1>1, <1>3 DEF CInv

\* A call begins with nothing done.
LEMMA BeginStep ==
    ASSUME CInv, NEW c \in Coroutines, Calls!Begin(c)
    PROVE  CInv'
<1>1. PICK isOrder \in BOOLEAN : order' = [order EXCEPT ![c] = isOrder]
  BY DEF Calls!Begin
<1>2. effects' = [effects EXCEPT ![c] = 0] /\ pc' = [pc EXCEPT ![c] = "token"]
  BY DEF Calls!Begin, Calls!Goto
<1> QED BY <1>1, <1>2 DEF CInv, CallTypes, NothingYet, Calls!OrderAtMostOnce, Underway

\* The broker acts on one order call at most once (_request with idempotent=False), for
\* any number of callers, attempts and failures, whatever the breaker and quota do.
THEOREM OrdersActAtMostOnce == Calls!Spec => []OrderAtMostOnce
<1>1. Calls!Init => CInv
  BY DEF Calls!Init, CInv, CallTypes, NothingYet, Calls!OrderAtMostOnce, Underway
<1>2. CInv /\ [Calls!Next]_(Calls!vars) => CInv'
  <2> SUFFICES ASSUME CInv, [Calls!Next]_(Calls!vars) PROVE CInv'
    OBVIOUS
  <2>1. ASSUME NEW c \in Coroutines, Calls!Begin(c) PROVE CInv'
    BY <2>1, BeginStep
  <2>2. ASSUME NEW c \in Coroutines, Calls!GetToken(c) PROVE CInv'
    <3>1. pc[c] \in Underway /\ (Calls!Goto(c, "quota") \/ Calls!Goto(c, "idle"))
      BY <2>2 DEF Calls!GetToken, Underway
    <3>2. order' = order /\ effects' = effects
      BY <2>2 DEF Calls!GetToken
    <3> QED BY <3>1, <3>2, QuietStep DEF Underway
  <2>3. ASSUME NEW c \in Coroutines, Calls!CheckQuota(c) PROVE CInv'
    <3>1. pc[c] \in Underway /\ (Calls!Goto(c, "idle") \/ Calls!Goto(c, "limit"))
      BY <2>3 DEF Calls!CheckQuota, Underway
    <3>2. order' = order /\ effects' = effects
      BY <2>3 DEF Calls!CheckQuota
    <3> QED BY <3>1, <3>2, QuietStep DEF Underway
  <2>4. ASSUME NEW c \in Coroutines, Calls!Send(c) PROVE CInv'
    <3>1. pc[c] \in Underway /\ Calls!Goto(c, "sent") /\ order' = order /\ effects' = effects
      BY <2>4 DEF Calls!Send, Underway
    <3> QED BY <3>1, QuietStep DEF Underway
  <2>5. ASSUME NEW c \in Coroutines, Calls!ReplyOk(c) PROVE CInv'
    <3>1. pc[c] \in Underway /\ Calls!Acts(c, TRUE) /\ Calls!Goto(c, "idle") /\ order' = order
      BY <2>5 DEF Calls!ReplyOk, Underway
    <3> QED BY <3>1, LastStep
  <2>6. ASSUME NEW c \in Coroutines, Calls!ReplyTooMany(c) PROVE CInv'
    <3>1. pc[c] \in Underway /\ (Calls!Goto(c, "idle") \/ Calls!Goto(c, "quota"))
      BY <2>6 DEF Calls!ReplyTooMany, Calls!Retry, Underway
    <3>2. order' = order /\ effects' = effects
      BY <2>6 DEF Calls!ReplyTooMany
    <3> QED BY <3>1, <3>2, QuietStep DEF Underway
  <2>7. ASSUME NEW c \in Coroutines, Calls!ReplyLost(c) PROVE CInv'
    <3>1. PICK happened \in BOOLEAN : Calls!Acts(c, happened)
      BY <2>7 DEF Calls!ReplyLost
    <3>2. pc[c] \in Underway /\ order' = order
      BY <2>7 DEF Calls!ReplyLost, Underway
    <3>3. CASE order[c] /\ Calls!Goto(c, "idle")
      BY <3>1, <3>2, <3>3, LastStep
    <3>4. CASE ~order[c] /\ Calls!Retry(c)
      BY <3>1, <3>2, <3>4, ReadStep DEF Calls!Retry, Underway
    <3> QED BY <2>7, <3>3, <3>4 DEF Calls!ReplyLost
  <2>8. ASSUME NEW c \in Coroutines, Calls!ReplyRejected(c) PROVE CInv'
    <3>1. pc[c] \in Underway /\ Calls!Goto(c, "idle") /\ order' = order /\ effects' = effects
      BY <2>8 DEF Calls!ReplyRejected, Underway
    <3> QED BY <3>1, QuietStep
  <2>9. CASE Calls!ReadIsOpen \/ Calls!WaitElapses \/ Calls!Midnight \/ UNCHANGED Calls!vars
    BY <2>9 DEF Calls!ReadIsOpen, Calls!WaitElapses, Calls!Midnight, Calls!vars, Calls!callVars,
       CInv, CallTypes, NothingYet, Calls!OrderAtMostOnce
  <2> QED BY <2>1, <2>2, <2>3, <2>4, <2>5, <2>6, <2>7, <2>8, <2>9 DEF Calls!Next, Calls!CallSteps
<1>3. CInv => OrderAtMostOnce
  BY DEF CInv, OrderAtMostOnce
<1> QED BY <1>1, <1>2, <1>3, PTL DEF Calls!Spec

-----------------------------------------------------------------------------
(* The load of a server that is down *)

\* The attempts that calls under way may still send: those of the loop from the current
\* one on, without the one that is being answered.
ToSend == {a \in Coroutines \X (0 .. MaxRetries - 1) :
              \/ pc[a[1]] \in {"token", "quota", "limit"} /\ a[2] >= attempt[a[1]]
              \/ pc[a[1]] = "sent" /\ a[2] > attempt[a[1]]}

\* The attempts of all calls.
Budget == Cardinality(Coroutines) * MaxRetries

\* The types of what the argument needs; a call under way has an attempt left.
LoadTypes ==
    /\ pc \in [Coroutines -> {"idle"} \cup Underway]
    /\ attempt \in [Coroutines -> 0..MaxRetries]
    /\ \A c \in Coroutines : pc[c] # "idle" => attempt[c] < MaxRetries
    /\ quiet \in BOOLEAN /\ open \in BOOLEAN /\ waited \in BOOLEAN
    /\ quietSends \in Nat

\* While the breaker waits it is open, so that no call begins, and what was sent and may
\* still be sent is less than the budget.
LoadAccount ==
    /\ quiet => open /\ ~waited
    /\ quiet => quietSends + Cardinality(ToSend) <= Budget - 1
    /\ ~quiet => quietSends = 0

LInv == LoadTypes /\ LoadAccount

\* The budget is finite and not empty, and what is to be sent is a part of it.
LEMMA BudgetBounds ==
    /\ IsFiniteSet(Coroutines \X (0 .. MaxRetries - 1))
    /\ Cardinality(Coroutines \X (0 .. MaxRetries - 1)) = Budget
    /\ Budget \in Nat \ {0}
    /\ ToSend \subseteq Coroutines \X (0 .. MaxRetries - 1)
    /\ IsFiniteSet(ToSend)
    /\ Cardinality(ToSend) \in Nat
<1>1. IsFiniteSet(Coroutines) /\ Cardinality(Coroutines) \in Nat /\ Cardinality(Coroutines) # 0
  BY CallersAssumption, FS_CardinalityType, FS_EmptySet
<1>2. IsFiniteSet(0 .. MaxRetries - 1) /\ Cardinality(0 .. MaxRetries - 1) = MaxRetries
  BY CallersAssumption, FS_Interval
<1>3. IsFiniteSet(Coroutines \X (0 .. MaxRetries - 1))
      /\ Cardinality(Coroutines \X (0 .. MaxRetries - 1)) = Budget
  BY <1>1, <1>2, FS_Product DEF Budget
<1>4. Budget \in Nat \ {0}
  BY <1>1, CallersAssumption DEF Budget
<1>5. ToSend \subseteq Coroutines \X (0 .. MaxRetries - 1)
  BY DEF ToSend
<1>6. IsFiniteSet(ToSend)
  BY <1>3, <1>5, FS_Subset
<1> QED BY <1>3, <1>4, <1>5, <1>6, FS_CardinalityType

\* A step after which no more is to be sent than before, and that is not a request, keeps
\* the account while the breaker waits on.
LEMMA AccountKept ==
    ASSUME LInv, LoadTypes', ToSend' \subseteq ToSend,
           quiet' = quiet, open' = open, waited' = waited, quietSends' = quietSends
    PROVE  LInv'
<1>1. Cardinality(ToSend') <= Cardinality(ToSend) /\ Cardinality(ToSend') \in Nat
  BY BudgetBounds, FS_Subset, FS_CardinalityType
<1>2. Budget \in Nat /\ Cardinality(ToSend) \in Nat
  BY BudgetBounds
<1>3. Cardinality(ToSend)' = Cardinality(ToSend')
  OBVIOUS
<1>4. Budget' = Budget
  BY DEF Budget
<1>5. LoadAccount'
  BY <1>1, <1>2, <1>3, <1>4 DEF LInv, LoadAccount, LoadTypes
<1> QED BY <1>5 DEF LInv

\* A step that ends the wait leaves nothing to account for.
LEMMA WaitOver ==
    ASSUME LInv, LoadTypes', quiet' = FALSE, quietSends' = 0
    PROVE  LInv'
BY DEF LInv, LoadAccount

\* A request uses one of the attempts.
LEMMA SendCounts ==
    ASSUME LInv, NEW c \in Coroutines, Calls!Send(c)
    PROVE  LInv'
<1>1. LoadTypes'
  BY DEF LInv, LoadTypes, Calls!Send, Calls!Goto, Calls!breakerVars, Underway
<1>2. /\ <<c, attempt[c]>> \in ToSend
      /\ ToSend' \subseteq ToSend \ {<<c, attempt[c]>>}
  <2>1. pc[c] = "limit" /\ attempt[c] \in 0 .. MaxRetries - 1
    BY CallersAssumption DEF LInv, LoadTypes, Calls!Send
  <2>2. <<c, attempt[c]>> \in ToSend
    BY <2>1 DEF ToSend
  <2>3. pc' = [pc EXCEPT ![c] = "sent"] /\ attempt' = attempt
    BY DEF Calls!Send, Calls!Goto
  <2>4. ASSUME NEW a \in ToSend' PROVE a \in ToSend /\ a # <<c, attempt[c]>>
    <3>1. /\ a \in Coroutines \X (0 .. MaxRetries - 1)
          /\ \/ pc'[a[1]] \in {"token", "quota", "limit"} /\ a[2] >= attempt[a[1]]
             \/ pc'[a[1]] = "sent" /\ a[2] > attempt[a[1]]
      BY <2>3, <2>4 DEF ToSend
    <3>2. CASE a[1] = c
      <4>1. pc'[c] = "sent" /\ a[2] > attempt[c]
        BY <2>3, <3>1, <3>2 DEF LInv, LoadTypes
      <4>2. a \in ToSend
        BY <2>1, <3>1, <3>2, <4>1 DEF ToSend
      <4> QED BY <2>1, <3>1, <4>1, <4>2
    <3>3. CASE a[1] # c
      <4>1. pc'[a[1]] = pc[a[1]]
        BY <2>3, <3>1, <3>3 DEF LInv, LoadTypes
      <4> QED BY <3>1, <3>3, <4>1 DEF ToSend
    <3> QED BY <3>2, <3>3
  <2> QED BY <2>2, <2>4
<1>3. /\ Cardinality(ToSend \ {<<c, attempt[c]>>}) = Cardinality(ToSend) - 1
      /\ IsFiniteSet(ToSend \ {<<c, attempt[c]>>})
  BY <1>2, BudgetBounds, FS_RemoveElement
<1>4. Cardinality(ToSend') <= Cardinality(ToSend) - 1 /\ Cardinality(ToSend') \in Nat
  BY <1>2, <1>3, FS_Subset, FS_CardinalityType
<1>5. Budget \in Nat /\ Cardinality(ToSend) \in Nat /\ Budget' = Budget
  BY BudgetBounds DEF Budget
<1>6. /\ quietSends' = IF quiet THEN quietSends + 1 ELSE quietSends
      /\ quiet' = quiet /\ open' = open /\ waited' = waited
  BY DEF Calls!Send, Calls!breakerVars
<1>7. Cardinality(ToSend)' = Cardinality(ToSend')
  OBVIOUS
<1>8. LoadAccount'
  BY <1>4, <1>5, <1>6, <1>7 DEF LInv, LoadAccount, LoadTypes
<1> QED BY <1>1, <1>8 DEF LInv

\* A call that was sent is tried again with the next attempt or not at all, so that what is
\* to be sent does not grow, and its first attempt is not among it.
LEMMA AnsweredShrinks ==
    ASSUME LInv, NEW c \in Coroutines, pc[c] = "sent",
           \/ Calls!Goto(c, "idle") /\ UNCHANGED attempt
           \/ Calls!Retry(c)
    PROVE  /\ pc' \in [Coroutines -> {"idle"} \cup Underway]
           /\ attempt' \in [Coroutines -> 0..MaxRetries]
           /\ \A d \in Coroutines : pc'[d] # "idle" => attempt'[d] < MaxRetries
           /\ ToSend' \subseteq ToSend \ {<<c, 0>>}
<1>1. CASE Calls!Goto(c, "idle") /\ UNCHANGED attempt
  <2>1. pc' = [pc EXCEPT ![c] = "idle"] /\ attempt' = attempt
    BY <1>1 DEF Calls!Goto
  <2>2. /\ pc' \in [Coroutines -> {"idle"} \cup Underway]
        /\ attempt' \in [Coroutines -> 0..MaxRetries]
        /\ \A d \in Coroutines : pc'[d] # "idle" => attempt'[d] < MaxRetries
    BY <2>1 DEF LInv, LoadTypes
  <2>3. ASSUME NEW a \in ToSend' PROVE a \in ToSend /\ a[1] # c
    <3>1. /\ a \in Coroutines \X (0 .. MaxRetries - 1)
          /\ \/ pc'[a[1]] \in {"token", "quota", "limit"} /\ a[2] >= attempt[a[1]]
             \/ pc'[a[1]] = "sent" /\ a[2] > attempt[a[1]]
      BY <2>1, <2>3 DEF ToSend
    <3>2. a[1] # c
      BY <2>1, <3>1 DEF LInv, LoadTypes
    <3>3. pc'[a[1]] = pc[a[1]]
      BY <2>1, <3>1, <3>2 DEF LInv, LoadTypes
    <3> QED BY <3>1, <3>2, <3>3 DEF ToSend
  <2> QED BY <2>2, <2>3
<1>2. CASE Calls!Retry(c)
  <2>1. /\ attempt' = [attempt EXCEPT ![c] = @ + 1]
        /\ IF attempt[c] + 1 = MaxRetries THEN pc' = [pc EXCEPT ![c] = "idle"]
                                          ELSE pc' = [pc EXCEPT ![c] = "quota"]
    BY <1>2 DEF Calls!Retry, Calls!Goto
  <2>2. attempt[c] \in 0 .. MaxRetries - 1
    BY CallersAssumption DEF LInv, LoadTypes
  <2>3. /\ pc' \in [Coroutines -> {"idle"} \cup Underway]
        /\ attempt' \in [Coroutines -> 0..MaxRetries]
        /\ \A d \in Coroutines : pc'[d] # "idle" => attempt'[d] < MaxRetries
    BY <2>1, <2>2, CallersAssumption DEF LInv, LoadTypes, Underway
  <2>4. ASSUME NEW a \in ToSend' PROVE a \in ToSend /\ a # <<c, 0>>
    <3>1. /\ a \in Coroutines \X (0 .. MaxRetries - 1)
          /\ \/ pc'[a[1]] \in {"token", "quota", "limit"} /\ a[2] >= attempt'[a[1]]
             \/ pc'[a[1]] = "sent" /\ a[2] > attempt'[a[1]]
      BY <2>4 DEF ToSend
    <3>2. CASE a[1] = c
      <4>1. pc'[c] # "sent" /\ attempt'[c] = attempt[c] + 1
        BY <2>1 DEF LInv, LoadTypes
      <4>2. a[2] > attempt[c] /\ a[2] > 0
        BY <2>2, <3>1, <3>2, <4>1
      <4>3. a \in ToSend
        BY <3>1, <3>2, <4>2 DEF ToSend
      <4> QED BY <4>2, <4>3
    <3>3. CASE a[1] # c
      <4>1. pc'[a[1]] = pc[a[1]] /\ attempt'[a[1]] = attempt[a[1]]
        BY <2>1, <3>1, <3>3 DEF LInv, LoadTypes
      <4> QED BY <3>1, <3>3, <4>1 DEF ToSend
    <3> QED BY <3>2, <3>3
  <2> QED BY <2>3, <2>4
<1> QED BY <1>1, <1>2

\* A failure keeps the account, or opens it with the first attempt of the call spent.
LEMMA FailureCounts ==
    ASSUME LInv, NEW c \in Coroutines, pc[c] = "sent", Calls!RecordFailure,
           \/ Calls!Goto(c, "idle") /\ UNCHANGED attempt
           \/ Calls!Retry(c)
    PROVE  LInv'
<1>1. LoadTypes'
  BY AnsweredShrinks DEF LInv, LoadTypes, Calls!RecordFailure
<1>2. ToSend' \subseteq ToSend /\ <<c, 0>> \notin ToSend'
  BY AnsweredShrinks
<1>3. /\ waited' = FALSE /\ quietSends' = quietSends
      /\ \/ open' = TRUE /\ quiet' = TRUE
         \/ open' = open /\ quiet' = quiet
  BY DEF Calls!RecordFailure
<1>4. quiet' => open' /\ ~waited'
  BY <1>3 DEF LInv, LoadAccount
<1>5. Cardinality(ToSend)' = Cardinality(ToSend') /\ Budget' = Budget
  BY DEF Budget
<1>6. CASE quiet
  <2>1. Cardinality(ToSend') <= Cardinality(ToSend) /\ Cardinality(ToSend') \in Nat
    BY <1>2, BudgetBounds, FS_Subset, FS_CardinalityType
  <2>2. Budget \in Nat /\ Cardinality(ToSend) \in Nat
    BY BudgetBounds
  <2>3. quiet' = TRUE /\ quietSends + Cardinality(ToSend) <= Budget - 1
    BY <1>3, <1>6 DEF LInv, LoadAccount
  <2>4. quietSends' + Cardinality(ToSend') <= Budget - 1
    BY <1>3, <2>1, <2>2, <2>3 DEF LInv, LoadTypes
  <2> QED BY <1>1, <1>4, <1>5, <2>3, <2>4 DEF LInv, LoadAccount
<1>7. CASE ~quiet
  <2> DEFINE All == Coroutines \X (0 .. MaxRetries - 1)
  <2>1. <<c, 0>> \in All
    BY CallersAssumption
  <2>2. IsFiniteSet(All \ {<<c, 0>>}) /\ Cardinality(All \ {<<c, 0>>}) = Budget - 1
    BY <2>1, BudgetBounds, FS_RemoveElement
  <2>3. ToSend' \subseteq All \ {<<c, 0>>}
    BY <1>2, BudgetBounds
  <2>4. Cardinality(ToSend') <= Budget - 1
    BY <2>2, <2>3, FS_Subset
  <2>5. quietSends = 0 /\ quietSends' = 0
    BY <1>3, <1>7 DEF LInv, LoadAccount
  <2>6. Cardinality(ToSend') \in Nat /\ Budget \in Nat
    BY <2>2, <2>3, FS_Subset, FS_CardinalityType, BudgetBounds
  <2>7. quietSends' + Cardinality(ToSend') <= Budget - 1
    BY <2>4, <2>5, <2>6
  <2> QED BY <1>1, <1>4, <1>5, <2>5, <2>7 DEF LInv, LoadAccount
<1> QED BY <1>6, <1>7 DEF LInv, LoadTypes

\* Between an opening of the breaker and the end of its wait, the server gets less than
\* the attempts of all calls (CircuitBreaker and the loop of _request).
THEOREM OutagesAreSpared == Calls!Spec => []OutageLoadBounded
<1>1. Calls!Init => LInv
  <2> SUFFICES ASSUME Calls!Init PROVE LInv
    OBVIOUS
  <2>1. LoadTypes
    <3>1. 0 \in 0..MaxRetries /\ 0 < MaxRetries /\ 0 \in Nat
      BY CallersAssumption
    <3>2. pc \in [Coroutines -> {"idle"} \cup Underway] /\ \A c \in Coroutines : pc[c] = "idle"
      BY DEF Calls!Init
    <3>3. attempt \in [Coroutines -> 0..MaxRetries]
      BY <3>1 DEF Calls!Init
    <3>4. quiet \in BOOLEAN /\ open \in BOOLEAN /\ waited \in BOOLEAN /\ quietSends = 0
      BY DEF Calls!Init
    <3> QED BY <3>1, <3>2, <3>3, <3>4 DEF LoadTypes
  <2>2. LoadAccount
    BY DEF Calls!Init, LoadAccount
  <2> QED BY <2>1, <2>2 DEF LInv
<1>2. LInv /\ [Calls!Next]_(Calls!vars) => LInv'
  <2> SUFFICES ASSUME LInv, [Calls!Next]_(Calls!vars) PROVE LInv'
    OBVIOUS
  <2>1. ASSUME NEW c \in Coroutines, Calls!Begin(c) PROVE LInv'
    <3>1. ~quiet /\ quietSends = 0 /\ ~quiet' /\ quietSends' = 0
      BY <2>1 DEF Calls!Begin, Calls!IsAvailable, Calls!TryHalfOpen, Calls!breakerVars,
         Calls!historyVars, LInv, LoadAccount
    <3>2. /\ pc' = [pc EXCEPT ![c] = "token"] /\ attempt' = [attempt EXCEPT ![c] = 0]
          /\ open' \in BOOLEAN /\ waited' \in BOOLEAN
      BY <2>1 DEF Calls!Begin, Calls!Goto, Calls!IsAvailable, Calls!TryHalfOpen,
         Calls!breakerVars, LInv, LoadTypes
    <3>3. quiet' = quiet
      BY <2>1 DEF Calls!Begin, Calls!historyVars
    <3>4. 0 \in 0..MaxRetries /\ 0 < MaxRetries
      BY CallersAssumption
    <3>5. LoadTypes'
      BY <3>1, <3>2, <3>3, <3>4 DEF LInv, LoadTypes, Underway
    <3> QED BY <3>1, <3>5 DEF LInv, LoadAccount
  <2>2. ASSUME NEW c \in Coroutines, Calls!GetToken(c) \/ Calls!CheckQuota(c) PROVE LInv'
    <3>1. PICK dest \in {"idle", "quota", "limit"} : pc' = [pc EXCEPT ![c] = dest]
      BY <2>2 DEF Calls!GetToken, Calls!CheckQuota, Calls!Goto
    <3>2. /\ pc[c] \in {"token", "quota"} /\ attempt' = attempt
          /\ quiet' = quiet /\ open' = open /\ waited' = waited /\ quietSends' = quietSends
      BY <2>2 DEF Calls!GetToken, Calls!CheckQuota, Calls!breakerVars, Calls!historyVars
    <3>3. LoadTypes'
      BY <3>1, <3>2 DEF LInv, LoadTypes, Underway
    <3>4. ToSend' \subseteq ToSend
      BY <3>1, <3>2 DEF LInv, LoadTypes, ToSend
    <3> QED BY <3>2, <3>3, <3>4, AccountKept
  <2>3. ASSUME NEW c \in Coroutines, Calls!Send(c) PROVE LInv'
    BY <2>3, SendCounts
  <2>4. ASSUME NEW c \in Coroutines, Calls!ReplyOk(c) PROVE LInv'
    <3>1. LoadTypes'
      BY <2>4 DEF Calls!ReplyOk, Calls!RecordSuccess, Calls!Goto, LInv, LoadTypes
    <3> QED BY <2>4, <3>1, WaitOver DEF Calls!ReplyOk, Calls!RecordSuccess
  <2>5. ASSUME NEW c \in Coroutines, Calls!ReplyTooMany(c) PROVE LInv'
    <3>1. /\ pc[c] = "sent" /\ Calls!Retry(c)
          /\ quiet' = quiet /\ open' = open /\ waited' = waited /\ quietSends' = quietSends
      BY <2>5 DEF Calls!ReplyTooMany, Calls!breakerVars, Calls!historyVars
    <3>2. LoadTypes' /\ ToSend' \subseteq ToSend
      BY <3>1, AnsweredShrinks DEF LInv, LoadTypes
    <3> QED BY <3>1, <3>2, AccountKept
  <2>6. ASSUME NEW c \in Coroutines, Calls!ReplyLost(c) PROVE LInv'
    BY <2>6, FailureCounts DEF Calls!ReplyLost
  <2>7. ASSUME NEW c \in Coroutines, Calls!ReplyRejected(c) PROVE LInv'
    BY <2>7, FailureCounts DEF Calls!ReplyRejected
  <2>8. CASE Calls!ReadIsOpen
    <3>1. ~quiet /\ quietSends = 0 /\ ~quiet' /\ quietSends' = 0
      BY <2>8 DEF Calls!ReadIsOpen, Calls!TryHalfOpen, Calls!historyVars, LInv, LoadAccount
    <3>2. LoadTypes'
      BY <2>8 DEF Calls!ReadIsOpen, Calls!TryHalfOpen, Calls!historyVars, Calls!callVars,
         LInv, LoadTypes
    <3> QED BY <3>1, <3>2, WaitOver DEF LInv, LoadTypes
  <2>9. CASE Calls!WaitElapses
    <3>1. LoadTypes'
      BY <2>9 DEF Calls!WaitElapses, Calls!callVars, LInv, LoadTypes
    <3> QED BY <2>9, <3>1, WaitOver DEF Calls!WaitElapses
  <2>10. CASE Calls!Midnight \/ UNCHANGED Calls!vars
    <3>1. /\ pc' = pc /\ attempt' = attempt /\ quiet' = quiet /\ open' = open
          /\ waited' = waited /\ quietSends' = quietSends
      BY <2>10 DEF Calls!Midnight, Calls!vars, Calls!callVars, Calls!breakerVars,
         Calls!historyVars
    <3>2. LoadTypes' /\ ToSend' \subseteq ToSend
      BY <3>1 DEF LInv, LoadTypes, ToSend
    <3> QED BY <3>1, <3>2, AccountKept
  <2> QED
    BY <2>1, <2>2, <2>3, <2>4, <2>5, <2>6, <2>7, <2>8, <2>9, <2>10
    DEF Calls!Next, Calls!CallSteps
<1>3. LInv => OutageLoadBounded
  <2>1. \A S : Calls!Cardinality(S) = Cardinality(S)
    BY DEF Calls!Cardinality, Cardinality
  <2>2. ASSUME LInv PROVE quietSends <= Budget - 1
    BY <2>2, BudgetBounds DEF LInv, LoadTypes, LoadAccount
  <2> QED BY <2>1, <2>2 DEF OutageLoadBounded, Calls!OutageLoadBounded, Budget
<1> QED BY <1>1, <1>2, <1>3, PTL DEF Calls!Spec

-----------------------------------------------------------------------------
(* The exchange of a stock *)

(***************************************************************************)
(* RoutedHome holds for any stocks and exchanges.  What is held or ordered *)
(* is routed home because nothing wrong is ever learned: an exchange is    *)
(* unknown or the right one, in memory and in the stocks table, where the  *)
(* assumed exchange is written down only for stocks that were just traded  *)
(* there; and because what was once routed home stays so until the restart *)
(* that forgets the holding too.                                           *)
(***************************************************************************)


\* Nothing wrong has been learned of the exchanges (engine._exchanges, stocks.market).
NothingWrong ==
    /\ exchanges \in [Stocks -> {Unknown} \cup {Exchanges[i] : i \in DOMAIN Exchanges}]
    /\ \A s \in Stocks : exchanges[s] \in {Unknown, Home[s]}
    /\ \A s \in Stocks : market[s] \in {Unknown, Home[s]}

\* Fresh screening rows come with a row of the stocks table (one transaction).
FreshHaveRows == fresh \subseteq {s \in Stocks : market[s] # Unknown}

\* The sets of stocks are sets of stocks, and orders are tracked per stock.
StockSets ==
    /\ holdings \subseteq Stocks /\ held \subseteq Stocks /\ screened \subseteq Stocks
    /\ live \subseteq [stock : Stocks, side : {"buy", "sell"}]
    /\ pending \in [Stocks -> {"none", "buy", "sell"}]
    /\ market \in [Stocks -> {Unknown} \cup {Exchanges[i] : i \in DOMAIN Exchanges}]

DeskInv == NothingWrong /\ FreshHaveRows /\ StockSets /\ RoutedHome

-----------------------------------------------------------------------------
(* The pieces *)

\* One reading of the balance (_fetch_overseas_balance), complete or broken off, teaches the
\* right exchange of a holding or nothing.
LEMMA LearnedRight ==
    ASSUME NEW known, NEW account, NEW all \in BOOLEAN, NEW answered \in 0..Len(Exchanges),
           NEW s \in Stocks
    PROVE  /\ Learned(known, account, all, answered)[s] \in {known[s], Home[s]}
           /\ answered = Len(Exchanges) /\ s \in account =>
                Learned(known, account, all, answered)[s] = Home[s]
<1> DEFINE told == {i \in 1..answered : s \in Answer(Exchanges[i], account, all)}
<1>1. Learned(known, account, all, answered)[s] =
        IF told = {} THEN known[s] ELSE Named(Exchanges[Max(told)], s, all)
  BY DEF Learned
<1>2. told \subseteq DOMAIN Exchanges
  BY DeskAssumption
<1>3. ASSUME told # {} PROVE Named(Exchanges[Max(told)], s, all) = Home[s]
  <2>1. CASE all
    BY <2>1 DEF Named
  <2>2. CASE ~all
    <3>1. \A i \in told : Exchanges[i] = Home[s]
      BY <2>2 DEF Answer
    <3>2. \A i, j \in told : i = j
      BY <3>1, <1>2, DeskAssumption
    <3>3. Max(told) \in told
      <4>1. \E i \in told : \A j \in told : i >= j
        BY <1>3, <3>2
      <4> QED BY <4>1 DEF Max
    <3> QED BY <2>2, <3>1, <3>3 DEF Named
  <2> QED BY <2>1, <2>2
<1>4. ASSUME answered = Len(Exchanges), s \in account PROVE told # {}
  <2>1. PICK i \in DOMAIN Exchanges : Home[s] = Exchanges[i]
    BY DeskAssumption
  <2>2. i \in told
    BY <2>1, <1>4, DeskAssumption DEF Answer
  <2> QED BY <2>2
<1> QED BY <1>1, <1>3, <1>4

\* What a stock is taken for is home, if it is known at all; an assumed exchange that is
\* right once (_exchange_of) stays right, whatever is learned.
LEMMA StaysHome ==
    ASSUME NEW s \in Stocks, NothingWrong, ExchangeOf(s) = Home[s],
           exchanges'[s] \in {exchanges[s], Home[s]}
    PROVE  ExchangeOf(s)' = Home[s]
BY DEF NothingWrong, ExchangeOf

\* The home exchange is one of the profile's and never Unknown.
LEMMA HomeIsExchange ==
    ASSUME NEW s \in Stocks
    PROVE  Home[s] # Unknown /\ Home[s] \in {Exchanges[i] : i \in DOMAIN Exchanges}
BY DeskAssumption

\* A reading keeps what is known right and what is held and ordered routed home.
LEMMA ReadingKeeps ==
    ASSUME DeskInv, NEW account, account \subseteq Stocks, NEW answered \in 0..Len(Exchanges),
           FetchBalance(account, exchanges, answered)
    PROVE  /\ exchanges' \in [Stocks -> {Unknown} \cup {Exchanges[i] : i \in DOMAIN Exchanges}]
           /\ \A s \in Stocks : exchanges'[s] \in {exchanges[s], Home[s]}
           /\ \A s \in Stocks : ExchangeOf(s) = Home[s] => ExchangeOf(s)' = Home[s]
           /\ holdings' \subseteq Stocks
           /\ \A s \in holdings' : ExchangeOf(s)' = Home[s]
<1>1. PICK all \in BOOLEAN : exchanges' = Learned(exchanges, account, all, answered)
  BY DEF FetchBalance
<1>2. \A s \in Stocks : exchanges'[s] \in {exchanges[s], Home[s]}
  BY <1>1, LearnedRight
<1>3. exchanges' \in [Stocks -> {Unknown} \cup {Exchanges[i] : i \in DOMAIN Exchanges}]
  <2>1. exchanges' = [s \in Stocks |-> exchanges'[s]]
    BY <1>1 DEF Learned
  <2>2. \A s \in Stocks : exchanges'[s] \in {Unknown} \cup {Exchanges[i] : i \in DOMAIN Exchanges}
    BY <1>2, HomeIsExchange DEF DeskInv, NothingWrong
  <2> QED BY <2>1, <2>2
<1>4. \A s \in Stocks : ExchangeOf(s) = Home[s] => ExchangeOf(s)' = Home[s]
  BY <1>2, StaysHome DEF DeskInv
<1>5. holdings' \subseteq Stocks
  BY DEF FetchBalance, DeskInv, StockSets
<1>6. ASSUME NEW s \in holdings' PROVE ExchangeOf(s)' = Home[s]
  <2>1. CASE answered = Len(Exchanges)
    <3>1. s \in Stocks /\ s \in account
      BY <2>1, <1>6 DEF FetchBalance
    <3>2. exchanges'[s] = Home[s]
      BY <1>1, <2>1, <3>1, LearnedRight
    <3> QED BY <3>1, <3>2, HomeIsExchange DEF ExchangeOf
  <2>2. CASE answered # Len(Exchanges)
    BY <2>2, <1>4, <1>5, <1>6 DEF FetchBalance, DeskInv, RoutedHome
  <2> QED BY <2>1, <2>2
<1> QED BY <1>2, <1>3, <1>4, <1>5, <1>6

-----------------------------------------------------------------------------
(* The steps *)

\* The first process knows what the watchlist says, and holds and has ordered nothing.
LEMMA InitDeskInv ==
    Init => DeskInv
<1> SUFFICES ASSUME Init PROVE DeskInv
  OBVIOUS
<1>1. \A s \in Stocks : exchanges[s] \in {Unknown, Home[s]}
  BY DEF Init, Configured
<1>2. NothingWrong
  BY <1>1, HomeIsExchange DEF Init, Configured, NothingWrong
<1> QED BY <1>2 DEF Init, DeskInv, FreshHaveRows, StockSets, RoutedHome

\* A row labelled with the assumed exchange is right, if the assumption was.
LEMMA LabelledRight ==
    ASSUME DeskInv, NEW S, \A s \in S \cap Stocks : market[s] = Unknown => ExchangeOf(s) = Home[s]
    PROVE  /\ Labelled(S) \in [Stocks -> {Unknown} \cup {Exchanges[i] : i \in DOMAIN Exchanges}]
           /\ \A s \in Stocks : /\ Labelled(S)[s] \in {Unknown, Home[s]}
                                /\ market[s] # Unknown => Labelled(S)[s] = market[s]
<1>1. \A s \in Stocks : /\ Labelled(S)[s] \in {Unknown, Home[s]}
                        /\ market[s] # Unknown => Labelled(S)[s] = market[s]
  BY DEF Labelled, DeskInv, NothingWrong
<1>2. Labelled(S) = [s \in Stocks |-> Labelled(S)[s]]
  BY DEF Labelled
<1> QED BY <1>1, <1>2, HomeIsExchange

\* An order is placed only with a price, so at the exchange that lists the stock.
LEMMA ProcessKeeps ==
    ASSUME DeskInv, NEW s \in Stocks, NEW side \in {"buy", "sell"}, Process(s, side)
    PROVE  DeskInv'
<1>1. ExchangeOf(s) = Home[s]
  BY DEF Process, Quoted
<1>2. CASE PlaceFails(s, side)
  BY <1>2 DEF Process, PlaceFails, engineVars, DeskInv, NothingWrong, FreshHaveRows, StockSets,
     RoutedHome, ExchangeOf
<1>3. CASE PlaceSucceeds(s, side)
  <2>1. PICK filled \in BOOLEAN, answered \in 0..Len(Exchanges) :
          /\ held' = IF filled THEN After(held, s, side) ELSE held
          /\ live' = IF filled THEN live ELSE live \cup {[stock |-> s, side |-> side]}
          /\ FetchBalance(held', exchanges, answered)
          /\ pending' = IF filled /\ answered = Len(Exchanges) THEN pending
                        ELSE [pending EXCEPT ![s] = side]
    BY <1>3 DEF PlaceSucceeds
  <2>2. held' \subseteq Stocks
    BY <2>1 DEF After, DeskInv, StockSets
  <2>3. /\ exchanges' \in [Stocks -> {Unknown} \cup {Exchanges[i] : i \in DOMAIN Exchanges}]
        /\ \A t \in Stocks : exchanges'[t] \in {exchanges[t], Home[t]}
        /\ \A t \in Stocks : ExchangeOf(t) = Home[t] => ExchangeOf(t)' = Home[t]
        /\ holdings' \subseteq Stocks
        /\ \A t \in holdings' : ExchangeOf(t)' = Home[t]
    BY <2>1, <2>2, ReadingKeeps
  <2>4. /\ market' \in [Stocks -> {Unknown} \cup {Exchanges[i] : i \in DOMAIN Exchanges}]
        /\ \A t \in Stocks : /\ market'[t] \in {Unknown, Home[t]}
                             /\ market[t] # Unknown => market'[t] = market[t]
    BY <1>1, <1>3, LabelledRight DEF PlaceSucceeds
  <2>5. NothingWrong'
    BY <2>3, <2>4 DEF DeskInv, NothingWrong
  <2>6. FreshHaveRows'
    BY <2>4, <1>3 DEF Process, DeskInv, FreshHaveRows
  <2>7. StockSets'
    <3>1. live' \subseteq [stock : Stocks, side : {"buy", "sell"}]
      BY <2>1 DEF DeskInv, StockSets
    <3>2. pending' \in [Stocks -> {"none", "buy", "sell"}]
      BY <2>1 DEF DeskInv, StockSets
    <3>3. screened' \subseteq Stocks
      BY <1>3 DEF PlaceSucceeds, DeskInv, StockSets
    <3> QED BY <2>2, <2>3, <2>4, <3>1, <3>2, <3>3 DEF StockSets
  <2>8. \A t \in Stocks : pending'[t] # "none" => t = s \/ pending[t] # "none"
    BY <2>1 DEF DeskInv, StockSets
  <2>9. RoutedHome'
    BY <1>1, <2>3, <2>8 DEF DeskInv, RoutedHome
  <2> QED BY <2>5, <2>6, <2>7, <2>9 DEF DeskInv
<1> QED BY <1>2, <1>3 DEF Process

\* The sweep reads a complete balance and forgets an order.
LEMMA CancelKeeps ==
    ASSUME DeskInv, NEW s \in Stocks, CancelStale(s)
    PROVE  DeskInv'
<1>1. FetchBalance(held, exchanges, Len(Exchanges)) /\ Len(Exchanges) \in 0..Len(Exchanges)
  BY DeskAssumption DEF CancelStale
<1>2. /\ exchanges' \in [Stocks -> {Unknown} \cup {Exchanges[i] : i \in DOMAIN Exchanges}]
      /\ \A t \in Stocks : exchanges'[t] \in {exchanges[t], Home[t]}
      /\ \A t \in Stocks : ExchangeOf(t) = Home[t] => ExchangeOf(t)' = Home[t]
      /\ holdings' \subseteq Stocks
      /\ \A t \in holdings' : ExchangeOf(t)' = Home[t]
  BY <1>1, ReadingKeeps DEF DeskInv, StockSets
<1>3. \A t \in Stocks : pending'[t] # "none" => pending[t] # "none"
  BY DEF CancelStale, DeskInv, StockSets
<1>4. NothingWrong' /\ FreshHaveRows'
  BY <1>2 DEF CancelStale, DeskInv, NothingWrong, FreshHaveRows
<1>5. StockSets'
  BY <1>2 DEF CancelStale, DeskInv, StockSets
<1>6. RoutedHome'
  BY <1>2, <1>3 DEF DeskInv, RoutedHome
<1> QED BY <1>4, <1>5, <1>6 DEF DeskInv

\* The engine reads the exchanges of new stocks from rows the worker wrote with them.
LEMMA ScreenKeeps ==
    ASSUME DeskInv, ScreenStocks
    PROVE  DeskInv'
<1>1. PICK added : /\ added \subseteq Stocks
                   /\ screened' \subseteq Stocks
                   /\ market' = Labelled(fresh)
                   /\ Seed(added)
                   /\ UNCHANGED <<holdings, pending, fresh, brokerVars, starts>>
  BY DEF ScreenStocks, DeskInv, FreshHaveRows, StockSets
<1>2. /\ market' \in [Stocks -> {Unknown} \cup {Exchanges[i] : i \in DOMAIN Exchanges}]
      /\ \A s \in Stocks : /\ market'[s] \in {Unknown, Home[s]}
                           /\ market[s] # Unknown => market'[s] = market[s]
  BY <1>1, LabelledRight DEF DeskInv, FreshHaveRows
<1>3. \A s \in Stocks : exchanges'[s] \in {exchanges[s], Home[s]}
  BY <1>1 DEF Seed, DeskInv, NothingWrong
<1>4. exchanges' \in [Stocks -> {Unknown} \cup {Exchanges[i] : i \in DOMAIN Exchanges}]
  <2>1. exchanges' = [s \in Stocks |-> exchanges'[s]]
    BY <1>1 DEF Seed, DeskInv, NothingWrong
  <2>2. \A s \in Stocks : exchanges'[s] \in {Unknown} \cup {Exchanges[i] : i \in DOMAIN Exchanges}
    BY <1>3, HomeIsExchange DEF DeskInv, NothingWrong
  <2> QED BY <2>1, <2>2
<1>5. \A s \in Stocks : ExchangeOf(s) = Home[s] => ExchangeOf(s)' = Home[s]
  BY <1>3, StaysHome DEF DeskInv
<1>6. NothingWrong'
  BY <1>2, <1>3, <1>4 DEF DeskInv, NothingWrong
<1>7. FreshHaveRows' /\ StockSets' /\ RoutedHome'
  BY <1>1, <1>2, <1>5 DEF brokerVars, DeskInv, FreshHaveRows, StockSets, RoutedHome
<1> QED BY <1>6, <1>7 DEF DeskInv

\* The worker writes rows and exchanges together.
LEMMA RankKeeps ==
    ASSUME DeskInv, Rank
    PROVE  DeskInv'
<1>1. PICK ranked \in SUBSET Stocks, converted \in SUBSET Stocks, old \in SUBSET fresh :
        /\ converted \subseteq ranked
        /\ fresh' = old \cup converted
        /\ market' = [s \in Stocks |-> IF s \in ranked THEN Home[s] ELSE market[s]]
        /\ UNCHANGED <<engineVars, brokerVars, starts>>
  BY DEF Rank, Listing
<1>2. \A s \in Stocks : market'[s] \in {Unknown, Home[s]}
  BY <1>1 DEF DeskInv, NothingWrong
<1>3. market' \in [Stocks -> {Unknown} \cup {Exchanges[i] : i \in DOMAIN Exchanges}]
  BY <1>1, HomeIsExchange DEF DeskInv, StockSets
<1>4. FreshHaveRows'
  BY <1>1, HomeIsExchange DEF DeskInv, FreshHaveRows
<1> QED BY <1>1, <1>2, <1>3, <1>4 DEF engineVars, brokerVars, DeskInv, NothingWrong, StockSets,
           RoutedHome, ExchangeOf

\* A reading at the beginning of a cycle, and the one of a new session.
LEMMA ReadKeeps ==
    ASSUME DeskInv, ReadBalance \/ PreMarket
    PROVE  DeskInv'
<1>1. PICK answered \in 0..Len(Exchanges) : FetchBalance(held, exchanges, answered)
  BY DEF ReadBalance, PreMarket
<1>2. /\ exchanges' \in [Stocks -> {Unknown} \cup {Exchanges[i] : i \in DOMAIN Exchanges}]
      /\ \A s \in Stocks : exchanges'[s] \in {exchanges[s], Home[s]}
      /\ \A s \in Stocks : ExchangeOf(s) = Home[s] => ExchangeOf(s)' = Home[s]
      /\ holdings' \subseteq Stocks
      /\ \A s \in holdings' : ExchangeOf(s)' = Home[s]
  BY <1>1, ReadingKeeps DEF DeskInv, StockSets
<1>3. CASE ReadBalance
  BY <1>2, <1>3 DEF ReadBalance, brokerVars, DeskInv, NothingWrong, FreshHaveRows, StockSets,
     RoutedHome
<1>4. CASE PreMarket
  BY <1>2, <1>4 DEF PreMarket, DeskInv, NothingWrong, FreshHaveRows, StockSets, RoutedHome
<1> QED BY <1>3, <1>4

\* The broker fills what was ordered; a restart forgets holdings, orders and exchanges.
LEMMA OthersKeep ==
    ASSUME DeskInv, Fill \/ Restart \/ UNCHANGED vars
    PROVE  DeskInv'
<1>1. CASE Fill
  <2>1. PICK o \in live : held' = After(held, o.stock, o.side) /\ live' = live \ {o}
    BY <1>1 DEF Fill
  <2>2. held' \subseteq Stocks
    BY <2>1 DEF After, DeskInv, StockSets
  <2> QED BY <1>1, <2>1, <2>2 DEF Fill, engineVars, DeskInv, NothingWrong, FreshHaveRows, StockSets,
             RoutedHome, ExchangeOf
<1>2. CASE Restart
  <2>1. \A s \in Stocks : exchanges'[s] \in {Unknown, Home[s]}
    BY <1>2 DEF Restart, Configured
  <2>2. exchanges' \in [Stocks -> {Unknown} \cup {Exchanges[i] : i \in DOMAIN Exchanges}]
    BY <1>2, HomeIsExchange DEF Restart, Configured
  <2> QED BY <1>2, <2>1, <2>2 DEF Restart, brokerVars, DeskInv, NothingWrong, FreshHaveRows,
             StockSets, RoutedHome
<1>3. CASE UNCHANGED vars
  BY <1>3 DEF vars, engineVars, brokerVars, DeskInv, NothingWrong, FreshHaveRows, StockSets,
     RoutedHome, ExchangeOf
<1> QED BY <1>1, <1>2, <1>3

\* What the US engine holds or has ordered it asks for at the exchange that lists it
\* (_exchange_of), through half-read balances, failed seedings and restarts, for any
\* stocks, exchanges and watchlist.
THEOREM OrdersAreRoutedHome == Spec => []RoutedHome
<1>1. DeskInv /\ [Next]_vars => DeskInv'
  <2> SUFFICES ASSUME DeskInv, [Next]_vars PROVE DeskInv'
    OBVIOUS
  <2>1. CASE ReadBalance \/ PreMarket
    BY <2>1, ReadKeeps
  <2>2. CASE Rank
    BY <2>2, RankKeeps
  <2>3. CASE ScreenStocks
    BY <2>3, ScreenKeeps
  <2>4. CASE Fill \/ Restart \/ UNCHANGED vars
    BY <2>4, OthersKeep
  <2>5. ASSUME NEW s \in Stocks, NEW side \in {"buy", "sell"}, Process(s, side) PROVE DeskInv'
    BY <2>5, ProcessKeeps
  <2>6. ASSUME NEW s \in Stocks, CancelStale(s) PROVE DeskInv'
    BY <2>6, CancelKeeps
  <2> QED BY <2>1, <2>2, <2>3, <2>4, <2>5, <2>6 DEF Next
<1>2. DeskInv => RoutedHome
  BY DEF DeskInv
<1> QED BY InitDeskInv, <1>1, <1>2, PTL DEF Spec
=============================================================================
