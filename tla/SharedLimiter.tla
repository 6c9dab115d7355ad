---------------------------- MODULE SharedLimiter ----------------------------
(***************************************************************************)
(* The distributed limiter of src/api/rate_limiter.py that the screening   *)
(* workers use: HybridRateLimiter counts the calls of a day in Redis, for  *)
(* all processes together, and falls back for good to a counter of its own *)
(* when Redis fails.  Every Redis command is an await; the counter is read *)
(* before the wait for the second's quota and incremented after it.        *)
(***************************************************************************)
EXTENDS Integers, FiniteSets

CONSTANTS
    Workers,    \* processes
    Callers,    \* coroutines of each process
    DailyLimit, \* rate_limit.daily_limit
    LastDay,    \* bound: days
    MaxCalls    \* bound: calls of a day counted in Redis, or by one process

VARIABLES
    today,
    counter,    \* Redis: kis_daily_count:<day>
    key,        \* _daily_count_key of each process: a day
    usingRedis, \* _using_redis of each process
    localCount, \* the local limiter of each process
    localDate,
    at,         \* where each caller awaits
    granted     \* history: calls granted on each day: counted for that day in Redis (shared)
                \* or by a process of its own (own), and those that waited over midnight and
                \* were counted for an earlier day (late)

limiterVars == <<today, counter, key, usingRedis, localCount, localDate, at, granted>>
Days == 1..LastDay
Places == {"idle", "counted", "local"}

Init ==
    /\ today = 1 /\ counter = [d \in Days |-> 0]
    /\ key = [w \in Workers |-> 1]
    /\ usingRedis \in [Workers -> BOOLEAN]
    /\ localCount = [w \in Workers |-> 0] /\ localDate = [w \in Workers |-> 1]
    /\ at = [w \in Workers |-> [c \in Callers |-> "idle"]]
    /\ granted = [d \in Days |-> [shared |-> 0, late |-> 0, own |-> [w \in Workers |-> 0]]]

GrantShared(w) == granted' = IF key[w] = today THEN [granted EXCEPT ![today].shared = @ + 1]
                                               ELSE [granted EXCEPT ![today].late = @ + 1]
GrantOwn(w) == granted' = IF localDate[w] = today THEN [granted EXCEPT ![today].own[w] = @ + 1]
                                                  ELSE [granted EXCEPT ![today].late = @ + 1]

\* _check_daily_key and the GET: refused at the limit, else on to the second's
\* quota, which may cost a second of sleep.  A refused call has moved the key, too.
CheckRedis(w, c) ==
    /\ at[w][c] = "idle" /\ usingRedis[w] /\ granted[today].shared < MaxCalls
    /\ key' = [key EXCEPT ![w] = today]
    /\ at' = IF counter[today] < DailyLimit THEN [at EXCEPT ![w][c] = "counted"] ELSE at
    /\ UNCHANGED <<today, counter, usingRedis, localCount, localDate, granted>>

\* A faulty variant: the call that slept for the second's quota is not counted.
CountUnlessSlept(w, c) ==
    /\ at[w][c] = "counted"
    /\ at' = [at EXCEPT ![w][c] = "idle"]
    /\ \/ counter' = [counter EXCEPT ![key[w]] = @ + 1]
       \/ UNCHANGED counter
    /\ GrantShared(w)
    /\ UNCHANGED <<today, key, usingRedis, localCount, localDate>>

\* The pipeline's INCR uses the key as it is by now.
CountRedis(w, c) ==
    /\ at[w][c] = "counted"
    /\ at' = [at EXCEPT ![w][c] = "idle"]
    /\ counter' = [counter EXCEPT ![key[w]] = @ + 1]
    /\ GrantShared(w)
    /\ UNCHANGED <<today, key, usingRedis, localCount, localDate>>

\* RateLimiter.acquire up to its waits: the date, then the limit.
EnterLocal(w, c) ==
    LET count == IF localDate[w] = today THEN localCount[w] ELSE 0
    IN  /\ localDate' = [localDate EXCEPT ![w] = today]
        /\ localCount' = [localCount EXCEPT ![w] = count]
        /\ at' = [at EXCEPT ![w][c] = IF count < DailyLimit THEN "local" ELSE "idle"]

\* Any other error of a Redis command switches the process over and goes on with
\* the local limiter in the same call.
RedisFails(w, c) ==
    /\ at[w][c] \in {"idle", "counted"} /\ usingRedis[w]
    /\ usingRedis' = [usingRedis EXCEPT ![w] = FALSE]
    /\ EnterLocal(w, c)
    /\ UNCHANGED <<today, counter, key, granted>>

CheckLocal(w, c) ==
    /\ at[w][c] = "idle" /\ ~usingRedis[w] /\ granted[today].own[w] < MaxCalls
    /\ EnterLocal(w, c)
    /\ UNCHANGED <<today, counter, key, usingRedis, granted>>

\* After the token bucket and the minimal interval.
CountLocal(w, c) ==
    /\ at[w][c] = "local"
    /\ at' = [at EXCEPT ![w][c] = "idle"]
    /\ localCount' = [localCount EXCEPT ![w] = @ + 1]
    /\ GrantOwn(w)
    /\ UNCHANGED <<today, counter, key, usingRedis, localDate>>

Midnight ==
    /\ today < LastDay /\ today' = today + 1
    /\ UNCHANGED <<counter, key, usingRedis, localCount, localDate, at, granted>>

Next ==
    \/ \E w \in Workers, c \in Callers :
          \/ CheckRedis(w, c) \/ CountRedis(w, c) \/ RedisFails(w, c)
          \/ CheckLocal(w, c) \/ CountLocal(w, c)
    \/ Midnight

Spec == Init /\ [][Next]_limiterVars

-----------------------------------------------------------------------------
(* Properties *)

\* The types of the counters, dates and places.
TypeOK ==
    /\ today \in Days /\ counter \in [Days -> Nat] /\ key \in [Workers -> Days]
    /\ usingRedis \in [Workers -> BOOLEAN] /\ localDate \in [Workers -> Days]
    /\ localCount \in [Workers -> Nat] /\ at \in [Workers -> [Callers -> Places]]

\* The calls granted on one day are the limit once for all processes that count in
\* Redis and once more for each that has fallen back, each time with an overshoot
\* of the callers that waited together, and those that waited over midnight.
CallsBounded ==
    LET all == Cardinality(Workers) * Cardinality(Callers)
    IN  \A d \in Days :
          /\ granted[d].shared <= DailyLimit - 1 + all
          /\ granted[d].late <= IF d = 1 THEN 0 ELSE all
          /\ \A w \in Workers :
               granted[d].own[w] <= IF usingRedis[w] THEN 0
                                    ELSE DailyLimit - 1 + Cardinality(Callers)
=============================================================================
