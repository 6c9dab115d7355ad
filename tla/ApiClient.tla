------------------------------ MODULE ApiClient ------------------------------
(***************************************************************************)
(* Calls of the KIS API through one KISClient: the circuit breaker and the *)
(* retry loop of src/api/client.py, the daily quota of                     *)
(* src/api/rate_limiter.py and a broker that answers, refuses, fails or    *)
(* never answers.  Callers are the coroutines that share the client: the   *)
(* trading cycle, the other jobs, the operator's queries.                  *)
(*                                                                         *)
(* Time is not measured: the breaker's wait is over or not, and the token  *)
(* bucket, the minimal interval and the backoff sleeps are places where    *)
(* other callers may run.  How the access token is obtained is one step    *)
(* that may fail.                                                          *)
(***************************************************************************)
EXTENDS Integers, FiniteSets

CONSTANTS
    Callers,        \* coroutines that share the client
    MaxRetries,     \* MAX_RETRIES: attempts of one call
    Threshold,      \* CIRCUIT_FAILURE_THRESHOLD
    Base,           \* CIRCUIT_RESET_TIMEOUT, seconds
    MaxTimeout,     \* CircuitBreaker.MAX_RESET_TIMEOUT, seconds
    DailyLimit,     \* daily_limit of the RateLimiter
    MaxTrips        \* bound: trips that are told apart (the wait no longer grows)

VARIABLES
    pc,             \* where each call awaits
    order,          \* the call is an order (idempotent=False)
    attempt,        \* attempts a call has finished
    failures,       \* _failure_count
    open,           \* _is_open
    trips,          \* _trip_count
    waited,         \* _current_reset_timeout has passed since the last failure
    daily,          \* _daily_count
    dateMoved,      \* today is not _daily_reset_date
    effects,        \* history: times the broker acted on the current call
    quiet,          \* history: the breaker has opened and its wait is not over
    quietSends      \* history: requests sent in that time

callVars == <<pc, order, attempt>>
breakerVars == <<failures, open, trips, waited>>
quotaVars == <<daily, dateMoved>>
historyVars == <<quiet, quietSends>>
vars == <<pc, order, attempt, failures, open, trips, waited, daily, dateMoved,
          effects, quiet, quietSends>>

\* The reset wait after the n-th trip; before the first it is the base.
Timeout(n) ==
    LET grown == IF n = 0 THEN Base ELSE Base * 2^(n - 1)
    IN  IF grown < MaxTimeout THEN grown ELSE MaxTimeout

Init ==
    /\ pc = [c \in Callers |-> "idle"]
    /\ order = [c \in Callers |-> FALSE]
    /\ attempt = [c \in Callers |-> 0]
    /\ failures = 0 /\ open = FALSE /\ trips = 0 /\ waited = FALSE
    /\ daily = 0 /\ dateMoved = FALSE
    /\ effects = [c \in Callers |-> 0]
    /\ quiet = FALSE /\ quietSends = 0

-----------------------------------------------------------------------------
(* CircuitBreaker *)

RecordSuccess ==
    /\ failures' = 0 /\ open' = FALSE /\ trips' = 0 /\ waited' = FALSE
    /\ quiet' = FALSE /\ quietSends' = 0

\* Every failure at or over the threshold is a trip, also while the breaker is
\* open already.
RecordFailure ==
    /\ failures' = failures + 1
    /\ waited' = FALSE
    /\ IF failures + 1 >= Threshold
       THEN /\ open' = TRUE /\ trips' = IF trips < MaxTrips THEN trips + 1 ELSE trips
            /\ quiet' = TRUE
       ELSE UNCHANGED <<open, trips, quiet>>
    /\ UNCHANGED quietSends

\* A faulty variant: half-open whether or not the wait is over.
HalfOpenAtOnce ==
    /\ open
    /\ failures' = 0 /\ open' = FALSE
    /\ UNCHANGED <<trips, waited>>

\* _try_half_open: the breaker closes and counts from zero; the trips and the
\* wait they give are kept.
TryHalfOpen ==
    /\ open /\ waited
    /\ failures' = 0 /\ open' = FALSE
    /\ UNCHANGED <<trips, waited>>

\* is_available.
IsAvailable ==
    \/ ~open /\ UNCHANGED breakerVars
    \/ TryHalfOpen

\* The trading cycle reads is_open, which half-opens as well.
ReadIsOpen ==
    /\ TryHalfOpen
    /\ UNCHANGED <<callVars, quotaVars, effects, historyVars>>

WaitElapses ==
    /\ open /\ ~waited
    /\ waited' = TRUE
    /\ quiet' = FALSE /\ quietSends' = 0
    /\ UNCHANGED <<callVars, failures, open, trips, quotaVars, effects>>

-----------------------------------------------------------------------------
(* _request *)

Goto(c, place) == pc' = [pc EXCEPT ![c] = place]

\* The breaker is asked once, before the loop; a call it rejects changes nothing.
Begin(c) ==
    /\ pc[c] = "idle"
    /\ IsAvailable
    /\ \E isOrder \in BOOLEAN : order' = [order EXCEPT ![c] = isOrder]
    /\ attempt' = [attempt EXCEPT ![c] = 0]
    /\ effects' = [effects EXCEPT ![c] = 0]
    /\ Goto(c, "token")
    /\ UNCHANGED <<quotaVars, historyVars>>

\* get_access_token and, for an order, get_hashkey return or raise.
GetToken(c) ==
    /\ pc[c] = "token"
    /\ Goto(c, "quota") \/ Goto(c, "idle")
    /\ UNCHANGED <<order, attempt, breakerVars, quotaVars, effects, historyVars>>

\* RateLimiter.acquire, first part: the counter of a past day is reset, the
\* limit is tested, and the caller waits for its token.
CheckQuota(c) ==
    /\ pc[c] = "quota"
    /\ daily' = IF dateMoved THEN 0 ELSE daily
    /\ dateMoved' = FALSE
    /\ IF daily' >= DailyLimit THEN Goto(c, "idle") ELSE Goto(c, "limit")
    /\ UNCHANGED <<order, attempt, breakerVars, effects, historyVars>>

\* ... second part, after the waits: the call is counted and sent.
Send(c) ==
    /\ pc[c] = "limit"
    /\ daily' = daily + 1
    /\ Goto(c, "sent")
    /\ quietSends' = IF quiet THEN quietSends + 1 ELSE quietSends
    /\ UNCHANGED <<order, attempt, breakerVars, dateMoved, effects, quiet>>

\* Sleep and try again, or give up after the last attempt.
Retry(c) ==
    /\ attempt' = [attempt EXCEPT ![c] = @ + 1]
    /\ IF attempt[c] + 1 = MaxRetries THEN Goto(c, "idle") ELSE Goto(c, "quota")

\* What the broker has done when its answer arrives or is given up.
Acts(c, happened) == effects' = IF happened THEN [effects EXCEPT ![c] = @ + 1] ELSE effects

ReplyOk(c) ==
    /\ pc[c] = "sent"
    /\ Acts(c, TRUE)
    /\ RecordSuccess
    /\ Goto(c, "idle")
    /\ UNCHANGED <<order, attempt, quotaVars>>

\* Faulty variant: a refused attempt is not counted.
ReplyTooManyUncounted(c) ==
    /\ pc[c] = "sent"
    /\ Goto(c, "quota")
    /\ UNCHANGED <<order, attempt, breakerVars, quotaVars, effects, historyVars>>

\* 429: the request was refused; neither a success nor a failure.
ReplyTooMany(c) ==
    /\ pc[c] = "sent"
    /\ Retry(c)
    /\ UNCHANGED <<order, breakerVars, quotaVars, effects, historyVars>>

\* Faulty variant: an order is tried again after a lost answer.
ReplyLostRetried(c) ==
    /\ pc[c] = "sent"
    /\ \E happened \in BOOLEAN : Acts(c, happened)
    /\ RecordFailure
    /\ Retry(c)
    /\ UNCHANGED <<order, quotaVars>>

\* 5xx or a network error: the request may have been acted on.  An order is
\* never tried again.
ReplyLost(c) ==
    /\ pc[c] = "sent"
    /\ \E happened \in BOOLEAN : Acts(c, happened)
    /\ RecordFailure
    /\ \/ order[c] /\ Goto(c, "idle") /\ UNCHANGED attempt
       \/ ~order[c] /\ Retry(c)
    /\ UNCHANGED <<order, quotaVars>>

\* 4xx: the request was wrong, and counts against the breaker.
ReplyRejected(c) ==
    /\ pc[c] = "sent"
    /\ RecordFailure
    /\ Goto(c, "idle")
    /\ UNCHANGED <<order, attempt, quotaVars, effects>>

Midnight ==
    /\ ~dateMoved
    /\ dateMoved' = TRUE
    /\ UNCHANGED <<callVars, breakerVars, daily, effects, historyVars>>

\* Every await of a call ends: by an answer, a timeout or an exception.
CallSteps(c) ==
    \/ GetToken(c) \/ CheckQuota(c) \/ Send(c)
    \/ ReplyOk(c) \/ ReplyTooMany(c) \/ ReplyLost(c) \/ ReplyRejected(c)

Next ==
    \/ \E c \in Callers : Begin(c) \/ CallSteps(c)
    \/ ReadIsOpen \/ WaitElapses \/ Midnight

Spec == Init /\ [][Next]_vars
FairSpec == Spec /\ \A c \in Callers : WF_vars(CallSteps(c))

-----------------------------------------------------------------------------

\* The types of the fields; a call never has more than its attempts.
TypeOK ==
    /\ pc \in [Callers -> {"idle", "token", "quota", "limit", "sent"}]
    /\ order \in [Callers -> BOOLEAN]
    /\ attempt \in [Callers -> 0..MaxRetries]
    /\ \A c \in Callers : pc[c] # "idle" => attempt[c] < MaxRetries
    /\ failures \in Nat
    /\ open \in BOOLEAN
    /\ trips \in 0..MaxTrips
    /\ waited \in BOOLEAN
    /\ daily \in Nat
    /\ dateMoved \in BOOLEAN
    /\ effects \in [Callers -> 0..MaxRetries]
    /\ quiet \in BOOLEAN
    /\ quietSends \in Nat

\* However often a request is answered with an error, refused or not answered,
\* the broker acts on one order call at most once (idempotent=False of _request).
OrderAtMostOnce == \A c \in Callers : order[c] => effects[c] <= 1

\* Between an opening of the breaker and the end of its wait the broker gets
\* only what calls under way still send: the breaker is not asked between attempts.
OutageLoadBounded == quietSends <= Cardinality(Callers) * MaxRetries - 1

\* Every call returns or raises: no mixture of refusals, failures and waits keeps
\* it in the loop.
CallsEnd == \A c \in Callers : pc[c] # "idle" ~> pc[c] = "idle"

=============================================================================
