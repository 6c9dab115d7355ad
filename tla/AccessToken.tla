----------------------------- MODULE AccessToken -----------------------------
(***************************************************************************)
(* KISAuth of src/api/auth.py: the OAuth token every broker call needs.    *)
(* The broker wants one issue a day and lets a token live for a day, so    *)
(* the processes that use one app key share it through a cache file; a     *)
(* failed issue is not tried again for a while, and a token that has not   *)
(* run out yet is used meanwhile.                                          *)
(*                                                                         *)
(* A token is its expiry time; 0 stands for none, which tests like one     *)
(* that has run out.  One coroutine of a process at a time is inside the   *)
(* asyncio lock, and the only await inside it is the issue request.        *)
(***************************************************************************)
EXTENDS Integers, Sequences, FiniteSets

CONSTANTS
    Procs,      \* processes with the same app key
    Coros,      \* number of coroutines of one process that want the token
    Lifetime,   \* validity of an issued token
    Margin,     \* should_refresh: this long before the expiry
    RetryGap,   \* _REFRESH_RETRY_INTERVAL
    MaxTime,    \* bound: the clock
    MaxCrashes  \* bound: restarts of processes

VARIABLES
    now,
    mem,        \* _token_info of each process
    disk,       \* the cache file
    retryAfter, \* _refresh_retry_after, 0 for None
    issuing,    \* coroutines of each process that await the issue request
    started,    \* when the refresh under way in a process began
    refusedAt,  \* history: when get_access_token last raised in a process
    saved,      \* history: expiry of every token written to the cache file
    crashes

tokenVars == <<now, mem, disk, retryAfter, issuing, started, refusedAt, saved, crashes>>

Expired(t) == now >= t
ShouldRefresh(t) == now >= t - Margin

Init ==
    /\ now = 1 /\ disk = 0 /\ saved = <<>> /\ crashes = 0
    /\ mem = [p \in Procs |-> 0] /\ retryAfter = [p \in Procs |-> 0]
    /\ started = [p \in Procs |-> 0] /\ issuing = [p \in Procs |-> 0]
    /\ refusedAt = [p \in Procs |-> 0]

\* The end of get_access_token: the token is handed out unless it has run out.
Answer(p, token) ==
    refusedAt' = IF Expired(token) THEN [refusedAt EXCEPT ![p] = now] ELSE refusedAt

\* A faulty variant: the coroutines of a process do not wait for one another.
Unlocked(p) == issuing[p] < Coros

LockFree(p) == issuing[p] = 0

\* A faulty variant: what another process has cached is not looked at again.
DiskIgnored(p, held) ==
    /\ issuing' = [issuing EXCEPT ![p] = @ + 1]
    /\ started' = [started EXCEPT ![p] = now]
    /\ mem' = [mem EXCEPT ![p] = held]
    /\ UNCHANGED <<retryAfter, refusedAt>>

\* _issue_token: adopt a fresh token of the cache file, or ask the broker.
AdoptOrIssue(p, held) ==
    IF ShouldRefresh(disk)
    THEN /\ issuing' = [issuing EXCEPT ![p] = @ + 1]
         /\ started' = [started EXCEPT ![p] = now]
         /\ mem' = [mem EXCEPT ![p] = held]
         /\ UNCHANGED <<retryAfter, refusedAt>>
    ELSE /\ mem' = [mem EXCEPT ![p] = disk]
         /\ retryAfter' = [retryAfter EXCEPT ![p] = 0]
         /\ Answer(p, disk)
         /\ UNCHANGED <<issuing, started>>

\* get_access_token and _refresh_token up to the request, or to the answer when
\* the token is fresh or a new attempt comes too early.
GetToken(p) ==
    /\ LockFree(p)
    /\ LET held == IF mem[p] = 0 THEN disk ELSE mem[p]
       IN  IF ShouldRefresh(held) /\ now >= retryAfter[p]
           THEN AdoptOrIssue(p, held)
           ELSE /\ mem' = [mem EXCEPT ![p] = held]
                /\ Answer(p, held)
                /\ UNCHANGED <<retryAfter, issuing, started>>
    /\ UNCHANGED <<now, disk, saved, crashes>>

\* The request returns a token; writing the cache file may fail.
IssueOk(p) ==
    /\ issuing[p] > 0 /\ issuing' = [issuing EXCEPT ![p] = @ - 1]
    /\ LET token == now + Lifetime
       IN  /\ mem' = [mem EXCEPT ![p] = token]
           /\ \/ disk' = token /\ saved' = Append(saved, token)
              \/ UNCHANGED <<disk, saved>>
    /\ retryAfter' = [retryAfter EXCEPT ![p] = 0]
    /\ UNCHANGED <<now, started, refusedAt, crashes>>

\* The request fails, or its reply is lost.  The old token serves on while it lasts.
IssueFails(p) ==
    /\ issuing[p] > 0 /\ issuing' = [issuing EXCEPT ![p] = @ - 1]
    /\ retryAfter' = [retryAfter EXCEPT ![p] = started[p] + RetryGap]
    /\ Answer(p, mem[p])
    /\ UNCHANGED <<now, mem, disk, started, saved, crashes>>

\* A restart forgets everything but the cache file.
Restart(p) ==
    /\ crashes < MaxCrashes /\ crashes' = crashes + 1
    /\ mem' = [mem EXCEPT ![p] = 0] /\ retryAfter' = [retryAfter EXCEPT ![p] = 0]
    /\ issuing' = [issuing EXCEPT ![p] = 0]
    /\ UNCHANGED <<now, disk, started, refusedAt, saved>>

\* A request ends within its timeout of one tick.
Tick ==
    /\ now < MaxTime /\ \A p \in Procs : issuing[p] > 0 => started[p] = now
    /\ now' = now + 1
    /\ UNCHANGED <<mem, disk, retryAfter, issuing, started, refusedAt, saved, crashes>>

Next ==
    \/ \E p \in Procs : GetToken(p) \/ IssueOk(p) \/ IssueFails(p) \/ Restart(p)
    \/ Tick

Spec == Init /\ [][Next]_tokenVars

-----------------------------------------------------------------------------
(* Properties *)

\* The types of the clocks and of the tokens held.
TypeOK ==
    /\ now \in 1..MaxTime /\ disk \in 0..(MaxTime + Lifetime)
    /\ \A p \in Procs :
          /\ mem[p] \in 0..(MaxTime + Lifetime) /\ issuing[p] \in 0..1
          /\ retryAfter[p] \in 0..(MaxTime + RetryGap) /\ refusedAt[p] \in 0..now

\* "One issue a day": of the tokens that reached the cache file, those that are
\* fresh at one time are at most one for each process, however the coroutines and
\* restarts of the processes interleave.
IssueBurstBounded ==
    Cardinality({i \in DOMAIN saved : ~ShouldRefresh(saved[i])}) <= Cardinality(Procs)

\* A process is refused a token that another one has already cached for no longer
\* than the retry gap after it was cached.
OutageEndsWithCache ==
    \A p \in Procs : ~ShouldRefresh(disk) => refusedAt[p] <= disk - Lifetime + RetryGap
=============================================================================
