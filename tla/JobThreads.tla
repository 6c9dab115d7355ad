----------------------------- MODULE JobThreads -----------------------------
(***************************************************************************)
(* The jobs of the scheduler run in threads, each with an event loop of    *)
(* its own that lasts one run, and the commands of the bot run on the main *)
(* loop.  All call the broker through one client and meet at the asyncio   *)
(* locks of its limiter, which are made for one loop: a lock binds itself  *)
(* to the loop of the first caller that has to wait, and a future that is  *)
(* set from another thread does not wake a loop that sleeps.               *)
(*                                                                         *)
(* One lock stands for TokenBucket._lock and RateLimiter._interval_lock,   *)
(* which are taken one after the other; KISAuth._lock is of the same kind. *)
(* The few instructions of acquire up to its await are one step.           *)
(***************************************************************************)
EXTENDS Integers, Sequences, SequencesExt

CONSTANTS
    Jobs,           \* jobs of the scheduler that call the broker
    Bot,            \* the one caller on the main loop
    MaxRuns         \* bound on the runs

VARIABLES
    pc,             \* "off", "calling", "waiting", "holding"
    loop,           \* the loop of each caller's run, 0 for the main loop
    asleep,         \* callers whose loop has nothing to do and no timer
    locked,
    waiters,        \* the lock's queue: caller and whether its future is set
    bound,          \* the loop the lock is bound to, or Unbound
    runs,           \* runs so far, of which each has a new loop
    failed          \* history: callers whose acquire raised

threadVars == <<pc, loop, asleep, locked, waiters, bound, runs, failed>>

Parties == Jobs \cup {Bot}
Unbound == -1
Places == {"off", "calling", "waiting", "holding"}

Init ==
    /\ pc = [c \in Parties |-> "off"] /\ loop = [c \in Parties |-> 0] /\ asleep = {}
    /\ locked = FALSE /\ waiters = <<>> /\ bound = Unbound
    /\ runs = 0 /\ failed = {}

-----------------------------------------------------------------------------

\* asyncio.run in a thread of the pool; with max_instances = 1 a job that has not ended is
\* skipped.  The bot's task stays on its loop.
Start(c) ==
    /\ pc[c] = "off" /\ runs < MaxRuns /\ runs' = runs + 1
    /\ pc' = [pc EXCEPT ![c] = "calling"]
    /\ loop' = [loop EXCEPT ![c] = IF c = Bot THEN 0 ELSE runs + 1]
    /\ UNCHANGED <<asleep, locked, waiters, bound, failed>>

\* Lock.acquire: nobody has the lock or waits for it.
Free == ~locked /\ waiters = <<>>

AcquireFree(c) ==
    /\ pc[c] = "calling" /\ Free
    /\ locked' = TRUE /\ pc' = [pc EXCEPT ![c] = "holding"]
    /\ UNCHANGED <<loop, asleep, waiters, bound, runs, failed>>

\* The first caller that waits binds the lock to its loop.
AcquireWaits(c) ==
    /\ pc[c] = "calling" /\ ~Free /\ bound \in {Unbound, loop[c]}
    /\ bound' = loop[c] /\ waiters' = Append(waiters, [caller |-> c, set |-> FALSE])
    /\ pc' = [pc EXCEPT ![c] = "waiting"]
    /\ UNCHANGED <<loop, asleep, locked, runs, failed>>

\* RuntimeError "is bound to a different event loop"; the call of the API fails.
AcquireRaises(c) ==
    /\ pc[c] = "calling" /\ ~Free /\ bound \notin {Unbound, loop[c]}
    /\ failed' = failed \cup {c} /\ pc' = [pc EXCEPT ![c] = "off"]
    /\ UNCHANGED <<loop, asleep, locked, waiters, bound, runs>>

\* A job's loop has this one task and waits in select without a timeout; the main loop has
\* the worker's timers to wake it.
FallsAsleep(c) ==
    /\ c \in Jobs \ asleep /\ \E i \in DOMAIN waiters : waiters[i] = [caller |-> c, set |-> FALSE]
    /\ asleep' = asleep \cup {c}
    /\ UNCHANGED <<pc, loop, locked, waiters, bound, runs, failed>>

\* Release after the pause between two calls: the first future is set.  More calls, or the end.
Release(c) ==
    /\ pc[c] = "holding" /\ locked' = FALSE
    /\ waiters' = IF waiters = <<>> THEN waiters ELSE [waiters EXCEPT ![1].set = TRUE]
    /\ \E next \in {"calling", "off"} : pc' = [pc EXCEPT ![c] = next]
    /\ UNCHANGED <<loop, asleep, bound, runs, failed>>

\* The loop runs the callback of the future; the task takes the lock.
Resumes(c) ==
    /\ pc[c] = "waiting" /\ c \notin asleep
    /\ waiters # <<>> /\ Head(waiters) = [caller |-> c, set |-> TRUE]
    /\ waiters' = Tail(waiters) /\ locked' = TRUE /\ pc' = [pc EXCEPT ![c] = "holding"]
    /\ UNCHANGED <<loop, asleep, bound, runs, failed>>

\* A new process has new locks.
Restart ==
    /\ pc' = [c \in Parties |-> "off"] /\ loop' = [c \in Parties |-> 0] /\ asleep' = {}
    /\ locked' = FALSE /\ waiters' = <<>> /\ bound' = Unbound /\ failed' = {}
    /\ UNCHANGED runs

Next ==
    \/ Restart
    \/ \E c \in Parties :
          \/ Start(c) \/ AcquireFree(c) \/ AcquireWaits(c) \/ AcquireRaises(c)
          \/ FallsAsleep(c) \/ Release(c) \/ Resumes(c)

Spec == Init /\ [][Next]_threadVars

-----------------------------------------------------------------------------
(* Properties *)

\* "The healthcheck has no influence on the operation": no call of a job fails because
\* another caller used the lock too.
OthersHarmless == failed \cap Jobs = {}
=============================================================================
