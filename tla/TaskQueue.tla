------------------------------ MODULE TaskQueue ------------------------------
(***************************************************************************)
(* The PostgreSQL outbox between the trading engine and the worker         *)
(* processes: src/worker/queue.py and the polling loop of                  *)
(* src/worker/runner.py.  A row of task_queue is a member of Tasks.        *)
(* Producers and workers are separate processes; they meet only in the     *)
(* table, so every transaction is one action, and a transaction that holds *)
(* row locks while another may run (dequeue) is two.                       *)
(***************************************************************************)
EXTENDS Integers, FiniteSets

CONSTANTS
    Tasks,          \* rows that may be enqueued
    Workers,        \* worker processes
    Keys, KeyOf,    \* idempotency_key of each row
    NoKey,          \* the key of a row enqueued without one
    Prio,           \* priority of each row, higher first
    MaxRetries,     \* max_retries of every row
    BatchSize,      \* settings.worker.batch_size
    MaxCrashes,     \* bound: worker crashes
    NoTask

ASSUME QueueAssumption ==
    /\ KeyOf \in [Tasks -> Keys \cup {NoKey}]
    /\ NoKey \notin Keys
    /\ Prio \in [Tasks -> Int]
    /\ MaxRetries \in Nat \ {0}
    /\ BatchSize \in Nat \ {0}
    /\ MaxCrashes \in Nat
    /\ NoTask \notin Tasks

VARIABLES
    status,     \* status column; "absent" before the row, "deleted" after it
    retries,    \* retry_count column
    due,        \* scheduled_at <= now
    checked,    \* rows whose enqueue has seen no row with the same key
    pc,         \* where each worker is in its loop
    taken,      \* rows a worker has selected and not yet finished with
    cur,        \* the row whose handler a worker is running
    effects,    \* history: times the handler's effect of a row has happened
    glitches,   \* history: rows whose handler raised or was not marked after its effect
    crashes     \* worker crashes so far

tableVars == <<status, retries, due>>
workerVars == <<pc, taken, cur>>
vars == <<status, retries, due, checked, pc, taken, cur, effects, glitches, crashes>>

Statuses == {"absent", "PENDING", "RUNNING", "FAILED", "COMPLETED", "DEAD", "deleted"}
InTable(t) == status[t] \notin {"absent", "deleted"}
SameKey(s, t) == KeyOf[s] = KeyOf[t] /\ KeyOf[t] # NoKey
KeyExists(t) == \E s \in Tasks : SameKey(s, t) /\ InTable(s)

Init ==
    /\ status = [t \in Tasks |-> "absent"]
    /\ retries = [t \in Tasks |-> 0]
    /\ due = [t \in Tasks |-> FALSE]
    /\ checked = {}
    /\ pc = [w \in Workers |-> "poll"]
    /\ taken = [w \in Workers |-> {}]
    /\ cur = [w \in Workers |-> NoTask]
    /\ effects = [t \in Tasks |-> 0]
    /\ glitches = {}
    /\ crashes = 0

-----------------------------------------------------------------------------
(* Producers: enqueue() *)

\* The duplicate test of enqueue; a duplicate returns None, which changes
\* nothing.
EnqueueCheck(t) ==
    /\ status[t] = "absent"
    /\ t \notin checked
    /\ ~KeyExists(t)
    /\ checked' = checked \cup {t}
    /\ UNCHANGED <<tableVars, workerVars, effects, glitches, crashes>>

\* A faulty variant: no unique index on idempotency_key.
InsertWithoutIndex(t) ==
    /\ t \in checked
    /\ checked' = checked \ {t}
    /\ status' = [status EXCEPT ![t] = "PENDING"]
    /\ due' = [due EXCEPT ![t] = TRUE]
    /\ UNCHANGED <<retries, workerVars, effects, glitches, crashes>>

\* The insert, in the same transaction but after other producers may have
\* inserted: the unique index on idempotency_key is the last word.
EnqueueInsert(t) ==
    /\ t \in checked
    /\ ~KeyExists(t)
    /\ checked' = checked \ {t}
    /\ status' = [status EXCEPT ![t] = "PENDING"]
    /\ due' = [due EXCEPT ![t] = TRUE]
    /\ UNCHANGED <<retries, workerVars, effects, glitches, crashes>>

\* The unique index or the connection makes the insert raise: enqueue logs,
\* returns None, and the producer goes on without the task.
EnqueueFails(t) ==
    /\ t \in checked
    /\ checked' = checked \ {t}
    /\ UNCHANGED <<tableVars, workerVars, effects, glitches, crashes>>

-----------------------------------------------------------------------------
(* Workers: WorkerRunner.run *)

\* A faulty variant: the rows are selected without FOR UPDATE SKIP LOCKED.
NoRowLocks(t) == FALSE
RowLocked(t) == \E w \in Workers : pc[w] = "locked" /\ t \in taken[w]
Runnable(t) ==
    /\ status[t] \in {"PENDING", "FAILED"}
    /\ due[t]
    /\ retries[t] < MaxRetries

\* The SELECT of dequeue: ORDER BY priority DESC LIMIT batch_size FOR UPDATE
\* SKIP LOCKED.
Selections ==
    LET free == {t \in Tasks : Runnable(t) /\ ~RowLocked(t)}
    IN  {S \in SUBSET free :
            /\ S # {}
            /\ Cardinality(S) <= BatchSize
            /\ S # free => Cardinality(S) = BatchSize
            /\ \A t \in S, u \in free \ S : Prio[t] >= Prio[u]}

DequeueSelect(w) ==
    /\ pc[w] = "poll"
    /\ \E S \in Selections : taken' = [taken EXCEPT ![w] = S]
    /\ pc' = [pc EXCEPT ![w] = "locked"]
    /\ UNCHANGED <<tableVars, checked, cur, effects, glitches, crashes>>

\* Status RUNNING for the whole batch, committed; the locks are gone.
DequeueCommit(w) ==
    /\ pc[w] = "locked"
    /\ status' = [t \in Tasks |-> IF t \in taken[w] THEN "RUNNING" ELSE status[t]]
    /\ pc' = [pc EXCEPT ![w] = "batch"]
    /\ UNCHANGED <<retries, due, checked, taken, cur, effects, glitches, crashes>>

\* The commit raises: rolled back, the loop sleeps and polls again.
DequeueFails(w) ==
    /\ pc[w] = "locked"
    /\ pc' = [pc EXCEPT ![w] = "poll"]
    /\ taken' = [taken EXCEPT ![w] = {}]
    /\ UNCHANGED <<tableVars, checked, cur, effects, glitches, crashes>>

\* The batch is processed in the order it was selected.
NextInBatch(w) == {t \in taken[w] : \A u \in taken[w] : Prio[t] >= Prio[u]}

\* handler.execute returns.
Execute(w) ==
    /\ pc[w] = "batch"
    /\ \E t \in NextInBatch(w) :
        /\ cur' = [cur EXCEPT ![w] = t]
        /\ effects' = [effects EXCEPT ![t] = @ + 1]
    /\ pc' = [pc EXCEPT ![w] = "executed"]
    /\ UNCHANGED <<tableVars, checked, taken, glitches, crashes>>

\* handler.execute raises (or no handler is registered), with or without its
\* effect having happened: a reply may be lost after a message was delivered.
ExecuteRaises(w) ==
    /\ pc[w] = "batch"
    /\ \E t \in NextInBatch(w), happened \in BOOLEAN :
        /\ cur' = [cur EXCEPT ![w] = t]
        /\ effects' = IF happened THEN [effects EXCEPT ![t] = @ + 1] ELSE effects
        /\ glitches' = IF happened THEN glitches \cup {t} ELSE glitches
    /\ pc' = [pc EXCEPT ![w] = "raised"]
    /\ UNCHANGED <<tableVars, checked, taken, crashes>>

\* After a row is marked the loop takes the next one of the batch, or polls.
Leave(w, rest) ==
    /\ taken' = [taken EXCEPT ![w] = rest]
    /\ cur' = [cur EXCEPT ![w] = NoTask]
    /\ pc' = [pc EXCEPT ![w] = IF rest = {} THEN "poll" ELSE "batch"]

MarkCompleted(w) ==
    /\ pc[w] = "executed"
    /\ status' = [status EXCEPT ![cur[w]] = "COMPLETED"]
    /\ Leave(w, taken[w] \ {cur[w]})
    /\ UNCHANGED <<retries, due, checked, effects, glitches, crashes>>

\* mark_completed raises inside the same try: the handler has succeeded, and
\* the except branch treats the task as failed.
MarkCompletedRaises(w) ==
    /\ pc[w] = "executed"
    /\ pc' = [pc EXCEPT ![w] = "raised"]
    /\ glitches' = glitches \cup {cur[w]}
    /\ UNCHANGED <<tableVars, checked, taken, cur, effects, crashes>>

\* Faulty variants: retry_count is not counted; the row is buried one attempt
\* later than dequeue stops selecting it.
MarkFailedUncounted(w) ==
    /\ pc[w] = "raised"
    /\ status' = [status EXCEPT ![cur[w]] = "FAILED"]
    /\ due' = [due EXCEPT ![cur[w]] = FALSE]
    /\ Leave(w, taken[w] \ {cur[w]})
    /\ UNCHANGED <<retries, checked, effects, glitches, crashes>>
MarkFailedBuriesLate(w) ==
    /\ pc[w] = "raised"
    /\ LET t == cur[w]
           n == retries[t] + 1
       IN  /\ retries' = [retries EXCEPT ![t] = n]
           /\ status' = [status EXCEPT ![t] = IF n > MaxRetries THEN "DEAD" ELSE "FAILED"]
           /\ due' = [due EXCEPT ![t] = FALSE]
    /\ Leave(w, taken[w] \ {cur[w]})
    /\ UNCHANGED <<checked, effects, glitches, crashes>>

MarkFailed(w) ==
    /\ pc[w] = "raised"
    /\ LET t == cur[w]
           n == retries[t] + 1
       IN  /\ retries' = [retries EXCEPT ![t] = n]
           /\ status' = [status EXCEPT ![t] = IF n >= MaxRetries THEN "DEAD" ELSE "FAILED"]
           /\ due' = IF n >= MaxRetries THEN due ELSE [due EXCEPT ![t] = FALSE]
    /\ Leave(w, taken[w] \ {cur[w]})
    /\ UNCHANGED <<checked, effects, glitches, crashes>>

\* mark_failed raises out of _process_task: the loop over the batch ends and
\* nobody processes what is left of it.
MarkFailedRaises(w) ==
    /\ pc[w] = "raised"
    /\ Leave(w, {})
    /\ UNCHANGED <<tableVars, checked, effects, glitches, crashes>>

\* A faulty variant: rows still RUNNING are deleted as well.
CleanupRunning(w) ==
    /\ pc[w] = "poll"
    /\ \E S \in SUBSET {t \in Tasks : status[t] \in {"COMPLETED", "DEAD", "RUNNING"}} :
        /\ S # {}
        /\ status' = [t \in Tasks |-> IF t \in S THEN "deleted" ELSE status[t]]
    /\ UNCHANGED <<retries, due, checked, workerVars, effects, glitches, crashes>>

\* cleanup_old_tasks: the finished rows that are old enough.
CleanupOldTasks(w) ==
    /\ pc[w] = "poll"
    /\ \E S \in SUBSET {t \in Tasks : status[t] \in {"COMPLETED", "DEAD"}} :
        /\ S # {}
        /\ status' = [t \in Tasks |-> IF t \in S THEN "deleted" ELSE status[t]]
    /\ UNCHANGED <<retries, due, checked, workerVars, effects, glitches, crashes>>

\* The process dies (or its task is cancelled): open locks are rolled back,
\* committed rows keep their status, the next process starts polling.
WorkerCrash(w) ==
    /\ crashes < MaxCrashes
    /\ pc[w] # "poll"
    /\ crashes' = crashes + 1
    /\ glitches' = IF pc[w] = "executed" THEN glitches \cup {cur[w]} ELSE glitches
    /\ Leave(w, {})
    /\ UNCHANGED <<tableVars, checked, effects>>

\* The backoff of a failed row is over.
BackoffElapses(t) ==
    /\ status[t] = "FAILED"
    /\ ~due[t]
    /\ due' = [due EXCEPT ![t] = TRUE]
    /\ UNCHANGED <<status, retries, checked, workerVars, effects, glitches, crashes>>

Process(w) ==
    \/ Execute(w) \/ ExecuteRaises(w)
    \/ MarkCompleted(w) \/ MarkCompletedRaises(w)
    \/ MarkFailed(w) \/ MarkFailedRaises(w)

Next ==
    \/ \E t \in Tasks :
        EnqueueCheck(t) \/ EnqueueInsert(t) \/ EnqueueFails(t) \/ BackoffElapses(t)
    \/ \E w \in Workers :
        \/ DequeueSelect(w) \/ DequeueCommit(w) \/ DequeueFails(w)
        \/ Process(w)
        \/ CleanupOldTasks(w)
        \/ WorkerCrash(w)

Spec == Init /\ [][Next]_vars

\* The loop polls again after every sleep and takes every step it can; a clock
\* runs out; a database that keeps failing commits one day commits one.
Fairness ==
    /\ \A w \in Workers :
        WF_vars(DequeueSelect(w)) /\ SF_vars(DequeueCommit(w)) /\ WF_vars(Process(w))
    /\ \A t \in Tasks : WF_vars(BackoffElapses(t))

FairSpec == Spec /\ Fairness

-----------------------------------------------------------------------------

Settled(t) == status[t] \in {"COMPLETED", "DEAD", "deleted"}
\* RUNNING, but in no worker's batch any more.
Abandoned(t) == status[t] = "RUNNING" /\ \A w \in Workers : t \notin taken[w]

\* The types of the columns and of the workers' local state.
TypeOK ==
    /\ status \in [Tasks -> Statuses]
    /\ retries \in [Tasks -> 0..MaxRetries]
    /\ due \in [Tasks -> BOOLEAN]
    /\ checked \subseteq Tasks
    /\ pc \in [Workers -> {"poll", "locked", "batch", "executed", "raised"}]
    /\ taken \in [Workers -> SUBSET Tasks]
    /\ cur \in [Workers -> Tasks \cup {NoTask}]
    /\ effects \in [Tasks -> Nat]
    /\ glitches \subseteq Tasks
    /\ crashes \in 0..MaxCrashes

\* No row is in the hands of two workers, from the SELECT of dequeue to the
\* mark (SKIP LOCKED and the RUNNING status together), and a row a worker is
\* processing is still RUNNING under it.
ExclusiveRows ==
    /\ \A v, w \in Workers : v # w => taken[v] \cap taken[w] = {}
    /\ \A w \in Workers :
        pc[w] \in {"batch", "executed", "raised"} => \A t \in taken[w] : status[t] = "RUNNING"

\* Two producers that race to enqueue the same idempotency key leave one row.
UniqueKeys ==
    \A s, t \in Tasks : s # t /\ SameKey(s, t) => ~(InTable(s) /\ InTable(t))

\* A row is COMPLETED only if its handler's effect happened, and the effect
\* happens twice only for a row whose handler raised after it, whose mark was
\* lost or whose worker died in between.
EffectBeforeCompleted ==
    \A t \in Tasks :
        /\ status[t] = "COMPLETED" => effects[t] >= 1
        /\ effects[t] > 1 => t \in glitches

\* The effect of one row happens at most max_retries times, whatever fails.
EffectsBounded == \A t \in Tasks : effects[t] <= MaxRetries

\* Under the loop's fairness every queued row is completed or buried, unless
\* its worker died or could not write its mark.
EventuallySettledOrAbandoned ==
    \A t \in Tasks : status[t] = "PENDING" ~> Settled(t) \/ Abandoned(t)

\* The design promises that no task is lost: work piled up while a worker is
\* down is processed when it is back.
NoTaskLost == \A t \in Tasks : status[t] = "PENDING" ~> Settled(t)

\* The table implements the outbox the producers see.
phaseBar ==
    [t \in Tasks |->
        CASE status[t] = "absent" -> "new"
          [] status[t] \in {"PENDING", "FAILED"} -> "waiting"
          [] status[t] = "RUNNING" -> "claimed"
          [] status[t] = "COMPLETED" -> "done"
          [] status[t] = "DEAD" -> "buried"
          [] OTHER -> "purged"]

OutboxView == INSTANCE Outbox WITH phase <- phaseBar
ImplementsOutbox == OutboxView!Spec

=============================================================================
