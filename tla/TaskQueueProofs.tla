--------------------------- MODULE TaskQueueProofs ---------------------------
(***************************************************************************)
(* Theorems about TaskQueue, for any number of rows, workers, keys,        *)
(* retries and crashes, any batch size and any priorities.  The invariants *)
(* need no fairness: they are proved of Spec.                              *)
(***************************************************************************)
EXTENDS TaskQueue, TLAPS

\* A worker that polls holds nothing; one past a handler holds the row it ran.
WorkerState ==
    \A w \in Workers :
        /\ pc[w] = "poll" => taken[w] = {}
        /\ pc[w] \in {"executed", "raised"} => cur[w] \in taken[w]

\* What the status of a row says about it: a locked row is still waiting, a row
\* about to be inserted is not there, and whatever is not finished has an
\* attempt left.
RowState ==
    /\ \A w \in Workers :
        pc[w] = "locked" => \A t \in taken[w] : status[t] \in {"PENDING", "FAILED"}
    /\ \A t \in checked : status[t] = "absent"
    /\ \A t \in Tasks : status[t] \notin {"DEAD", "deleted"} => retries[t] < MaxRetries

IInv == TypeOK /\ WorkerState /\ RowState /\ ExclusiveRows

\* A row in a batch whose handler has not been called in this attempt.
Unstarted(t) ==
    \E w \in Workers : t \in taken[w] /\ pc[w] \in {"batch", "executed", "raised"}
                       /\ (pc[w] = "batch" \/ cur[w] # t)

\* Attempts and effects: a waiting or unstarted row has had no more effects than
\* counted attempts, one more only while an attempt is open or after its
\* success; an effect without a success is either being marked right now or
\* among the glitches.
EffectState ==
    /\ \A t \in Tasks :
        /\ status[t] = "absent" => effects[t] = 0
        /\ status[t] \in {"PENDING", "FAILED"} => effects[t] <= retries[t]
        /\ status[t] \in {"RUNNING", "COMPLETED"} => effects[t] <= retries[t] + 1
        /\ Unstarted(t) => effects[t] <= retries[t]
        /\ status[t] \in {"PENDING", "FAILED", "RUNNING"} /\ effects[t] >= 1 /\ t \notin glitches
            => \E w \in Workers : pc[w] = "executed" /\ cur[w] = t
    /\ \A w \in Workers : pc[w] = "executed" => effects[cur[w]] >= 1

EffectInv == EffectState /\ EffectBeforeCompleted /\ EffectsBounded

-----------------------------------------------------------------------------
(* Types, the workers' batches and exclusiveness *)

LEMMA InvInit == Init => IInv
BY QueueAssumption
   DEF Init, IInv, TypeOK, WorkerState, RowState, ExclusiveRows, Statuses

LEMMA InvStep == IInv /\ [Next]_vars => IInv'
<1> SUFFICES ASSUME IInv, [Next]_vars  PROVE IInv'
  OBVIOUS
<1> USE QueueAssumption
    DEF IInv, TypeOK, WorkerState, RowState, ExclusiveRows, Statuses
<1>1. ASSUME NEW t \in Tasks, EnqueueCheck(t)  PROVE IInv'
  BY <1>1 DEF EnqueueCheck, tableVars, workerVars
<1>2. ASSUME NEW t \in Tasks, EnqueueInsert(t)  PROVE IInv'
  <2>1. t \notin UNION {taken[w] : w \in Workers}
    BY <1>2 DEF EnqueueInsert
  <2> QED
    BY <1>2, <2>1 DEF EnqueueInsert, workerVars
<1>3. ASSUME NEW t \in Tasks, EnqueueFails(t)  PROVE IInv'
  BY <1>3 DEF EnqueueFails, tableVars, workerVars
<1>4. ASSUME NEW t \in Tasks, BackoffElapses(t)  PROVE IInv'
  BY <1>4 DEF BackoffElapses, workerVars
\* The rows another worker has selected are locked, those it processes RUNNING.
<1>5. ASSUME NEW w \in Workers, DequeueSelect(w)  PROVE IInv'
  <2>1. PICK S \in Selections : taken' = [taken EXCEPT ![w] = S]
    BY <1>5 DEF DequeueSelect
  <2>2. S # {} /\ \A t \in S : t \in Tasks /\ Runnable(t) /\ ~RowLocked(t)
    BY <2>1 DEF Selections
  <2>3. \A v \in Workers : v # w => taken[v] \cap S = {}
    BY <1>5, <2>2 DEF Runnable, RowLocked
  <2> QED
    BY <1>5, <2>1, <2>2, <2>3 DEF DequeueSelect, Runnable, tableVars
<1>6. ASSUME NEW w \in Workers, DequeueCommit(w)  PROVE IInv'
  BY <1>6 DEF DequeueCommit
<1>7. ASSUME NEW w \in Workers, DequeueFails(w)  PROVE IInv'
  BY <1>7 DEF DequeueFails, tableVars
<1>8. ASSUME NEW w \in Workers, Execute(w)  PROVE IInv'
  BY <1>8 DEF Execute, NextInBatch, tableVars
<1>9. ASSUME NEW w \in Workers, ExecuteRaises(w)  PROVE IInv'
  BY <1>9 DEF ExecuteRaises, NextInBatch, tableVars
<1>10. ASSUME NEW w \in Workers, MarkCompleted(w)  PROVE IInv'
  BY <1>10 DEF MarkCompleted, Leave
<1>11. ASSUME NEW w \in Workers, MarkCompletedRaises(w)  PROVE IInv'
  BY <1>11 DEF MarkCompletedRaises, tableVars
\* The row was RUNNING, so it has an attempt left and retry_count stays in range.
<1>12. ASSUME NEW w \in Workers, MarkFailed(w)  PROVE IInv'
  <2>1. cur[w] \in taken[w] /\ status[cur[w]] = "RUNNING"
    BY <1>12 DEF MarkFailed
  <2>2. cur[w] \in Tasks /\ retries[cur[w]] < MaxRetries
    BY <2>1
  <2> QED
    BY <1>12, <2>1, <2>2 DEF MarkFailed, Leave
<1>13. ASSUME NEW w \in Workers, MarkFailedRaises(w)  PROVE IInv'
  BY <1>13 DEF MarkFailedRaises, Leave, tableVars
<1>14. ASSUME NEW w \in Workers, CleanupOldTasks(w)  PROVE IInv'
  BY <1>14 DEF CleanupOldTasks, workerVars
<1>15. ASSUME NEW w \in Workers, WorkerCrash(w)  PROVE IInv'
  BY <1>15 DEF WorkerCrash, Leave, tableVars
<1>16. CASE UNCHANGED vars
  BY <1>16 DEF vars
<1> QED
  BY <1>1, <1>2, <1>3, <1>4, <1>5, <1>6, <1>7, <1>8, <1>9, <1>10, <1>11, <1>12,
     <1>13, <1>14, <1>15, <1>16 DEF Next, Process

LEMMA Invariance == Spec => []IInv
BY InvInit, InvStep, PTL DEF Spec

\* The columns and the workers' local state keep their types; retry_count stays
\* within max_retries although it is compared in dequeue and again in mark_failed.
THEOREM TypeCorrect == Spec => []TypeOK
<1>1. IInv => TypeOK
  BY DEF IInv
<1> QED
  BY <1>1, Invariance, PTL

\* However many workers poll, crash or lose transactions: FOR UPDATE SKIP LOCKED
\* until the commit and the RUNNING status after it leave no row with two workers.
THEOREM RowsAreExclusive == Spec => []ExclusiveRows
<1>1. IInv => ExclusiveRows
  BY DEF IInv
<1> QED
  BY <1>1, Invariance, PTL

-----------------------------------------------------------------------------
(* Idempotency keys *)

\* A row enters the table in enqueue's insert and nowhere else.
LEMMA OnlyInsertAdds ==
    ASSUME IInv, [Next]_vars, ~(\E t \in Tasks : EnqueueInsert(t)),
           NEW s \in Tasks, InTable(s)'
    PROVE  InTable(s)
<1> USE DEF InTable, IInv, TypeOK
<1>1. ASSUME NEW t \in Tasks, EnqueueCheck(t) \/ EnqueueFails(t) \/ BackoffElapses(t)
      PROVE  InTable(s)
  BY <1>1 DEF EnqueueCheck, EnqueueFails, BackoffElapses, tableVars
<1>2. ASSUME NEW w \in Workers,
             \/ DequeueSelect(w) \/ DequeueFails(w) \/ Execute(w) \/ ExecuteRaises(w)
             \/ MarkCompletedRaises(w) \/ MarkFailedRaises(w) \/ WorkerCrash(w)
      PROVE  InTable(s)
  BY <1>2 DEF DequeueSelect, DequeueFails, Execute, ExecuteRaises, MarkCompletedRaises,
              MarkFailedRaises, WorkerCrash, tableVars
<1>3. ASSUME NEW w \in Workers, DequeueCommit(w)  PROVE InTable(s)
  BY <1>3 DEF DequeueCommit, RowState
<1>4. ASSUME NEW w \in Workers, MarkCompleted(w) \/ MarkFailed(w)  PROVE InTable(s)
  <2>1. cur[w] \in taken[w] /\ status[cur[w]] = "RUNNING"
    BY <1>4 DEF MarkCompleted, MarkFailed, WorkerState, ExclusiveRows
  <2> QED
    BY <1>4, <2>1 DEF MarkCompleted, MarkFailed
<1>5. ASSUME NEW w \in Workers, CleanupOldTasks(w)  PROVE InTable(s)
  BY <1>5 DEF CleanupOldTasks
<1>6. CASE UNCHANGED vars
  BY <1>6 DEF vars
<1> QED
  BY <1>1, <1>2, <1>3, <1>4, <1>5, <1>6 DEF Next, Process

LEMMA UniqueStep == IInv /\ UniqueKeys /\ [Next]_vars => UniqueKeys'
<1> SUFFICES ASSUME IInv, UniqueKeys, [Next]_vars  PROVE UniqueKeys'
  OBVIOUS
<1>1. ASSUME NEW t \in Tasks, EnqueueInsert(t)  PROVE UniqueKeys'
  <2>1. \A s \in Tasks : s # t => (InTable(s)' <=> InTable(s))
    BY <1>1 DEF EnqueueInsert, InTable, IInv, TypeOK
  <2>2. \A s \in Tasks : SameKey(s, t) \/ SameKey(t, s) => ~InTable(s)
    BY <1>1 DEF EnqueueInsert, KeyExists, SameKey
  <2>3. \A s, u \in Tasks : SameKey(s, u)' <=> SameKey(s, u)
    BY DEF SameKey
  <2> QED
    BY <2>1, <2>2, <2>3 DEF UniqueKeys
<1>2. CASE ~(\E t \in Tasks : EnqueueInsert(t))
  <2>1. \A s \in Tasks : InTable(s)' => InTable(s)
    BY <1>2, OnlyInsertAdds
  <2>2. \A s, u \in Tasks : SameKey(s, u)' <=> SameKey(s, u)
    BY DEF SameKey
  <2> QED
    BY <2>1, <2>2 DEF UniqueKeys
<1> QED
  BY <1>1, <1>2

\* The duplicate test of enqueue and its insert are separate, so that any number
\* of producers may pass the test together: one row per idempotency key is left.
THEOREM KeysAreUnique == Spec => []UniqueKeys
<1>1. Init => UniqueKeys
  BY DEF Init, UniqueKeys, InTable
<1> QED
  BY <1>1, UniqueStep, Invariance, PTL DEF Spec

-----------------------------------------------------------------------------
(* Effects *)

LEMMA EffectInit == Init => EffectInv
BY QueueAssumption
   DEF Init, EffectInv, EffectState, EffectBeforeCompleted, EffectsBounded, Unstarted

LEMMA EffectStep == IInv /\ IInv' /\ EffectInv /\ [Next]_vars => EffectInv'
<1> SUFFICES ASSUME IInv, IInv', EffectInv, [Next]_vars  PROVE EffectInv'
  OBVIOUS
<1> USE QueueAssumption
    DEF IInv, TypeOK, WorkerState, RowState, ExclusiveRows,
        EffectInv, EffectState, EffectBeforeCompleted, EffectsBounded, Unstarted
<1>1. ASSUME NEW t \in Tasks, EnqueueCheck(t)  PROVE EffectInv'
  BY <1>1 DEF EnqueueCheck, tableVars, workerVars
<1>2. ASSUME NEW t \in Tasks, EnqueueInsert(t)  PROVE EffectInv'
  BY <1>2 DEF EnqueueInsert, workerVars
<1>3. ASSUME NEW t \in Tasks, EnqueueFails(t)  PROVE EffectInv'
  BY <1>3 DEF EnqueueFails, tableVars, workerVars
<1>4. ASSUME NEW t \in Tasks, BackoffElapses(t)  PROVE EffectInv'
  BY <1>4 DEF BackoffElapses, workerVars
<1>5. ASSUME NEW w \in Workers, DequeueSelect(w)  PROVE EffectInv'
  BY <1>5 DEF DequeueSelect, tableVars
<1>6. ASSUME NEW w \in Workers, DequeueCommit(w)  PROVE EffectInv'
  BY <1>6 DEF DequeueCommit
<1>7. ASSUME NEW w \in Workers, DequeueFails(w)  PROVE EffectInv'
  BY <1>7 DEF DequeueFails, tableVars
\* The row is unstarted, in this worker's batch and in no other.
<1>8. ASSUME NEW w \in Workers, Execute(w)  PROVE EffectInv'
  BY <1>8 DEF Execute, NextInBatch, tableVars
<1>9. ASSUME NEW w \in Workers, ExecuteRaises(w)  PROVE EffectInv'
  BY <1>9 DEF ExecuteRaises, NextInBatch, tableVars
<1>10. ASSUME NEW w \in Workers, MarkCompleted(w)  PROVE EffectInv'
  BY <1>10 DEF MarkCompleted, Leave
<1>11. ASSUME NEW w \in Workers, MarkCompletedRaises(w)  PROVE EffectInv'
  BY <1>11 DEF MarkCompletedRaises, tableVars
\* The attempt is counted: the open attempt's effect moves below retry_count.
<1>12. ASSUME NEW w \in Workers, MarkFailed(w)  PROVE EffectInv'
  BY <1>12 DEF MarkFailed, Leave
<1>13. ASSUME NEW w \in Workers, MarkFailedRaises(w)  PROVE EffectInv'
  BY <1>13 DEF MarkFailedRaises, Leave, tableVars
<1>14. ASSUME NEW w \in Workers, CleanupOldTasks(w)  PROVE EffectInv'
  BY <1>14 DEF CleanupOldTasks, workerVars
<1>15. ASSUME NEW w \in Workers, WorkerCrash(w)  PROVE EffectInv'
  BY <1>15 DEF WorkerCrash, Leave, tableVars
<1>16. CASE UNCHANGED vars
  BY <1>16 DEF vars
<1> QED
  BY <1>1, <1>2, <1>3, <1>4, <1>5, <1>6, <1>7, <1>8, <1>9, <1>10, <1>11, <1>12,
     <1>13, <1>14, <1>15, <1>16 DEF Next, Process

LEMMA EffectInvariance == Spec => []EffectInv
BY EffectInit, EffectStep, Invariance, PTL DEF Spec

\* A COMPLETED row's handler has had its effect, and one that had it twice was
\* disturbed after the first: it raised, or its mark or its worker was lost.
THEOREM CompletedHadEffect == Spec => []EffectBeforeCompleted
<1>1. EffectInv => EffectBeforeCompleted
  BY DEF EffectInv
<1> QED
  BY <1>1, EffectInvariance, PTL

\* max_retries bounds the effects of a row, not only its counted failures: an
\* attempt that is not counted (a lost mark, a dead worker) is never repeated.
THEOREM EffectsAreBounded == Spec => []EffectsBounded
<1>1. EffectInv => EffectsBounded
  BY DEF EffectInv
<1> QED
  BY <1>1, EffectInvariance, PTL

-----------------------------------------------------------------------------
(* The table implements the outbox *)

LEMMA OutboxInit == Init => OutboxView!Init
BY DEF Init, OutboxView!Init, phaseBar

LEMMA OutboxStep ==
    IInv /\ EffectInv /\ [Next]_vars => [OutboxView!Next]_<<phaseBar, effects>>
<1> SUFFICES ASSUME IInv, EffectInv, [Next]_vars
             PROVE  OutboxView!Next \/ UNCHANGED <<phaseBar, effects>>
  OBVIOUS
<1> USE DEF IInv, TypeOK, Statuses
\* Steps the producers do not see.
<1>1. ASSUME status' = status, effects' = effects
      PROVE  UNCHANGED <<phaseBar, effects>>
  BY <1>1 DEF phaseBar
<1>2. ASSUME NEW t \in Tasks, EnqueueCheck(t) \/ EnqueueFails(t) \/ BackoffElapses(t)
      PROVE  UNCHANGED <<phaseBar, effects>>
  BY <1>1, <1>2 DEF EnqueueCheck, EnqueueFails, BackoffElapses, tableVars
<1>3. ASSUME NEW w \in Workers,
             \/ DequeueSelect(w) \/ DequeueFails(w) \/ MarkCompletedRaises(w)
             \/ MarkFailedRaises(w) \/ WorkerCrash(w)
      PROVE  UNCHANGED <<phaseBar, effects>>
  BY <1>1, <1>3 DEF DequeueSelect, DequeueFails, MarkCompletedRaises, MarkFailedRaises,
                    WorkerCrash, tableVars
\* Steps they see.
<1>4. ASSUME NEW t \in Tasks, EnqueueInsert(t)  PROVE OutboxView!Accept(t)
  BY <1>4 DEF EnqueueInsert, RowState, OutboxView!Accept, OutboxView!Move, phaseBar
<1>5. ASSUME NEW w \in Workers, DequeueCommit(w)  PROVE OutboxView!Claim(taken[w])
  BY <1>5 DEF DequeueCommit, RowState, OutboxView!Claim, phaseBar
<1>6. ASSUME NEW w \in Workers, pc[w] = "batch", NEW t \in taken[w],
             status' = status, effects' = [effects EXCEPT ![t] = @ + 1]
      PROVE  t \in Tasks /\ OutboxView!Effect(t)
  BY <1>6 DEF ExclusiveRows, OutboxView!Effect, phaseBar
<1>7. ASSUME NEW w \in Workers, Execute(w)  PROVE OutboxView!Next
  BY <1>6, <1>7 DEF Execute, NextInBatch, tableVars, OutboxView!Next
<1>8. ASSUME NEW w \in Workers, ExecuteRaises(w)
      PROVE  OutboxView!Next \/ UNCHANGED <<phaseBar, effects>>
  BY <1>1, <1>6, <1>8 DEF ExecuteRaises, NextInBatch, tableVars, OutboxView!Next
<1>9. ASSUME NEW w \in Workers, pc[w] \in {"executed", "raised"}
      PROVE  cur[w] \in Tasks /\ status[cur[w]] = "RUNNING"
  BY <1>9 DEF WorkerState, ExclusiveRows
<1>10. ASSUME NEW w \in Workers, MarkCompleted(w)  PROVE OutboxView!Finish(cur[w])
  <2>1. effects[cur[w]] >= 1
    BY <1>10 DEF MarkCompleted, EffectInv, EffectState
  <2> QED
    BY <1>9, <1>10, <2>1 DEF MarkCompleted, OutboxView!Finish, OutboxView!Move, phaseBar
<1>11. ASSUME NEW w \in Workers, MarkFailed(w)
       PROVE  OutboxView!GiveBack(cur[w]) \/ OutboxView!Bury(cur[w])
  BY <1>9, <1>11 DEF MarkFailed, OutboxView!GiveBack, OutboxView!Bury, OutboxView!Move,
                     phaseBar
<1>12. ASSUME NEW w \in Workers, CleanupOldTasks(w)
       PROVE  \E S \in SUBSET Tasks : OutboxView!Purge(S)
  BY <1>12 DEF CleanupOldTasks, OutboxView!Purge, phaseBar
<1>13. CASE UNCHANGED vars
  BY <1>1, <1>13 DEF vars
<1> QED
  BY <1>2, <1>3, <1>4, <1>5, <1>7, <1>8, <1>9, <1>10, <1>11, <1>12, <1>13
     DEF Next, Process, MarkCompleted, MarkFailed, OutboxView!Next

\* Every behaviour of the table, its workers and their failures is, seen through
\* the status column, a behaviour of the outbox the producers count on.
THEOREM TableImplementsOutbox == Spec => ImplementsOutbox
BY OutboxInit, OutboxStep, Invariance, EffectInvariance, PTL
   DEF Spec, ImplementsOutbox, OutboxView!Spec

=============================================================================
