------------------------ MODULE ImprovementCycleProofs ------------------------
(***************************************************************************)
(* No proposal is attempted twice, for any set of proposals, any number of *)
(* cycles and pauses, and whatever the agents, crashes, timeouts and the   *)
(* synchronisation of files do between two cycles.                         *)
(*                                                                         *)
(* The bound itself is not inductive: what makes it hold is that a row     *)
(* never comes back to "ready" once it has left.  A row that may still be  *)
(* taken up, or one that is not there yet, has had no attempt (Untried);   *)
(* the synchronisation writes only rows that are absent.                   *)
(***************************************************************************)
EXTENDS ImprovementCycle, FiniteSetTheorems, TLAPS

Waiting == {"absent", "draft", "ready"}
DocStates == Waiting \cup {"implemented"}
RowStates == DocStates \cup {"in_flight", "failed", "skipped"}

HarnessTypes ==
    /\ doc \in [Proposals -> DocStates]
    /\ row \in [Proposals -> RowStates]
    /\ attempts \in [Proposals -> Nat]

Untried == \A p \in Proposals : row[p] \in Waiting => attempts[p] = 0

HInv == HarnessTypes /\ Untried /\ AttemptedOnce

\* The harness starts with files, empty rows and no attempts.
LEMMA HInvInit == Init => HInv
BY DEF Init, HInv, HarnessTypes, Untried, AttemptedOnce, Waiting, DocStates, RowStates

\* Taking a proposal in flight is the only attempt; it needs a row that is ready, which
\* has had none, and leaves one that no step takes up again.
LEMMA InFlightOnce ==
    ASSUME HInv, NEW p \in Proposals, NEW c, ToInFlight(p, c), doc' = doc
    PROVE  HInv'
<1>1. row[p] \in Waiting /\ attempts[p] = 0
  BY DEF ToInFlight, HInv, Untried, Waiting
<1>2. attempts' = [attempts EXCEPT ![p] = 1]
  BY <1>1 DEF ToInFlight, HInv, HarnessTypes
<1>3. HarnessTypes'
  BY <1>2 DEF ToInFlight, HInv, HarnessTypes, RowStates
<1>4. Untried'
  BY <1>2 DEF ToInFlight, HInv, HarnessTypes, Untried, Waiting
<1>5. AttemptedOnce'
  BY <1>2 DEF HInv, HarnessTypes, AttemptedOnce
<1> QED
  BY <1>3, <1>4, <1>5 DEF HInv

\* The other marks only move a row to a state from which it is not taken up.
LEMMA LeavesForGood ==
    ASSUME HInv, NEW p \in Proposals, NEW s \in {"implemented", "failed", "skipped"},
           row' = [row EXCEPT ![p] = s], doc' = doc, attempts' = attempts
    PROVE  HInv'
BY DEF HInv, HarnessTypes, Untried, AttemptedOnce, Waiting, DocStates, RowStates

\* The synchronisation gives a state to rows that are absent, which have had no attempt.
LEMMA SyncKeepsHInv == HInv /\ SyncDirectory => HInv'
<1> SUFFICES ASSUME HInv, SyncDirectory PROVE HInv'
  OBVIOUS
<1>1. HarnessTypes'
  BY DEF HInv, SyncDirectory, HarnessTypes, RowStates, DocStates, Waiting
<1>2. \A p \in Proposals : row[p] = row'[p] \/ attempts[p] = 0
  BY DEF HInv, HarnessTypes, Untried, SyncDirectory, Waiting
<1>3. Untried' /\ AttemptedOnce'
  BY <1>2 DEF HInv, HarnessTypes, Untried, AttemptedOnce, SyncDirectory
<1> QED
  BY <1>1, <1>3 DEF HInv

\* Files change only by the analysis, which touches no row.
LEMMA AnalyseKeepsHInv == HInv /\ Analyse => HInv'
BY DEF Analyse, HInv, HarnessTypes, Untried, AttemptedOnce, DocStates, Waiting

\* Every other step leaves the files and the table alone.
LEMMA TableKeepsHInv == HInv /\ UNCHANGED table => HInv'
BY DEF table, HInv, HarnessTypes, Untried, AttemptedOnce

\* One step of the harness, of its agents or of the machine.
LEMMA HInvStep == HInv /\ [Next]_vars => HInv'
<1> SUFFICES ASSUME HInv, [Next]_vars PROVE HInv'
  OBVIOUS
<1>1. CASE SyncDirectory
  BY <1>1, SyncKeepsHInv
<1>2. CASE Analyse
  BY <1>2, AnalyseKeepsHInv
<1>3. ASSUME NEW p \in Proposals, MarkInFlight(p) PROVE HInv'
  BY <1>3, InFlightOnce DEF MarkInFlight
<1>4. ASSUME NEW p \in Proposals, MarkSkipped(p) PROVE HInv'
  BY <1>4, LeavesForGood DEF MarkSkipped, ToSkipped
<1>5. ASSUME NEW p \in Proposals, MarkImplemented(p) PROVE HInv'
  BY <1>5, LeavesForGood DEF MarkImplemented, ToImplemented
<1>6. ASSUME NEW p \in Proposals, MarkFailed(p) PROVE HInv'
  BY <1>6, LeavesForGood DEF MarkFailed, ToFailed
<1>7. ASSUME NEW p \in Proposals, AppendProgress(p) \/ Edit(p) \/ Commit(p) PROVE HInv'
  <2>1. UNCHANGED table
    BY <1>7 DEF AppendProgress, Edit, Commit
  <2> QED
    BY <2>1, TableKeepsHInv
<1>8. CASE \/ CommandAllowed \/ AcquireCycleLock \/ CommandLaunches \/ ReleaseCycleLock
           \/ TriggerScript \/ Timer \/ SetPaused
  <2>1. UNCHANGED table
    BY <1>8 DEF CommandAllowed, AcquireCycleLock, CommandLaunches, ReleaseCycleLock,
                TriggerScript, Timer, SetPaused
  <2> QED
    BY <2>1, TableKeepsHInv
<1>9. CASE CheckPause \/ SyncFails \/ Initialize \/ RunCycle
  <2>1. UNCHANGED table
    BY <1>9 DEF CheckPause, SyncFails, Initialize, RunCycle
  <2> QED
    BY <2>1, TableKeepsHInv
<1>10. CASE \/ Rollback \/ Verify \/ StopBlocked \/ Stop \/ Timeout \/ OrphanWrites
            \/ GoldenCheck \/ FinishClean \/ FinishEdited \/ Crash
  <2>1. UNCHANGED table
    BY <1>10 DEF Rollback, Verify, StopBlocked, Stop, Timeout, OrphanWrites, GoldenCheck,
                 FinishClean, FinishEdited, Crash
  <2> QED
    BY <2>1, TableKeepsHInv
<1>11. CASE UNCHANGED vars
  BY <1>11, TableKeepsHInv DEF vars
<1> QED
  BY <1>1, <1>2, <1>3, <1>4, <1>5, <1>6, <1>7, <1>8, <1>9, <1>10, <1>11 DEF Next

\* A proposal is attempted at most once, over all cycles, crashes and synchronisations.
THEOREM ProposalsAreAttemptedOnce == Spec => []AttemptedOnce
<1>1. Spec => []HInv
  BY HInvInit, HInvStep, PTL DEF Spec
<1>2. HInv => AttemptedOnce
  BY DEF HInv
<1> QED
  BY <1>1, <1>2, PTL

-----------------------------------------------------------------------------
(* The gate of the Stop hook *)

\* A verifier that has not written yet has outlived its session.
GateInv == GateSeesThisCycle /\ orphans \subseteq outlived

\* The artifacts a session stops on are its own, or of a verifier that has outlived its
\* session: run_cycle removes those of the cycles before.
THEOREM GateSeesItsCycle == Spec => []GateSeesThisCycle
<1>1. Init => GateInv
  BY DEF Init, GateInv, GateSeesThisCycle
<1>2. GateInv /\ [Next]_vars => GateInv'
  <2> SUFFICES ASSUME GateInv, [Next]_vars PROVE GateInv'
    OBVIOUS
  <2> USE DEF GateInv, GateSeesThisCycle
  <2>1. CASE UNCHANGED <<pc, cycle, gate>>
    BY <2>1 DEF gate
  <2>2. CASE CheckPause \/ SyncDirectory \/ SyncFails \/ Initialize \/ RunCycle
    BY <2>2 DEF CheckPause, SyncDirectory, SyncFails, Initialize, RunCycle, Step, gate
  <2>3. CASE CommandLaunches \/ TriggerScript \/ Timer
    BY <2>3 DEF CommandLaunches, TriggerScript, Timer, Launch, gate
  <2>4. CASE Verify \/ StopBlocked \/ Stop \/ OrphanWrites
    BY <2>4 DEF Verify, StopBlocked, Stop, OrphanWrites, InSession, Step, gate
  <2>5. CASE Timeout \/ GoldenCheck \/ FinishClean \/ FinishEdited \/ Crash
    BY <2>5 DEF Timeout, GoldenCheck, FinishClean, FinishEdited, Crash, Step, gate
  <2>6. CASE CommandAllowed \/ AcquireCycleLock \/ ReleaseCycleLock \/ SetPaused \/ Analyse
    BY <2>1, <2>6 DEF CommandAllowed, AcquireCycleLock, ReleaseCycleLock, SetPaused, Analyse, job
  <2>7. CASE \/ Rollback
             \/ \E p \in Proposals : \/ MarkInFlight(p) \/ MarkSkipped(p) \/ MarkImplemented(p)
                                     \/ MarkFailed(p) \/ AppendProgress(p) \/ Edit(p) \/ Commit(p)
    BY <2>1, <2>7 DEF Rollback, MarkInFlight, MarkSkipped, MarkImplemented, MarkFailed,
                      AppendProgress, Edit, Commit, job
  <2>8. CASE UNCHANGED vars
    BY <2>1, <2>8 DEF vars, job
  <2> QED
    BY <2>2, <2>3, <2>4, <2>5, <2>6, <2>7, <2>8 DEF Next
<1>3. GateInv => GateSeesThisCycle
  BY DEF GateInv
<1> QED
  BY <1>1, <1>2, <1>3, PTL DEF Spec

-----------------------------------------------------------------------------
(* The progress file *)

Marks == {"in_flight", "implemented", "failed", "skipped"}

\* A proposal is in the one list of what was recorded of it last; a state from which no row
\* moves on is recorded only when the row has it.
ProgressInv ==
    /\ progress \in [Lists -> SUBSET Proposals]
    /\ recorded \in [Proposals -> Marks \cup {"none"}]
    /\ \A p \in Proposals :
          /\ Counted(p) = IF recorded[p] = "none" THEN {} ELSE {ListOf(recorded[p])}
          /\ recorded[p] \in {"none", "in_flight", row[p]}

LEMMA ListsOfMarks ==
    ASSUME NEW s \in Marks
    PROVE  ListOf(s) \in Lists /\ (s = "in_flight" => ListOf(s) = "in_flight")
           /\ ListOf("ready") \in Lists
  BY DEF Marks, ListOf, Lists

\* Rows move on without the file: what is recorded is in flight, or the row's for good.
LEMMA RowsKeepProgress ==
    ASSUME ProgressInv, progress' = progress, recorded' = recorded,
           \A p \in Proposals :
              row'[p] = row[p] \/ row[p] \in {"absent", "draft", "ready", "in_flight"}
    PROVE  ProgressInv'
<1>1. \A p \in Proposals : Counted(p)' = Counted(p)
  BY DEF Counted
<1>2. \A p \in Proposals : recorded[p] \in {"none", "in_flight", row'[p]}
  BY DEF ProgressInv, Marks
<1> QED
  BY <1>1, <1>2 DEF ProgressInv

LEMMA AppendKeepsProgress ==
    ASSUME ProgressInv, NEW p \in Proposals, AppendProgress(p)
    PROVE  ProgressInv'
<1> DEFINE to == row[p]
           from == IF recorded[p] = "none" THEN "ready" ELSE recorded[p]
<1>1. to \in Marks /\ recorded[p] # to /\ row' = row
      /\ progress' = Transition(progress, p, from, to)
      /\ recorded' = [recorded EXCEPT ![p] = to]
  BY DEF AppendProgress, Marks, table
<1>2. ListOf(to) \in Lists /\ ListOf(from) \in Lists
  BY <1>1, ListsOfMarks DEF ProgressInv
<1>3. Counted(p) = IF recorded[p] = "none" THEN {} ELSE {ListOf(from)}
  BY DEF ProgressInv
<1> HIDE DEF to, from
<1>4. /\ progress' \in [Lists -> SUBSET Proposals]
      /\ \A l \in Lists : progress'[l] = IF l = ListOf(to) THEN progress[l] \cup {p}
                                         ELSE IF l = ListOf(from) THEN progress[l] \ {p}
                                         ELSE progress[l]
  BY <1>1 DEF Transition, ProgressInv
<1>5. Counted(p)' = {ListOf(to)}
  BY <1>2, <1>3, <1>4 DEF Counted
<1>6. \A q \in Proposals : q # p => Counted(q)' = Counted(q)
  BY <1>4 DEF Counted
<1>7. to # "none" /\ to = row[p]
  BY <1>1 DEF Marks, to
<1> QED
  BY <1>1, <1>4, <1>5, <1>6, <1>7 DEF ProgressInv

LEMMA ProgressStep == HInv /\ ProgressInv /\ [Next]_vars => ProgressInv'
<1> SUFFICES ASSUME HInv, ProgressInv, [Next]_vars PROVE ProgressInv'
  OBVIOUS
<1>1. CASE UNCHANGED <<row, files>>
  BY <1>1, RowsKeepProgress DEF files
<1>2. ASSUME NEW p \in Proposals,
             MarkInFlight(p) \/ MarkSkipped(p) \/ MarkImplemented(p) \/ MarkFailed(p)
      PROVE  ProgressInv'
  <2>1. \A q \in Proposals :
           row'[q] = row[q] \/ row[q] \in {"absent", "draft", "ready", "in_flight"}
    <3>1. /\ row[p] \in {"draft", "ready", "in_flight"}
          /\ \E s : row' = [row EXCEPT ![p] = s]
      BY <1>2 DEF MarkInFlight, MarkSkipped, MarkImplemented, MarkFailed,
                  ToInFlight, ToSkipped, ToImplemented, ToFailed
    <3>2. PICK s : row' = [row EXCEPT ![p] = s]
      BY <3>1
    <3>3. \A q \in Proposals : q # p => row'[q] = row[q]
      BY <3>2 DEF HInv, HarnessTypes
    <3> QED
      BY <3>1, <3>3
  <2>2. progress' = progress /\ recorded' = recorded
    BY <1>2 DEF MarkInFlight, MarkSkipped, MarkImplemented, MarkFailed, files
  <2> QED
    BY <2>1, <2>2, RowsKeepProgress
<1>3. CASE SyncDirectory
  BY <1>3, RowsKeepProgress DEF SyncDirectory, files
<1>4. CASE Initialize
  BY <1>4 DEF Initialize, ProgressInv, Counted, Empty, Marks
<1>5. CASE CommandAllowed \/ AcquireCycleLock \/ CommandLaunches \/ ReleaseCycleLock
           \/ TriggerScript \/ Timer \/ SetPaused \/ CheckPause \/ Analyse \/ SyncFails \/ RunCycle
  BY <1>1, <1>5 DEF CommandAllowed, AcquireCycleLock, CommandLaunches, ReleaseCycleLock,
                    TriggerScript, Timer, SetPaused, CheckPause, Analyse, SyncFails, RunCycle, table
<1>6. CASE Rollback \/ Verify \/ StopBlocked \/ Stop \/ Timeout \/ OrphanWrites
           \/ GoldenCheck \/ FinishClean \/ FinishEdited \/ Crash
           \/ \E p \in Proposals : Edit(p) \/ Commit(p)
  BY <1>1, <1>6 DEF Rollback, Verify, StopBlocked, Stop, Timeout, OrphanWrites, GoldenCheck,
                    FinishClean, FinishEdited, Crash, Edit, Commit, table
<1>7. CASE UNCHANGED vars
  BY <1>1, <1>7 DEF vars, table
<1> QED
  BY <1>2, <1>3, <1>4, <1>5, <1>6, <1>7, AppendKeepsProgress DEF Next

\* A proposal of the cycle is in one list of the progress file, that of its row or of what it
\* has been on the way there (CycleProgress.transition).
THEOREM ProgressStaysTrue == Spec => []ProgressIsTrue
<1>1. Init => ProgressInv
  BY DEF Init, ProgressInv, Counted, Empty, Marks
<1>2. ProgressInv => ProgressIsTrue
  <2> SUFFICES ASSUME ProgressInv, NEW p \in Proposals
               PROVE  /\ Cardinality(Counted(p)) <= 1
                      /\ Counted(p) \subseteq {"in_flight", ListOf(row[p])}
    BY DEF ProgressIsTrue
  <2>1. CASE recorded[p] = "none"
    BY <2>1, FS_EmptySet DEF ProgressInv
  <2>2. CASE recorded[p] # "none"
    <3>1. Counted(p) = {ListOf(recorded[p])}
      BY <2>2 DEF ProgressInv
    <3>2. Cardinality(Counted(p)) = 1
      BY <3>1, FS_Singleton
    <3>3. ListOf(recorded[p]) \in {"in_flight", ListOf(row[p])}
      BY <2>2 DEF ProgressInv, ListOf
    <3> QED
      BY <3>1, <3>2, <3>3
  <2> QED
    BY <2>1, <2>2
<1> QED
  BY <1>1, <1>2, HInvInit, HInvStep, ProgressStep, PTL DEF Spec
=============================================================================
