---------------------------- MODULE ImprovementCycle ----------------------------
(***************************************************************************)
(* The improvement harness: proposals, written as files by an analysis,    *)
(* are taken into the proposals table, and the job com.kis.autoimplement   *)
(* lets a coordinator implement those that are ready.  The coordinator and *)
(* its agents (a language model) are external: whatever they do, they do   *)
(* with the scripts of scripts/harness, in the order of their prompt.      *)
(*                                                                         *)
(* The job checks the pause lock, synchronises the table, runs one cycle,  *)
(* and restarts the trading service if its gates let it.  launchd runs the *)
(* job once at a time; the bot's /run_implement and the trigger script ask *)
(* it to start the job after a look at the locks.                          *)
(***************************************************************************)
EXTENDS Naturals, FiniteSets

CONSTANTS
    Proposals,      \* paths of proposal files
    RealEnv,        \* KIS_ENV = real
    MaxCycles,      \* bound: cycles
    MaxPauses       \* bound: /pause_implement

Nobody == 0

\* The lists of claude-progress.json.
Lists == {"pending", "in_flight", "completed", "failed", "skipped"}

\* The list a state's label belongs to.
ListOf(state) ==
    CASE state \in {"pending", "ready"} -> "pending"
      [] state \in {"implemented", "completed"} -> "completed"
      [] OTHER -> state

VARIABLES
    doc,         \* the state each file declares, or "absent"
    row,         \* proposals.state, or "absent"
    owner,       \* proposals.cycle_id, Nobody for NULL
    attempts,    \* history: times a proposal was taken in flight
    progress,    \* claude-progress.json: the proposals of each list
    recorded,    \* history: the state each proposal's last transition has recorded
    paused,      \* the pause lock exists
    cycleLock,   \* the cycle lock exists
    command,     \* where /run_implement is: "idle", "allowed", "locked", "asked"
    pauses,
    pc,          \* where the job is, "idle" when it does not run
    cycle,       \* the number that stands for the id of the latest cycle
    blocked,     \* the Stop hook has blocked the session once
    artifacts,   \* the cycle whose verifier wrote the artifacts file, Nobody if absent
    orphans,     \* cycles timed out while their verifier was at work
    outlived,    \* history: all those cycles
    exits,       \* exit codes of the job's steps, TRUE for 0
    change,      \* what a proposal has changed: "no", "edited", "committed"
    last,        \* the proposals of the last commit
    unchecked,   \* proposals whose change no verifier has passed
    junit,       \* .verifier-junit.xml: "none", "pass", "fail" or "broken"
    mention,     \* the day's log contains the word "implemented"
    deployed     \* proposals whose change the restarted service runs

table == <<doc, row, owner, attempts>>
files == <<progress, recorded>>
locks == <<paused, cycleLock, command, pauses>>
gate == <<blocked, artifacts, orphans, outlived>>
job == <<pc, cycle, gate, exits>>
tree == <<change, last, unchecked, junit>>
vars == <<table, files, locks, job, tree, mention, deployed>>

Empty == [l \in Lists |-> {}]

Init ==
    /\ doc \in [Proposals -> {"absent", "draft", "ready"}]
    /\ row = [p \in Proposals |-> "absent"] /\ owner = [p \in Proposals |-> Nobody]
    /\ attempts = [p \in Proposals |-> 0]
    /\ progress = Empty /\ recorded = [p \in Proposals |-> "none"]
    /\ paused = FALSE /\ cycleLock = FALSE /\ command = "idle" /\ pauses = 0
    /\ pc = "idle" /\ cycle = 0 /\ blocked = FALSE /\ artifacts = Nobody
    /\ orphans = {} /\ outlived = {}
    /\ exits = [cycle |-> TRUE, golden |-> TRUE]
    /\ change = [p \in Proposals |-> "no"] /\ last = {} /\ unchecked = {}
    /\ junit = "none" /\ mention = FALSE /\ deployed = {}

-----------------------------------------------------------------------------
(* Starting the job *)

\* can_trigger; no caller passes last_completed_at, so no interval is kept.
CanTrigger(market, force) ==
    /\ ~paused /\ ~cycleLock
    /\ RealEnv /\ market => force

\* launchctl start: of no effect while the job runs.
Launch == pc' = IF pc = "idle" THEN "started" ELSE pc

\* cmd_run_implement, with the waits between its steps; the finally releases the lock.
CommandAllowed ==
    /\ command = "idle"
    /\ \E market, force \in BOOLEAN : CanTrigger(market, force)
    /\ command' = "allowed"
    /\ UNCHANGED <<table, files, paused, cycleLock, pauses, job, tree, mention,
                   deployed>>

AcquireCycleLock ==
    /\ command = "allowed"
    /\ command' = "locked" /\ cycleLock' = TRUE
    /\ UNCHANGED <<table, files, paused, pauses, job, tree, mention, deployed>>

CommandLaunches ==
    /\ command = "locked" /\ cycle < MaxCycles
    /\ Launch /\ command' = "asked"
    /\ UNCHANGED <<table, files, paused, cycleLock, pauses, cycle, gate, exits, tree,
                   mention, deployed>>

ReleaseCycleLock ==
    /\ command = "asked"
    /\ command' = "idle" /\ cycleLock' = FALSE
    /\ UNCHANGED <<table, files, paused, pauses, job, tree, mention, deployed>>

\* trigger_implement.sh: the same guard, and no lock.
TriggerScript ==
    /\ cycle < MaxCycles /\ pc = "idle"
    /\ \E market, force \in BOOLEAN : CanTrigger(market, force)
    /\ Launch
    /\ UNCHANGED <<table, files, locks, cycle, gate, exits, tree, mention, deployed>>

\* 17:00: the first start of a day has a log of its own.
Timer ==
    /\ cycle < MaxCycles /\ pc = "idle"
    /\ Launch /\ mention' = FALSE
    /\ UNCHANGED <<table, files, locks, cycle, gate, exits, tree, deployed>>

\* cmd_pause_implement, and its resume.
SetPaused ==
    /\ \/ ~paused /\ pauses < MaxPauses /\ pauses' = pauses + 1
       \/ paused /\ pauses' = pauses
    /\ paused' = ~paused
    /\ UNCHANGED <<table, files, cycleLock, command, job, tree, mention, deployed>>

-----------------------------------------------------------------------------
(* The job: run_auto_implement.sh *)

Step(from, to) == pc = from /\ pc' = to

CheckPause ==
    /\ Step("started", IF paused THEN "idle" ELSE "sync")
    /\ UNCHANGED <<table, files, locks, cycle, gate, exits, tree, mention, deployed>>

\* The analysis writes a file, or raises its state; a person may have implemented it.
Analyse ==
    /\ \E p \in Proposals, s \in {"ready", "implemented"} :
        /\ doc[p] \in {"absent", "draft"}
        /\ doc' = [doc EXCEPT ![p] = s]
    /\ UNCHANGED <<row, owner, attempts, files, locks, job, tree, mention, deployed>>

\* A mutated form: rows that exist take over the state of their file.
SyncRefreshing ==
    LET new == {p \in Proposals : doc[p] # "absent"}
    IN  /\ Step("sync", "init")
        /\ row' = [p \in Proposals |-> IF p \in new THEN doc[p] ELSE row[p]]
        /\ mention' = (mention \/ \E p \in new : doc[p] = "implemented")
        /\ UNCHANGED <<doc, owner, attempts, files, locks, cycle, gate, exits, tree,
                   deployed>>

\* sync_directory: a path the table knows is skipped.  The log names the state of each
\* new row.
SyncDirectory ==
    LET new == {p \in Proposals : doc[p] # "absent" /\ row[p] = "absent"}
    IN  /\ Step("sync", "init")
        /\ row' = [p \in Proposals |-> IF p \in new THEN doc[p] ELSE row[p]]
        /\ mention' = (mention \/ \E p \in new : doc[p] = "implemented")
        /\ UNCHANGED <<doc, owner, attempts, files, locks, cycle, gate, exits, tree,
                   deployed>>

\* Without a database the sync fails, and `set -e` ends the job.
SyncFails ==
    /\ Step("sync", "idle")
    /\ UNCHANGED <<table, files, locks, cycle, gate, exits, tree, mention, deployed>>

\* Initializer.run: a new id and an empty progress file.  A failed check is logged, and
\* the cycle goes on; the prompt alone tells the coordinator to heed it.
Initialize ==
    /\ cycle < MaxCycles
    /\ Step("init", "prepared")
    /\ cycle' = cycle + 1 /\ progress' = Empty
    /\ recorded' = [p \in Proposals |-> "none"]
    /\ UNCHANGED <<table, locks, gate, exits, tree, mention, deployed>>

\* A mutated form: the artifacts stay where they are.
RunCycleOverOld ==
    /\ Step("prepared", "session")
    /\ blocked' = FALSE
    /\ UNCHANGED <<table, files, locks, cycle, artifacts, orphans, outlived, exits,
                   tree, mention, deployed>>

\* run_cycle removes the artifacts of the cycles before and starts the coordinator.
RunCycle ==
    /\ Step("prepared", "session")
    /\ artifacts' = Nobody /\ blocked' = FALSE
    /\ UNCHANGED <<table, files, locks, cycle, orphans, outlived, exits, tree, mention,
                   deployed>>

-----------------------------------------------------------------------------
(* The scripts, as the agents use them *)

InSession == pc = "session"

\* ProposalRepository.mark_*: from any other state they raise, and nothing changes.
ToInFlight(p, c) ==
    /\ row[p] = "ready"
    /\ row' = [row EXCEPT ![p] = "in_flight"] /\ owner' = [owner EXCEPT ![p] = c]
    /\ attempts' = [attempts EXCEPT ![p] = @ + 1]

ToImplemented(p) ==
    /\ row[p] = "in_flight"
    /\ row' = [row EXCEPT ![p] = "implemented"] /\ owner' = [owner EXCEPT ![p] = Nobody]

ToFailed(p) ==
    /\ row[p] = "in_flight"
    /\ row' = [row EXCEPT ![p] = "failed"] /\ owner' = [owner EXCEPT ![p] = Nobody]

ToSkipped(p) ==
    /\ row[p] \in {"ready", "draft"}
    /\ row' = [row EXCEPT ![p] = "skipped"]

\* The scripts pipeline_mark_*.py: find by path, mark, commit.  The implementer takes a
\* proposal, the validator skips one, and the verifier's agent judges those of its cycle.
MarkInFlight(p) ==
    /\ InSession /\ ToInFlight(p, cycle)
    /\ UNCHANGED <<doc, files, locks, job, tree, mention, deployed>>

MarkSkipped(p) ==
    /\ InSession /\ ToSkipped(p)
    /\ UNCHANGED <<doc, owner, attempts, files, locks, job, tree, mention, deployed>>

MarkImplemented(p) ==
    /\ InSession /\ owner[p] = cycle /\ change[p] = "committed" /\ p \notin unchecked
    /\ ToImplemented(p)
    /\ UNCHANGED <<doc, attempts, files, locks, job, tree, mention, deployed>>

MarkFailed(p) ==
    /\ InSession /\ owner[p] = cycle /\ ToFailed(p)
    /\ UNCHANGED <<doc, attempts, files, locks, job, tree, mention, deployed>>

\* A mutated form: it leaves the proposal in the list it comes from.
TransitionAdds(lists, p, from, to) ==
    [lists EXCEPT ![ListOf(to)] = @ \cup {p}]

\* CycleProgress.transition: into the list of the new state, out of that of the old one.
Transition(lists, p, from, to) ==
    [l \in Lists |-> IF l = ListOf(to) THEN lists[l] \cup {p}
                     ELSE IF l = ListOf(from) THEN lists[l] \ {p} ELSE lists[l]]

\* pipeline_append_progress.py, after a mark: one agent at a time writes the file.
AppendProgress(p) ==
    /\ InSession /\ row[p] \in {"in_flight", "implemented", "failed", "skipped"}
    /\ recorded[p] # row[p] /\ (row[p] = "in_flight" => owner[p] = cycle)
    /\ progress' = Transition(progress, p,
                      IF recorded[p] = "none" THEN "ready" ELSE recorded[p], row[p])
    /\ recorded' = [recorded EXCEPT ![p] = row[p]]
    /\ UNCHANGED <<table, locks, job, tree, mention, deployed>>

\* An implementer edits and commits what it has in flight.
Edit(p) ==
    /\ InSession /\ row[p] = "in_flight" /\ owner[p] = cycle /\ change[p] = "no"
    /\ change' = [change EXCEPT ![p] = "edited"] /\ unchecked' = unchecked \cup {p}
    /\ UNCHANGED <<table, files, locks, job, last, junit, mention, deployed>>

Commit(p) ==
    /\ InSession /\ change[p] = "edited"
    /\ change' = [change EXCEPT ![p] = "committed"] /\ last' = {p}
    /\ UNCHANGED <<table, files, locks, job, unchecked, junit, mention, deployed>>

\* rollback-handler: back to the last safe tag, and no file is left edited.
Rollback ==
    /\ InSession /\ \E p \in Proposals : change[p] # "no" /\ row[p] = "failed"
    /\ change' = [p \in Proposals |-> "no"] /\ last' = {} /\ unchecked' = {}
    /\ UNCHANGED <<table, files, locks, job, junit, mention, deployed>>

-----------------------------------------------------------------------------
(* The verifier and the gates *)

\* What the outputs of the tools come to.  ruff: a list of violations, or no list at all.
RuffPassed(out) == out = "no violations"

\* mypy: its summary must tell of files it checked, and of the errors only those in
\* changed files count; it may stop at an error before it has checked anything.
MypyPassed(out) == out \in {"success", "errors elsewhere"}

\* pytest: the counts of the junit file, which may be missing or broken.
PytestPassed(file) == file = "pass"

\* evaluate_contract: each of the four proofs must be there and be passed.
Contract(ruff, mypy, pytest, diff) == ruff /\ mypy /\ pytest /\ diff # {}

\* VerifierRunner.run over the commits of a diff; a tool with no changed file of its kind
\* passes unrun.  A pytest that dies leaves the junit file as an earlier run wrote it.
PytestRuns ==
    {[passed |-> TRUE, junit |-> junit]} \cup
    {[passed |-> PytestPassed(file), junit |-> file] :
        file \in {junit, "pass", "fail", "broken"}}

Verdicts(diff) ==
    {[tests EXCEPT !.passed = Contract(RuffPassed(ruff), MypyPassed(mypy), @, diff)] :
        ruff \in {"no violations", "violations", "no list"},
        mypy \in {"success", "errors elsewhere", "errors", "stopped", "no summary"},
        tests \in PytestRuns}

RunVerifier(diff, verdict) ==
    /\ junit' = verdict.junit
    /\ unchecked' = IF verdict.passed THEN unchecked \ diff ELSE unchecked

Committed == {p \in Proposals : change[p] = "committed" /\ owner[p] = cycle}

\* run_verifier.py in the session: any verdict writes the artifacts.
Verify ==
    /\ InSession
    /\ \E verdict \in Verdicts(Committed) : RunVerifier(Committed, verdict)
    /\ artifacts' = cycle
    /\ UNCHANGED <<table, files, locks, pc, cycle, blocked, orphans, outlived, exits,
                   change, last, mention, deployed>>

\* The Stop hook asks for the artifacts of pytest, mypy and ruff, whatever they say; the
\* verifier writes all three.  Without them it blocks once, and the second time lets go.
ArtifactsThere == artifacts # Nobody

StopBlocked ==
    /\ InSession /\ ~ArtifactsThere /\ ~blocked
    /\ blocked' = TRUE
    /\ UNCHANGED <<table, files, locks, pc, cycle, artifacts, orphans, outlived, exits,
                   tree, mention, deployed>>

Stop ==
    /\ Step("session", "golden")
    /\ ArtifactsThere \/ blocked
    /\ exits' = [exits EXCEPT !.cycle = TRUE]
    /\ UNCHANGED <<table, files, locks, cycle, gate, tree, mention, deployed>>

\* subprocess.run kills the coordinator after an hour; a verifier it ran may outlive it.
Timeout ==
    /\ Step("session", "golden")
    /\ \E left \in {{}, {cycle}} :
        orphans' = orphans \cup left /\ outlived' = outlived \cup left
    /\ exits' = [exits EXCEPT !.cycle = FALSE]
    /\ UNCHANGED <<table, files, locks, cycle, blocked, artifacts, tree, mention,
                   deployed>>

OrphanWrites ==
    /\ \E c \in orphans : artifacts' = c /\ orphans' = orphans \ {c}
    /\ UNCHANGED <<table, files, locks, pc, cycle, blocked, outlived, exits, tree,
                   mention, deployed>>

GoldenCheck ==
    /\ Step("golden", "verify")
    /\ \E passed \in BOOLEAN : exits' = [exits EXCEPT !.golden = passed]
    /\ UNCHANGED <<table, files, locks, cycle, gate, tree, mention, deployed>>

\* The gate before the restart: the verifier runs if a tracked file is edited, on the
\* last commit, and passes otherwise.
Gates(verified) == exits.cycle /\ exits.golden /\ verified /\ mention

Restart(verified) ==
    deployed' = IF Gates(verified) THEN {p \in Proposals : change[p] # "no"} ELSE deployed

FinishClean ==
    /\ Step("verify", "idle")
    /\ \A p \in Proposals : change[p] # "edited"
    /\ Restart(TRUE)
    /\ UNCHANGED <<table, files, locks, cycle, gate, exits, tree, mention>>

FinishEdited ==
    /\ Step("verify", "idle")
    /\ \E p \in Proposals : change[p] = "edited"
    /\ \E verdict \in Verdicts(last) :
        RunVerifier(last, verdict) /\ Restart(verdict.passed)
    /\ UNCHANGED <<table, files, locks, cycle, gate, exits, change, last, mention>>

\* The machine goes down under the job; files, tree and table stay.
Crash ==
    /\ pc # "idle" /\ pc' = "idle" /\ orphans' = {}
    /\ UNCHANGED <<table, files, locks, cycle, blocked, artifacts, outlived, exits, tree,
                   mention, deployed>>

Next ==
    \/ CommandAllowed \/ AcquireCycleLock \/ CommandLaunches \/ ReleaseCycleLock
    \/ TriggerScript \/ Timer \/ SetPaused
    \/ CheckPause \/ Analyse \/ SyncDirectory \/ SyncFails \/ Initialize \/ RunCycle
    \/ \E p \in Proposals :
        \/ MarkInFlight(p) \/ MarkSkipped(p) \/ MarkImplemented(p) \/ MarkFailed(p)
        \/ AppendProgress(p) \/ Edit(p) \/ Commit(p)
    \/ Rollback \/ Verify \/ StopBlocked \/ Stop \/ Timeout \/ OrphanWrites
    \/ GoldenCheck \/ FinishClean \/ FinishEdited \/ Crash

Spec == Init /\ [][Next]_vars

-----------------------------------------------------------------------------
(* Properties *)

\* A proposal is attempted at most once, over all cycles, crashes and synchronisations:
\* what a cycle has left in flight, no later cycle takes up.
AttemptedOnce == \A p \in Proposals : attempts[p] <= 1

\* "So that the artifacts of an earlier cycle do not pass this cycle's gate": the Stop hook
\* lets a session go at its first attempt on artifacts of its own cycle only, or of a
\* verifier that has outlived its session.
GateSeesThisCycle == pc = "session" => artifacts \in {Nobody, cycle} \cup outlived

\* "The lists must be kept for the counts to be right": a proposal of the cycle is counted
\* once, as what the table says or as what it has been on the way there.
Counted(p) == {l \in Lists : p \in progress[l]}
ProgressIsTrue ==
    \A p \in Proposals :
        /\ Cardinality(Counted(p)) <= 1
        /\ Counted(p) \subseteq {"in_flight", ListOf(row[p])}

\* "The restart gate's verifier has the final say": what the script restarts the service
\* with has passed a verifier.
OnlyVerifiedRestarts ==
    [][deployed' # deployed => deployed' \cap unchecked' = {}]_vars
=============================================================================
