------------------------------- MODULE Outbox --------------------------------
(***************************************************************************)
(* What the task queue promises its producers, without workers, batches,   *)
(* row locks or retries: an accepted task is claimed, its handler's effect *)
(* happens only while it is claimed, it is finished only after its effect, *)
(* and a finished or buried task stays so until it is purged.              *)
(***************************************************************************)
EXTENDS Integers

CONSTANT Tasks

VARIABLES
    phase,      \* where each task is in its life
    effects     \* how often the handler's effect of a task has happened

Phases == {"new", "waiting", "claimed", "done", "buried", "purged"}

Init ==
    /\ phase = [t \in Tasks |-> "new"]
    /\ effects = [t \in Tasks |-> 0]

Move(t, from, to) ==
    /\ phase[t] = from
    /\ phase' = [phase EXCEPT ![t] = to]
    /\ UNCHANGED effects

Accept(t) == Move(t, "new", "waiting")
\* A batch is claimed, and old tasks are purged, by one statement.
Claim(S) ==
    /\ \A t \in S : phase[t] = "waiting"
    /\ phase' = [t \in Tasks |-> IF t \in S THEN "claimed" ELSE phase[t]]
    /\ UNCHANGED effects
Effect(t) ==
    /\ phase[t] = "claimed"
    /\ effects' = [effects EXCEPT ![t] = @ + 1]
    /\ UNCHANGED phase
Finish(t) == effects[t] > 0 /\ Move(t, "claimed", "done")
GiveBack(t) == Move(t, "claimed", "waiting")
Bury(t) == Move(t, "claimed", "buried")
Purge(S) ==
    /\ \A t \in S : phase[t] \in {"done", "buried"}
    /\ phase' = [t \in Tasks |-> IF t \in S THEN "purged" ELSE phase[t]]
    /\ UNCHANGED effects

Next ==
    \/ \E t \in Tasks : \/ Accept(t) \/ Effect(t) \/ Finish(t)
                        \/ GiveBack(t) \/ Bury(t)
    \/ \E S \in SUBSET Tasks : Claim(S) \/ Purge(S)

Spec == Init /\ [][Next]_<<phase, effects>>

=============================================================================
