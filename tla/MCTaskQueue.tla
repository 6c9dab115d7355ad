----------------------------- MODULE MCTaskQueue -----------------------------
(* Two workers with batches of two; three rows, two of them with one key. *)
EXTENDS TaskQueue

CONSTANTS t1, t2, t3, k

MCKeyOf == [t \in Tasks |-> IF t = t3 THEN NoKey ELSE k]
MCPrio == [t \in Tasks |-> IF t = t3 THEN 10 ELSE 3]

=============================================================================
