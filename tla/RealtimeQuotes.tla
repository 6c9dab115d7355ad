--------------------------- MODULE RealtimeQuotes ---------------------------
(***************************************************************************)
(* KISWebSocketManager of src/api/websocket.py: one connection, the stocks *)
(* subscribed on it, and the reconnection that restores them.  The         *)
(* receive loop and the callers of subscribe, unsubscribe and disconnect   *)
(* are coroutines that interleave at the debounce and at every send.       *)
(*                                                                         *)
(* Assumed of the owner: connect is called while no receive task runs.     *)
(***************************************************************************)
EXTENDS Integers, FiniteSets

CONSTANTS
    Users,              \* coroutines that subscribe and unsubscribe
    Codes,              \* stock codes
    MaxSubscriptions,   \* MAX_SUBSCRIPTIONS
    MaxReconnect,       \* _max_reconnect
    MaxDrops            \* bound: connections the server drops

VARIABLES
    state,      \* _state
    ws,         \* _ws is a connection
    alive,      \* that connection still exists
    server,     \* codes the server sends on it
    subs,       \* _subscriptions
    loop,       \* the receive task: "none", "recv", "backoff", "restore"
    saved,      \* saved_subscriptions still to be restored, by the reconnect
    wanted,     \* saved_subscriptions
    attempts,   \* _reconnect_count
    call,       \* each user's call: its operation, code and place
    left,       \* codes connect found listed and did not tell the server of
    drops

quoteVars == <<state, ws, alive, server, subs, loop, saved, wanted, attempts, call, left, drops>>
conn == <<ws, alive, loop, saved, wanted, attempts, left, drops>>

Task == "receive task"
Callers == Users \cup {Task}
NoCall == [op |-> "none", code |-> "none", at |-> "idle"]
Usable == state \in {"CONNECTED", "ACTIVE"}

\* The calls whose send is under way when the connection goes.
SendsLost == [u \in Callers |-> IF call[u].at = "send" THEN [call[u] EXCEPT !.at = "failed"] ELSE call[u]]

Init ==
    /\ state = "DISCONNECTED" /\ ws = FALSE /\ alive = FALSE
    /\ server = {} /\ subs = {} /\ loop = "none" /\ saved = {} /\ wanted = {}
    /\ attempts = 0 /\ left = {} /\ drops = 0 /\ call = [u \in Callers |-> NoCall]

\* A refused connection leaves everything as it was.  The list of an earlier
\* connection that was given up is not cleared.
Connect ==
    /\ state = "DISCONNECTED" /\ loop = "none"
    /\ state' = "CONNECTED" /\ ws' = TRUE /\ alive' = TRUE /\ server' = {}
    /\ attempts' = 0 /\ loop' = "recv" /\ left' = subs
    /\ UNCHANGED <<subs, saved, wanted, call, drops>>

\* Unsubscribes what is listed, cancels the receive task, closes.  During a
\* backoff the state is DISCONNECTED and the call does nothing; one that raises when it
\* unsubscribes on a dead connection is left out.
Disconnect ==
    /\ state # "DISCONNECTED" /\ (ws => alive \/ subs = {})
    /\ state' = "DISCONNECTED" /\ ws' = FALSE /\ alive' = FALSE /\ server' = {} /\ subs' = {}
    /\ loop' = "none" /\ saved' = {} /\ wanted' = {} /\ left' = {}
    /\ call' = [SendsLost EXCEPT ![Task] = NoCall]
    /\ UNCHANGED <<attempts, drops>>

-----------------------------------------------------------------------------
(* subscribe and unsubscribe: the tests, the debounce, the send *)

Subscribe(u, c) ==
    /\ call[u] = NoCall /\ Usable
    /\ c \notin subs /\ Cardinality(subs) < MaxSubscriptions
    /\ call' = [call EXCEPT ![u] = [op |-> "add", code |-> c, at |-> "debounce"]]
    /\ UNCHANGED <<state, server, subs, conn>>

Unsubscribe(u, c) ==
    /\ call[u] = NoCall /\ c \in subs
    /\ call' = [call EXCEPT ![u] = [op |-> "remove", code |-> c, at |-> "debounce"]]
    /\ UNCHANGED <<state, server, subs, conn>>

\* What follows the send: the list and the state.
Applied(u) ==
    LET code == call[u].code
    IN  /\ subs' = IF call[u].op = "add" THEN subs \cup {code} ELSE subs \ {code}
        /\ state' = IF call[u].op = "add" THEN "ACTIVE"
                    ELSE IF subs' = {} THEN "CONNECTED" ELSE state
        /\ call' = [call EXCEPT ![u] = NoCall]

\* Without a connection nothing is sent and the call goes on as if it were.
AfterDebounce(u) ==
    /\ call[u].at = "debounce"
    /\ IF ws
       THEN /\ state' = IF call[u].op = "add" THEN "SUBSCRIBING" ELSE state
            /\ call' = [call EXCEPT ![u].at = IF alive THEN "send" ELSE "failed"]
            /\ UNCHANGED subs
       ELSE Applied(u)
    /\ UNCHANGED <<server, conn>>

Sent(u) ==
    /\ call[u].at = "send"
    /\ server' = IF call[u].op = "add" THEN server \cup {call[u].code}
                                       ELSE server \ {call[u].code}
    /\ Applied(u)
    /\ UNCHANGED conn

\* The connection has gone; subscribe leaves SUBSCRIBING behind.
SendFails(u) ==
    /\ call[u].at = "failed"
    /\ call' = [call EXCEPT ![u] = NoCall]
    /\ UNCHANGED <<state, server, subs, conn>>

-----------------------------------------------------------------------------
(* The receive loop and _handle_disconnect *)

Drop ==
    /\ alive /\ drops < MaxDrops
    /\ alive' = FALSE /\ server' = {} /\ drops' = drops + 1 /\ call' = SendsLost
    /\ UNCHANGED <<state, ws, subs, loop, saved, wanted, attempts, left>>

Noticed ==
    /\ loop = "recv" /\ ws /\ ~alive
    /\ state' = "DISCONNECTED" /\ ws' = FALSE /\ wanted' = subs /\ loop' = "backoff"
    /\ UNCHANGED <<alive, server, subs, saved, attempts, call, left, drops>>

ReconnectFails ==
    /\ loop = "backoff" /\ attempts < MaxReconnect
    /\ attempts' = attempts + 1 /\ state' = "DISCONNECTED" /\ ws' = FALSE
    /\ UNCHANGED <<alive, server, subs, loop, saved, wanted, call, left, drops>>

\* A faulty variant: the old list is not cleared before it is restored.
ReconnectKeepsList ==
    /\ loop = "backoff" /\ attempts < MaxReconnect
    /\ attempts' = attempts + 1
    /\ state' = "CONNECTED" /\ ws' = TRUE /\ alive' = TRUE /\ server' = {}
    /\ left' = {} /\ saved' = wanted /\ loop' = "restore"
    /\ UNCHANGED <<subs, wanted, call, drops>>

Reconnects ==
    /\ loop = "backoff" /\ attempts < MaxReconnect
    /\ attempts' = attempts + 1
    /\ state' = "CONNECTED" /\ ws' = TRUE /\ alive' = TRUE /\ server' = {}
    /\ subs' = {} /\ left' = {} /\ saved' = wanted /\ loop' = "restore"
    /\ UNCHANGED <<wanted, call, drops>>

\* subscribe is called for one saved code after the other: it may be listed by then,
\* or the list full.
Restore(c) ==
    /\ loop = "restore" /\ c \in saved /\ call[Task] = NoCall /\ Usable
    /\ saved' = saved \ {c}
    /\ call' = IF c \in subs \/ Cardinality(subs) >= MaxSubscriptions THEN call
               ELSE [call EXCEPT ![Task] = [op |-> "add", code |-> c, at |-> "debounce"]]
    /\ UNCHANGED <<state, ws, alive, server, subs, loop, wanted, attempts, left, drops>>

\* The send, or the state another subscriber left, makes it raise: back to the backoff.
RestoreFails ==
    /\ loop = "restore"
    /\ call[Task].at = "failed" \/ (call[Task] = NoCall /\ saved # {} /\ ~Usable)
    /\ state' = "DISCONNECTED" /\ ws' = FALSE /\ alive' = FALSE /\ server' = {}
    /\ loop' = "backoff" /\ saved' = {} /\ call' = [SendsLost EXCEPT ![Task] = NoCall]
    /\ UNCHANGED <<subs, wanted, attempts, left, drops>>

Restored ==
    /\ loop = "restore" /\ saved = {} /\ call[Task] = NoCall
    /\ loop' = "recv" /\ attempts' = 0
    /\ UNCHANGED <<state, ws, alive, server, subs, saved, wanted, call, left, drops>>

GiveUp ==
    /\ loop = "backoff" /\ attempts = MaxReconnect
    /\ loop' = "none"
    /\ UNCHANGED <<state, ws, alive, server, subs, saved, wanted, attempts, call, left, drops>>

Next ==
    \/ Connect \/ Disconnect
    \/ \E u \in Users, c \in Codes : Subscribe(u, c) \/ Unsubscribe(u, c)
    \/ \E u \in Callers : AfterDebounce(u) \/ Sent(u)
    \/ \E u \in Users : SendFails(u)
    \/ Drop \/ Noticed \/ ReconnectFails \/ Reconnects
    \/ \E c \in Codes : Restore(c)
    \/ RestoreFails \/ Restored \/ GiveUp

Spec == Init /\ [][Next]_quoteVars

-----------------------------------------------------------------------------
(* Properties *)

\* The types of the connection, the lists and the calls.
TypeOK ==
    /\ state \in {"DISCONNECTED", "CONNECTED", "SUBSCRIBING", "ACTIVE"}
    /\ {server, subs, saved, wanted} \subseteq SUBSET Codes
    /\ loop \in {"none", "recv", "backoff", "restore"} /\ attempts \in 0..MaxReconnect

\* On a live connection every stock the manager lists is one the server has been told
\* of on this connection, but for what a connect after a give-up found listed: a
\* reconnection leaves no code of the connection before, whoever subscribed meanwhile.
ListedIsSubscribed == ws /\ alive => subs \subseteq server \cup left

=============================================================================
