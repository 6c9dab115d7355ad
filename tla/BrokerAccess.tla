----------------------------- MODULE BrokerAccess -----------------------------
(***************************************************************************)
(* The way to the broker: the US engine that must name the right exchange  *)
(* (OverseasDesk, which this module extends), the callers of one client    *)
(* with its breaker and quota, and the lock of the limiter under callers   *)
(* in several threads.  The desk takes a request as one step and ApiClient *)
(* takes the limiter as one, so that they share no state here.             *)
(***************************************************************************)
EXTENDS OverseasDesk, Integers, FiniteSets

CONSTANTS
    Coroutines, MaxRetries, Threshold, Base, MaxTimeout, DailyLimit, MaxTrips,  \* ApiClient
    Jobs, Bot, MaxRuns                                                          \* JobThreads

VARIABLES
    pc, order, attempt, failures, open, trips, waited, daily, dateMoved, effects, quiet,
    quietSends,
    place, loopOf, asleep, locked, waiters, bound, runs, failed

clientVars == <<pc, order, attempt, failures, open, trips, waited, daily, dateMoved, effects,
                quiet, quietSends>>
threadVars == <<place, loopOf, asleep, locked, waiters, bound, runs, failed>>

\* The client is shared by finitely many coroutines, and a call is tried at least once.
ASSUME CallersAssumption ==
    /\ IsFiniteSet(Coroutines) /\ Coroutines # {}
    /\ MaxRetries \in Nat \ {0}

Calls == INSTANCE ApiClient WITH Callers <- Coroutines
Threads == INSTANCE JobThreads WITH pc <- place, loop <- loopOf

-----------------------------------------------------------------------------
(* Properties *)

\* The broker acts on one order call at most once.
OrderAtMostOnce == Calls!OrderAtMostOnce

\* A server that is down gets only what calls under way still send.
OutageLoadBounded == Calls!OutageLoadBounded

\* Every call returns or raises.
CallsEnd == Calls!CallsEnd
=============================================================================
