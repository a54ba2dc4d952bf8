---------------------------- MODULE CallBroker -----------------------------
(***************************************************************************)
(* What a caller may expect of a bounded client for the PiDog daemon, with *)
(* no word of pools, workers, futures and httpx: calls are accepted or     *)
(* refused, wait for their turn, run at most once and at most Capacity at  *)
(* a time, and get one outcome.  PidogClient implements it.                *)
(***************************************************************************)
EXTENDS Naturals, FiniteSets

CONSTANTS
    Calls,     \* the calls, numbered in the order they are made
    Capacity   \* how many calls may run at a time

VARIABLES
    waiting,   \* the accepted calls whose turn has not come
    running,   \* the calls being worked on
    outcome    \* outcome[c]: "none", "pending" or what the caller was told

brokerVars == << waiting, running, outcome >>

Init ==
    /\ waiting = {}
    /\ running = {}
    /\ outcome = [c \in Calls |-> "none"]

\* Calls are made in the order of their numbers.
IsNext(c) == /\ outcome[c] = "none"
             /\ \A d \in Calls : outcome[d] = "none" => c <= d

Accept(c) ==
    /\ IsNext(c)
    /\ waiting' = waiting \cup {c}
    /\ outcome' = [outcome EXCEPT ![c] = "pending"]
    /\ UNCHANGED running

Refuse(c) ==
    /\ IsNext(c)
    /\ outcome' = [outcome EXCEPT ![c] = "refused"]
    /\ UNCHANGED << waiting, running >>

\* The caller gives up; the call keeps its place.
GiveUp(c) ==
    /\ outcome[c] = "pending"
    /\ outcome' = [outcome EXCEPT ![c] = "abandoned"]
    /\ UNCHANGED << waiting, running >>

\* The oldest waiting call starts, if there is room.
Begin(c) ==
    /\ c \in waiting
    /\ \A d \in waiting : c <= d
    /\ Cardinality(running) < Capacity
    /\ waiting' = waiting \ {c}
    /\ running' = running \cup {c}
    /\ UNCHANGED outcome

\* A call ends; its caller is told, unless it gave up.
End(c, answer) ==
    /\ c \in running
    /\ running' = running \ {c}
    /\ outcome' = [outcome EXCEPT ![c] = IF @ = "pending" THEN answer ELSE @]
    /\ UNCHANGED waiting

\* The client is stopped: what is running is dropped, what waits is failed.
DropRunning ==
    /\ running' = {}
    /\ UNCHANGED << waiting, outcome >>

FailWaiting ==
    /\ waiting' = {}
    /\ outcome' = [c \in Calls |-> IF c \in waiting /\ outcome[c] = "pending"
                                   THEN "unavailable" ELSE outcome[c]]
    /\ UNCHANGED running

Next ==
    \/ \E c \in Calls : \/ Accept(c) \/ Refuse(c) \/ GiveUp(c) \/ Begin(c)
                        \/ \E answer \in {"result", "unavailable", "timeout", "error"} :
                               End(c, answer)
    \/ DropRunning
    \/ FailWaiting

Spec == Init /\ [][Next]_brokerVars
=============================================================================
