-------------------------- MODULE EndpointRegister --------------------------
(***************************************************************************)
(* What the connector promises about the endpoint of the PiDog, with no    *)
(* word of boot phases and fallbacks: one durable register.  The process   *)
(* works with a copy of it that a crash takes away; an update is in use    *)
(* first, durable then and confirmed last.  Settings implements it until a *)
(* call of the object store fails.                                         *)
(***************************************************************************)
EXTENDS Naturals

CONSTANTS
    Endpoints,  \* what can be kept, numbered: a newer endpoint is greater
    Down        \* no process serves

VARIABLES
    kept,       \* what is durable
    inUse,      \* what the process works with, or Down
    confirmed   \* the last update that was confirmed

registerVars == << kept, inUse, confirmed >>

Init ==
    /\ kept = 0
    /\ inUse = Down
    /\ confirmed = 0

\* A process starts with what is durable, and with nothing else.
Serve ==
    /\ inUse = Down
    /\ inUse' = kept
    /\ UNCHANGED << kept, confirmed >>

\* A newer endpoint is asked for; one that is not durable yet comes first.
Ask(e) ==
    /\ inUse = kept
    /\ e > inUse
    /\ inUse' = e
    /\ UNCHANGED << kept, confirmed >>

Commit ==
    /\ inUse # Down
    /\ kept' = inUse
    /\ UNCHANGED << inUse, confirmed >>

\* Only what is durable is confirmed.
Confirm ==
    /\ inUse = kept
    /\ confirmed' = inUse
    /\ UNCHANGED << kept, inUse >>

Fail ==
    /\ inUse' = Down
    /\ UNCHANGED << kept, confirmed >>

Next ==
    \/ Serve
    \/ \E e \in Endpoints : Ask(e)
    \/ Commit
    \/ Confirm
    \/ Fail

Spec == Init /\ [][Next]_registerVars
=============================================================================
