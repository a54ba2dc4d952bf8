----------------------------- MODULE CameraFeed -----------------------------
(***************************************************************************)
(* What those who watch the PiDog may expect of a camera hub, with no word *)
(* of tasks, locks, events and HTTP: one camera is on at a time, a viewer  *)
(* sees its pictures in the order they were taken and none twice, a single *)
(* picture that was asked for is one of that camera.  CameraHub implements *)
(* it.                                                                     *)
(***************************************************************************)
EXTENDS Naturals

CONSTANTS
    Sources,     \* the cameras
    Viewers,     \* those who watch a stream of pictures
    Snapshots,   \* those who ask for a single picture
    Frames,      \* the pictures: records of url and taken
    NoSource,    \* no camera is on
    NoFrame      \* no picture: taken at time 0

VARIABLES
    source,      \* the camera that is on
    newest,      \* its newest picture
    mailbox,     \* mailbox[v]: the picture viewer v will see next
    seen,        \* seen[v]: the last picture viewer v saw
    call,        \* call[n]: "out", "wait" or "done"
    wanted,      \* wanted[n]: the camera n asked for a picture of
    answer       \* answer[n]: the picture n got

feedVars == << source, newest, mailbox, seen, call, wanted, answer >>

Init ==
    /\ source = NoSource /\ newest = NoFrame
    /\ mailbox = [v \in Viewers |-> NoFrame]
    /\ seen = [v \in Viewers |-> NoFrame]
    /\ call = [n \in Snapshots |-> "out"]
    /\ wanted = [n \in Snapshots |-> NoSource]
    /\ answer = [n \in Snapshots |-> NoFrame]

\* Camera u is turned on; its newest picture is kept only if it was on.
TurnOn(u) ==
    /\ source' = u
    /\ newest' = NoFrame \/ (newest' = newest /\ source = u)

TurnOff ==
    /\ source' = NoSource /\ newest' = NoFrame
    /\ UNCHANGED << mailbox, seen, call, wanted, answer >>

\* A newer picture of the camera that is on reaches some of the viewers.
Show ==
    /\ newest'.taken > newest.taken
    /\ newest' \in Frames /\ newest'.url = source
    /\ \E vs \in SUBSET Viewers :
           mailbox' = [v \in Viewers |-> IF v \in vs THEN newest' ELSE mailbox[v]]
    /\ UNCHANGED << source, seen, call, wanted, answer >>

\* A viewer joins and finds the newest picture, if there is one.
Join(v, u) ==
    /\ TurnOn(u)
    /\ mailbox' = IF newest' = NoFrame THEN mailbox
                  ELSE [mailbox EXCEPT ![v] = newest']
    /\ UNCHANGED << seen, call, wanted, answer >>

\* What a viewer sees is newer than what it saw before.
See(v) ==
    /\ mailbox[v].taken > seen[v].taken
    /\ seen' = [seen EXCEPT ![v] = mailbox[v]]
    /\ mailbox' = [mailbox EXCEPT ![v] = NoFrame]
    /\ UNCHANGED << source, newest, call, wanted, answer >>

\* A picture at hand is given at once.
Ask(n, u) ==
    /\ call[n] = "out"
    /\ TurnOn(u)
    /\ wanted' = [wanted EXCEPT ![n] = u]
    /\ call' = [call EXCEPT ![n] = IF newest' = NoFrame THEN "wait" ELSE "done"]
    /\ answer' = [answer EXCEPT ![n] = newest']
    /\ UNCHANGED << mailbox, seen >>

\* A picture of the camera that was asked for, or none.
Answer(n) ==
    /\ call[n] = "wait"
    /\ call' = [call EXCEPT ![n] = "done"]
    /\ \/ answer' = answer
       \/ newest.url = wanted[n] /\ answer' = [answer EXCEPT ![n] = newest]
    /\ UNCHANGED << source, newest, mailbox, seen, wanted >>

Next ==
    \/ \E v \in Viewers : (\E u \in Sources : Join(v, u)) \/ See(v)
    \/ \E n \in Snapshots : (\E u \in Sources : Ask(n, u)) \/ Answer(n)
    \/ Show \/ TurnOff

Spec == Init /\ [][Next]_feedVars

=============================================================================
