-------------------------- MODULE CameraLiveProofs --------------------------
(***************************************************************************)
(* Who waits for the camera hub is served, for any number of sources,      *)
(* viewers, snapshots and calls of stop(): the leads-to properties of      *)
(* CameraHub under its fairness.                                           *)
(*                                                                         *)
(* The prover has no rule for ENABLED.  What the theorems need of it is    *)
(* their hypothesis GuardsSuffice: an action whose guard holds can be      *)
(* taken.  That is so by the shape of the actions, each of which gives     *)
(* every variable a value once its guard holds.                            *)
(***************************************************************************)
EXTENDS CameraHubProofs

\* The guards of the timeout of a snapshot, of the loop of a viewer, of the
\* CancelledError in a task and of the later parts of stop().
SnapshotGoesOn(n) == snapshot[n] = "wait" => ENABLED << SnapshotTimeout(n) >>_vars
ViewerGoesOn(v) == Viewing(v) => ENABLED << ViewerStep(v) >>_vars
TaskUnwinds(t) ==
    t \in cancelled /\ phase[t] \in {"pause", "get", "got"}
        => ENABLED << UnwindTask(t) >>_vars
StopGoesOn(s) ==
    /\ stopping[s] = "join" /\ (joining[s] = NoTask \/ phase[joining[s]] = "ended")
           => ENABLED << StopClose(s) >>_vars
    /\ stopping[s] = "close" => ENABLED << StopDone(s) >>_vars

GuardsSuffice ==
    /\ \A n \in Snapshots : SnapshotGoesOn(n)
    /\ \A v \in Viewers : ViewerGoesOn(v)
    /\ \A t \in Tasks : TaskUnwinds(t)
    /\ \A s \in Stops : StopGoesOn(s)

(***************************************************************************)
(* get_snapshot()                                                          *)
(***************************************************************************)

\* A waiting snapshot waits on or is done.
LEMMA StepWaiting ==
    ASSUME NEW n \in Snapshots, IInv, [Next]_vars, snapshot[n] = "wait"
    PROVE  snapshot'[n] \in {"wait", "done"}
<1> USE DEF IInv, TypeOK
<1>1. CASE \E m \in Snapshots : \/ \E u \in Sources : GetSnapshot(m, u)
                                \/ WakeSnapshot(m) \/ SnapshotTimeout(m)
  BY <1>1 DEF GetSnapshot, WakeSnapshot, SnapshotTimeout
<1>2. CASE \E v \in Viewers : \/ \E u \in Sources : Subscribe(v, u)
                              \/ ViewerStep(v) \/ Disconnect(v) \/ CloseViewer(v)
  BY <1>2 DEF Subscribe, ViewerStep, StartViewer, CheckViewer, TakeFrame, FrameTimeout,
              FrameSent, Disconnect, CloseViewer, MoveViewer, callVars
<1>3. CASE \E t \in Tasks : Poll(t) \/ Capture(t) \/ GetFails(t) \/ Publish(t) \/ UnwindTask(t)
  BY <1>3 DEF Poll, Capture, GetFails, Publish, UnwindTask, OnTask, callVars
<1>4. CASE \E s \in Stops : StopStream(s) \/ StopClose(s) \/ StopDone(s)
  BY <1>4 DEF StopStream, StopClose, StopDone, callVars
<1>5. CASE UNCHANGED vars
  BY <1>5 DEF vars, callVars
<1> QED
  BY <1>1, <1>2, <1>3, <1>4, <1>5 DEF Next

\* first_frame_timeout ends the wait of one snapshot.
LEMMA SnapshotEnds ==
    ASSUME NEW n \in Snapshots
    PROVE  Spec /\ FairSnapshot(n) /\ []SnapshotGoesOn(n)
               => (snapshot[n] = "wait" ~> snapshot[n] = "done")
<1>1. IInv /\ snapshot[n] = "wait" /\ [Next]_vars
        => (snapshot[n] = "wait")' \/ (snapshot[n] = "done")'
  BY StepWaiting
<1>2. IInv /\ << SnapshotTimeout(n) >>_vars => (snapshot[n] = "done")'
  BY DEF SnapshotTimeout, IInv, TypeOK
<1>3. []SnapshotGoesOn(n)
        => [](snapshot[n] = "wait" => ENABLED << SnapshotTimeout(n) >>_vars)
  BY PTL DEF SnapshotGoesOn
<1>4. FairSnapshot(n) => WF_vars(SnapshotTimeout(n))
  BY PTL DEF FairSnapshot
<1> QED
  BY <1>1, <1>2, <1>3, <1>4, Invariance, PTL DEF Spec

\* get_snapshot() returns: neither a camera that hangs nor a switch of the
\* source nor a stop() keeps its caller for ever.
THEOREM SnapshotsReturn == FairSpec /\ []GuardsSuffice => SnapshotReturns
<1>1. ASSUME NEW n \in Snapshots
      PROVE  Fairness => FairSnapshot(n)
  BY DEF Fairness
<1>2. ASSUME NEW n \in Snapshots
      PROVE  GuardsSuffice => SnapshotGoesOn(n)
  BY DEF GuardsSuffice
<1>3. ASSUME NEW n \in Snapshots
      PROVE  FairSpec /\ []GuardsSuffice => (snapshot[n] = "wait" ~> snapshot[n] = "done")
  BY <1>1, <1>2, SnapshotEnds, PTL DEF FairSpec
<1> QED
  BY <1>3 DEF SnapshotReturns

(***************************************************************************)
(* The viewers                                                             *)
(***************************************************************************)

\* Where a viewer that has gone is found, and that it is unsubscribed.
GoneAt(v, place) == v \in gone /\ viewer[v] = place
Unsubscribed(v) == v \notin subscribers

\* A viewer that has gone stays where it is, goes round its loop or leaves.
LEMMA StepGone ==
    ASSUME NEW v \in Viewers, IInv, [Next]_vars
    PROVE  /\ GoneAt(v, "wait") => GoneAt(v, "wait")' \/ GoneAt(v, "send")'
                                   \/ GoneAt(v, "check")' \/ Unsubscribed(v)'
           /\ GoneAt(v, "send") => GoneAt(v, "send")' \/ GoneAt(v, "check")'
                                   \/ Unsubscribed(v)'
           /\ GoneAt(v, "check") => GoneAt(v, "check")' \/ Unsubscribed(v)'
<1> USE DEF IInv, TypeOK, GoneAt, Unsubscribed
<1>1. ASSUME NEW w \in Viewers, ViewerStep(w) \/ Disconnect(w) \/ CloseViewer(w)
                                \/ \E u \in Sources : Subscribe(w, u)
      PROVE  /\ v \in gone => v \in gone'
             /\ v # w => viewer'[v] = viewer[v]
  BY <1>1 DEF Subscribe, ViewerStep, StartViewer, CheckViewer, TakeFrame, FrameTimeout,
              FrameSent, Disconnect, CloseViewer, MoveViewer
<1>2. CASE \E w \in Viewers : \/ \E u \in Sources : Subscribe(w, u)
                              \/ ViewerStep(w) \/ Disconnect(w) \/ CloseViewer(w)
  <2>1. PICK w \in Viewers : \/ \E u \in Sources : Subscribe(w, u)
                             \/ ViewerStep(w) \/ Disconnect(w) \/ CloseViewer(w)
    BY <1>2
  <2>2. CASE v # w
    BY <1>1, <2>1, <2>2
  <2>3. CASE v = w
    BY <2>1, <2>3 DEF Subscribe, ViewerStep, StartViewer, CheckViewer, TakeFrame,
                      FrameTimeout, FrameSent, Disconnect, CloseViewer, MoveViewer
  <2> QED
    BY <2>2, <2>3
<1>3. CASE \E n \in Snapshots : \/ \E u \in Sources : GetSnapshot(n, u)
                                \/ WakeSnapshot(n) \/ SnapshotTimeout(n)
  BY <1>3 DEF GetSnapshot, WakeSnapshot, SnapshotTimeout, viewerVars
<1>4. CASE \E t \in Tasks : Poll(t) \/ Capture(t) \/ GetFails(t) \/ Publish(t) \/ UnwindTask(t)
  BY <1>4 DEF Poll, Capture, GetFails, Publish, UnwindTask, viewerVars
<1>5. CASE \E s \in Stops : StopStream(s) \/ StopClose(s) \/ StopDone(s)
  BY <1>5 DEF StopStream, StopClose, StopDone, viewerVars
<1>6. CASE UNCHANGED vars
  BY <1>6 DEF vars, viewerVars
<1> QED
  BY <1>2, <1>3, <1>4, <1>5, <1>6 DEF Next

\* A step of its generator brings a viewer that has gone nearer to the end.
LEMMA GoneMoves ==
    ASSUME NEW v \in Viewers, IInv, ViewerStep(v)
    PROVE  /\ GoneAt(v, "wait") => GoneAt(v, "send")' \/ GoneAt(v, "check")'
           /\ GoneAt(v, "send") => GoneAt(v, "check")'
           /\ GoneAt(v, "check") => Unsubscribed(v)'
BY DEF IInv, TypeOK, GoneAt, Unsubscribed, ViewerStep, StartViewer, CheckViewer, TakeFrame,
       FrameTimeout, FrameSent, MoveViewer

\* One viewer is unsubscribed.
LEMMA GoneLeaves ==
    ASSUME NEW v \in Viewers
    PROVE  Spec /\ FairViewer(v) /\ []ViewerGoesOn(v)
               => (v \in gone /\ viewer[v] \in {"check", "wait", "send"} ~> v \notin subscribers)
<1>1. IInv /\ [Next]_vars
        => /\ GoneAt(v, "wait") => GoneAt(v, "wait")' \/ GoneAt(v, "send")'
                                   \/ GoneAt(v, "check")' \/ Unsubscribed(v)'
           /\ GoneAt(v, "send") => GoneAt(v, "send")' \/ GoneAt(v, "check")'
                                   \/ Unsubscribed(v)'
           /\ GoneAt(v, "check") => GoneAt(v, "check")' \/ Unsubscribed(v)'
  BY StepGone
<1>2. IInv /\ << ViewerStep(v) >>_vars
        => /\ GoneAt(v, "wait") => GoneAt(v, "send")' \/ GoneAt(v, "check")'
           /\ GoneAt(v, "send") => GoneAt(v, "check")'
           /\ GoneAt(v, "check") => Unsubscribed(v)'
  BY GoneMoves
<1>3. GoneAt(v, "wait") \/ GoneAt(v, "send") \/ GoneAt(v, "check") => Viewing(v)
  BY DEF GoneAt, Viewing
<1>4. []ViewerGoesOn(v) => [](Viewing(v) => ENABLED << ViewerStep(v) >>_vars)
  BY PTL DEF ViewerGoesOn
<1>5. FairViewer(v) => WF_vars(ViewerStep(v))
  BY PTL DEF FairViewer
<1>6. v \in gone /\ viewer[v] \in {"check", "wait", "send"}
        => GoneAt(v, "wait") \/ GoneAt(v, "send") \/ GoneAt(v, "check")
  BY DEF GoneAt
<1>7. Unsubscribed(v) => v \notin subscribers
  BY DEF Unsubscribed
<1> QED
  BY <1>1, <1>2, <1>3, <1>4, <1>5, <1>6, <1>7, Invariance, PTL DEF Spec

\* The generator of a viewer that went away finds out and unsubscribes it,
\* even when no frame ever comes: the timeout of queue.get() sees to that.
THEOREM GoneAreUnsubscribed == FairSpec /\ []GuardsSuffice => GoneIsUnsubscribed
<1>1. ASSUME NEW v \in Viewers
      PROVE  Fairness => FairViewer(v)
  BY DEF Fairness
<1>2. ASSUME NEW v \in Viewers
      PROVE  GuardsSuffice => ViewerGoesOn(v)
  BY DEF GuardsSuffice
<1>3. ASSUME NEW v \in Viewers
      PROVE  FairSpec /\ []GuardsSuffice
               => (v \in gone /\ viewer[v] \in {"check", "wait", "send"} ~> v \notin subscribers)
  BY <1>1, <1>2, GoneLeaves, PTL DEF FairSpec
<1> QED
  BY <1>3 DEF GoneIsUnsubscribed

(***************************************************************************)
(* stop()                                                                  *)
(***************************************************************************)

\* The task that a stop() awaits was cancelled, by that call or before it.
JoinInv ==
    \A s \in Stops : stopping[s] = "join" /\ joining[s] # NoTask
        => joining[s] \in cancelled /\ phase[joining[s]] # "none"

\* A task that was cancelled stays so; one that has ended has ended.
LEMMA TaskStays ==
    ASSUME NEW k \in Tasks, IInv, [Next]_vars, phase[k] # "none"
    PROVE  /\ k \in cancelled => k \in cancelled'
           /\ phase'[k] # "none"
           /\ phase[k] = "ended" => phase'[k] = "ended"
<1> USE DEF IInv, TypeOK
<1>1. ASSUME NEW u \in Sources, EnsureStream(u)
      PROVE  /\ k \in cancelled => k \in cancelled'
             /\ phase'[k] # "none"
             /\ phase[k] = "ended" => phase'[k] = "ended"
  <2>1. CASE UNCHANGED streamVars
    BY <2>1 DEF streamVars
  <2>2. CASE /\ cancelled \subseteq cancelled' /\ created < MaxTasks
             /\ phase' = [phase EXCEPT ![created + 1] = "pause"]
    <3>1. created + 1 \in Tasks /\ phase[created + 1] = "none"
      BY <2>2, HubAssumption DEF TaskInv, Tasks, HubAssumption
    <3> QED
      BY <2>2, <3>1
  <2> QED
    BY <1>1, <2>1, <2>2, EnsureStreamCases
<1>2. CASE \E n \in Snapshots : \/ \E u \in Sources : GetSnapshot(n, u)
                                \/ WakeSnapshot(n) \/ SnapshotTimeout(n)
  BY <1>1, <1>2 DEF GetSnapshot, WakeSnapshot, SnapshotTimeout, streamVars
<1>3. CASE \E v \in Viewers : \/ \E u \in Sources : Subscribe(v, u)
                              \/ ViewerStep(v) \/ Disconnect(v) \/ CloseViewer(v)
  BY <1>1, <1>3 DEF Subscribe, ViewerStep, StartViewer, CheckViewer, TakeFrame, FrameTimeout,
                    FrameSent, Disconnect, CloseViewer, MoveViewer, streamVars
<1>4. CASE \E t \in Tasks : Poll(t) \/ Capture(t) \/ GetFails(t) \/ Publish(t) \/ UnwindTask(t)
  BY <1>4 DEF Poll, Capture, GetFails, Publish, UnwindTask, OnTask
<1>5. CASE \E s \in Stops : StopStream(s) \/ StopClose(s) \/ StopDone(s)
  BY <1>5 DEF StopStream, StopClose, StopDone, CancelTask, streamVars
<1>6. CASE UNCHANGED vars
  BY <1>6 DEF vars, streamVars
<1> QED
  BY <1>2, <1>3, <1>4, <1>5, <1>6 DEF Next

\* A call of stop() is changed by its own steps alone.
LEMMA StopMoves ==
    ASSUME NEW s \in Stops, IInv, [Next]_vars
    PROVE  \/ stopping'[s] = stopping[s] /\ joining'[s] = joining[s]
           \/ StopStream(s) \/ StopClose(s) \/ StopDone(s)
<1> USE DEF IInv, TypeOK
<1>1. CASE \E n \in Snapshots : \/ \E u \in Sources : GetSnapshot(n, u)
                                \/ WakeSnapshot(n) \/ SnapshotTimeout(n)
  BY <1>1 DEF GetSnapshot, WakeSnapshot, SnapshotTimeout, stopVars
<1>2. CASE \E v \in Viewers : \/ \E u \in Sources : Subscribe(v, u)
                              \/ ViewerStep(v) \/ Disconnect(v) \/ CloseViewer(v)
  BY <1>2 DEF Subscribe, ViewerStep, StartViewer, CheckViewer, TakeFrame, FrameTimeout,
              FrameSent, Disconnect, CloseViewer, MoveViewer, stopVars
<1>3. CASE \E t \in Tasks : Poll(t) \/ Capture(t) \/ GetFails(t) \/ Publish(t) \/ UnwindTask(t)
  BY <1>3 DEF Poll, Capture, GetFails, Publish, UnwindTask, OnTask, stopVars
<1>4. CASE \E k \in Stops : StopStream(k) \/ StopClose(k) \/ StopDone(k)
  BY <1>4 DEF StopStream, StopClose, StopDone
<1>5. CASE UNCHANGED vars
  BY <1>5 DEF vars, stopVars
<1> QED
  BY <1>1, <1>2, <1>3, <1>4, <1>5 DEF Next

\* What is said of the awaited tasks holds in every state.
LEMMA JoinInvariance == Spec => []JoinInv
<1>1. Init => JoinInv
  BY DEF Init, JoinInv
<1>2. IInv /\ JoinInv /\ [Next]_vars => JoinInv'
  <2> SUFFICES ASSUME IInv, JoinInv, [Next]_vars, NEW s \in Stops,
                      stopping'[s] = "join", joining'[s] # NoTask
               PROVE  joining'[s] \in cancelled' /\ phase'[joining'[s]] # "none"
    BY DEF JoinInv
  <2>1. CASE stopping'[s] = stopping[s] /\ joining'[s] = joining[s]
    <3>1. /\ joining[s] \in cancelled /\ phase[joining[s]] # "none"
          /\ joining[s] \in Tasks
      BY <2>1, HubAssumption DEF JoinInv, IInv, TypeOK, Tasks, NoTask, HubAssumption
    <3>2. PICK t \in Tasks : t = joining[s]
      BY <3>1
    <3>3. t \in cancelled' /\ phase'[t] # "none"
      BY <3>1, <3>2, TaskStays
    <3> QED
      BY <2>1, <3>2, <3>3
  <2>2. CASE StopStream(s)
    <3>1. joining'[s] = task /\ phase' = phase
      BY <2>2 DEF StopStream, IInv, TypeOK
    <3>2. task # NoTask /\ task \in cancelled'
      BY <2>2, <3>1 DEF StopStream, CancelTask
    <3>3. phase[task] # "none"
      BY <3>2, HubAssumption DEF HubAssumption, IInv, TypeOK, TaskInv, Tasks, NoTask
    <3> QED
      BY <3>1, <3>2, <3>3
  <2>3. CASE StopClose(s) \/ StopDone(s)
    BY <2>3 DEF StopClose, StopDone, IInv, TypeOK
  <2> QED
    BY <2>1, <2>2, <2>3, StopMoves
<1> QED
  BY <1>1, <1>2, Invariance, PTL DEF Spec

\* Where stop() s is that awaits task t: the task goes on, or has ended.
Joins(s, t) == stopping[s] = "join" /\ joining[s] = t /\ t # NoTask /\ phase[t] # "ended"
Joined(s) ==
    stopping[s] = "join" /\ (joining[s] = NoTask \/ phase[joining[s]] = "ended")
Closes(s) == stopping[s] = "close"
Returned(s) == stopping[s] = "done"

\* Every step leaves stop() where it is or brings it nearer to the end.
LEMMA StepJoined ==
    ASSUME NEW s \in Stops, IInv, [Next]_vars
    PROVE  /\ Joined(s) => Joined(s)' \/ Closes(s)' \/ Returned(s)'
           /\ Closes(s) => Closes(s)' \/ Returned(s)'
<1>1. joining[s] \in Tasks \cup {NoTask} /\ stopping \in [Stops -> {"ready", "join", "close", "done"}]
  BY HubAssumption DEF IInv, TypeOK, Tasks, NoTask, HubAssumption
<1>2. CASE stopping'[s] = stopping[s] /\ joining'[s] = joining[s]
  <2>1. Joined(s) => Joined(s)'
    <3> SUFFICES ASSUME stopping[s] = "join", joining[s] # NoTask, phase[joining[s]] = "ended"
                 PROVE  phase'[joining[s]] = "ended"
      BY <1>2 DEF Joined
    <3>1. PICK k \in Tasks : k = joining[s]
      BY <1>1
    <3>2. phase[k] = "ended" /\ phase[k] # "none"
      BY <3>1
    <3>3. phase'[k] = "ended"
      BY <3>2, TaskStays
    <3> QED
      BY <3>1, <3>3
  <2>2. Closes(s) => Closes(s)'
    BY <1>2 DEF Closes
  <2> QED
    BY <2>1, <2>2
<1>3. CASE StopStream(s)
  BY <1>3 DEF StopStream, Joined, Closes
<1>4. CASE StopClose(s)
  BY <1>1, <1>4 DEF StopClose, Joined, Closes, Returned
<1>5. CASE StopDone(s)
  BY <1>1, <1>5 DEF StopDone, Joined, Closes, Returned
<1> QED
  BY <1>2, <1>3, <1>4, <1>5, StopMoves

\* It awaits the same task until that has ended.
LEMMA StepJoins ==
    ASSUME NEW s \in Stops, NEW t \in Tasks, IInv, [Next]_vars, Joins(s, t)
    PROVE  Joins(s, t)' \/ Joined(s)'
<1>1. CASE stopping'[s] = stopping[s] /\ joining'[s] = joining[s]
  BY <1>1 DEF Joins, Joined
<1>2. CASE StopStream(s) \/ StopClose(s) \/ StopDone(s)
  BY <1>2 DEF StopStream, StopClose, StopDone, Joins
<1> QED
  BY <1>1, <1>2, StopMoves

\* stop() does not wait for ever for the task t.
LEMMA JoinEnds ==
    ASSUME NEW s \in Stops, NEW t \in Tasks
    PROVE  Spec /\ FairTask(t) /\ []TaskUnwinds(t) => (Joins(s, t) ~> Joined(s))
<1>1. IInv /\ [Next]_vars /\ Joins(s, t) => Joins(s, t)' \/ Joined(s)'
  BY StepJoins
<1>2. IInv /\ Joins(s, t) /\ << UnwindTask(t) >>_vars => Joined(s)'
  BY DEF IInv, TypeOK, UnwindTask, stopVars, Joins, Joined
<1>3. IInv /\ JoinInv /\ Joins(s, t) => t \in cancelled /\ phase[t] \in {"pause", "get", "got"}
  BY DEF IInv, TypeOK, JoinInv, Joins
<1>4. []TaskUnwinds(t)
        => [](t \in cancelled /\ phase[t] \in {"pause", "get", "got"}
                  => ENABLED << UnwindTask(t) >>_vars)
  BY PTL DEF TaskUnwinds
<1>5. FairTask(t) => WF_vars(UnwindTask(t))
  BY PTL DEF FairTask
<1> QED
  BY <1>1, <1>2, <1>3, <1>4, <1>5, Invariance, JoinInvariance, PTL DEF Spec

\* Nor for any other.
LEMMA SomeJoinEnds ==
    ASSUME NEW s \in Stops
    PROVE  Spec /\ Fairness /\ []GuardsSuffice
               => ((\E t \in Tasks : Joins(s, t)) ~> Joined(s))
<1>1. ASSUME NEW t \in Tasks
      PROVE  Spec /\ Fairness /\ []GuardsSuffice => [](Joins(s, t) => <>Joined(s))
  <2>1. Fairness => FairTask(t)
    BY DEF Fairness
  <2>2. GuardsSuffice => TaskUnwinds(t)
    BY DEF GuardsSuffice
  <2> QED
    BY <2>1, <2>2, JoinEnds, PTL
<1>2. Spec /\ Fairness /\ []GuardsSuffice
        => \A t \in Tasks : [](Joins(s, t) => <>Joined(s))
  BY <1>1
<1>3. (\A t \in Tasks : [](Joins(s, t) => <>Joined(s)))
        => [](\A t \in Tasks : Joins(s, t) => <>Joined(s))
  OBVIOUS
<1>4. (\A t \in Tasks : Joins(s, t) => <>Joined(s))
        => ((\E t \in Tasks : Joins(s, t)) => <>Joined(s))
  OBVIOUS
<1> QED
  BY <1>2, <1>3, <1>4, PTL

\* One call of stop() returns.
LEMMA StopEnds ==
    ASSUME NEW s \in Stops
    PROVE  Spec /\ Fairness /\ []GuardsSuffice
               => (stopping[s] = "join" ~> stopping[s] = "done")
<1>1. IInv /\ stopping[s] = "join" => Joined(s) \/ \E t \in Tasks : Joins(s, t)
  BY HubAssumption DEF IInv, TypeOK, Joined, Joins, Tasks, NoTask, HubAssumption
<1>2. IInv /\ [Next]_vars
        => /\ Joined(s) => Joined(s)' \/ Closes(s)' \/ Returned(s)'
           /\ Closes(s) => Closes(s)' \/ Returned(s)'
  BY StepJoined
<1>3. /\ IInv /\ Joined(s) /\ << StopClose(s) >>_vars => Closes(s)' \/ Returned(s)'
      /\ IInv /\ Closes(s) /\ << StopDone(s) >>_vars => Returned(s)'
  BY DEF IInv, TypeOK, StopClose, StopDone, Joined, Closes, Returned
<1>4. GuardsSuffice => StopGoesOn(s)
  BY DEF GuardsSuffice
<1>5. StopGoesOn(s) => /\ Joined(s) => ENABLED << StopClose(s) >>_vars
                       /\ Closes(s) => ENABLED << StopDone(s) >>_vars
  BY DEF StopGoesOn, Joined, Closes
<1>6. Fairness => FairStop(s)
  BY DEF Fairness
<1>7. FairStop(s) => WF_vars(StopClose(s)) /\ WF_vars(StopDone(s))
  BY PTL DEF FairStop
<1>8. Returned(s) => stopping[s] = "done"
  BY DEF Returned
<1> QED
  BY <1>1, <1>2, <1>3, <1>4, <1>5, <1>6, <1>7, <1>8, SomeJoinEnds, Invariance,
     PTL DEF Spec

\* stop() returns: the task it awaits was cancelled and unwinds at the await
\* where it hangs, whatever the camera does and whoever calls meanwhile.
THEOREM StopsReturn == FairSpec /\ []GuardsSuffice => StopReturns
<1>1. ASSUME NEW s \in Stops
      PROVE  FairSpec /\ []GuardsSuffice => (stopping[s] = "join" ~> stopping[s] = "done")
  BY StopEnds, PTL DEF FairSpec
<1> QED
  BY <1>1 DEF StopReturns

=============================================================================
