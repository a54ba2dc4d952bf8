-------------------------- MODULE CameraFeedProofs --------------------------
(***************************************************************************)
(* CameraHub implements CameraFeed: the initial state maps to an initial   *)
(* state, and every step maps to one step of the feed or to none.          *)
(***************************************************************************)
EXTENDS CameraHubProofs

FeedVars == << source, latest, box, seen, snapshot, asked, answer >>

\* A new hub is a feed whose cameras are all off.
LEMMA InitFeed == Init => Feed!Init
BY DEF Init, Feed!Init

\* Opening a stream turns the camera on: the frame at hand is kept only
\* when the hub streams that camera already.
LEMMA EnsureIsTurnOn ==
    ASSUME IInv, NEW u \in Sources, EnsureStream(u)
    PROVE  Feed!TurnOn(u)
<1>1. source' = u /\ (latest' = NoFrame \/ (latest' = latest /\ source = u))
  BY EnsureStreamCases DEF streamVars
<1> QED
  BY <1>1 DEF Feed!TurnOn

\* get_snapshot() up to its return or its await asks for a picture.
LEMMA GetSnapshotIsAsk ==
    ASSUME IInv, NEW n \in Snapshots, NEW u \in Sources, GetSnapshot(n, u)
    PROVE  Feed!Ask(n, u)
<1>1. /\ snapshot[n] = "out" /\ EnsureStream(u)
      /\ asked' = [asked EXCEPT ![n] = u]
      /\ UNCHANGED << box, seen >>
  BY DEF GetSnapshot, viewerVars
<1>2. Feed!TurnOn(u)
  BY <1>1, EnsureIsTurnOn
<1>3. /\ snapshot' = [snapshot EXCEPT ![n] = IF latest' = NoFrame THEN "wait" ELSE "done"]
      /\ answer' = [answer EXCEPT ![n] = latest']
  <2>1. CASE latest' # NoFrame
    BY <2>1 DEF GetSnapshot
  <2>2. CASE latest' = NoFrame
    <3>1. answer[n] = NoFrame /\ answer \in [Snapshots -> Frames \cup {NoFrame}]
      BY <1>1 DEF IInv, TypeOK, WaitInv
    <3>2. answer' = answer /\ snapshot' = [snapshot EXCEPT ![n] = "wait"]
      BY <2>2 DEF GetSnapshot
    <3> QED
      BY <2>2, <3>1, <3>2
  <2> QED
    BY <2>1, <2>2
<1> QED
  BY <1>1, <1>2, <1>3 DEF Feed!Ask

\* What a waiter reads after its await is of the camera it asked for, or is
\* nothing; one that gives up keeps the nothing it has.
LEMMA WakeIsAnswer ==
    ASSUME IInv, NEW n \in Snapshots, WakeSnapshot(n) \/ SnapshotTimeout(n)
    PROVE  Feed!Answer(n)
<1>1. /\ snapshot[n] = "wait" /\ snapshot' = [snapshot EXCEPT ![n] = "done"]
      /\ UNCHANGED << source, latest, box, seen, asked >>
  BY DEF WakeSnapshot, SnapshotTimeout, Woken, streamVars, viewerVars
<1>2. answer[n] = NoFrame /\ answer \in [Snapshots -> Frames \cup {NoFrame}]
  BY <1>1 DEF IInv, TypeOK, WaitInv
<1>3. answer' = answer \/ (latest.url = asked[n] /\ answer' = [answer EXCEPT ![n] = latest])
  <2>1. CASE WakeSnapshot(n) /\ latest # NoFrame
    <3>1. latest.url = source /\ awaited[n] = event
      BY <2>1 DEF IInv, WaitInv, WakeSnapshot, FrameMatchesSource
    <3>2. latest.url = asked[n]
      BY <1>1, <3>1 DEF IInv, WaitInv
    <3> QED
      BY <2>1, <3>2 DEF WakeSnapshot
  <2>2. CASE WakeSnapshot(n) /\ latest = NoFrame
    BY <1>2, <2>2 DEF WakeSnapshot
  <2>3. CASE SnapshotTimeout(n)
    BY <2>3 DEF SnapshotTimeout
  <2> QED
    BY <2>1, <2>2, <2>3
<1> QED
  BY <1>1, <1>3 DEF Feed!Answer

\* A subscription joins.
LEMMA SubscribeIsJoin ==
    ASSUME IInv, NEW v \in Viewers, NEW u \in Sources, Subscribe(v, u)
    PROVE  Feed!Join(v, u)
<1>1. /\ EnsureStream(u) /\ UNCHANGED << seen, snapshot, asked, answer >>
      /\ box' = IF latest' = NoFrame THEN box ELSE [box EXCEPT ![v] = latest']
  BY DEF Subscribe, QueueLatest, callVars
<1>2. Feed!TurnOn(u)
  BY <1>1, EnsureIsTurnOn
<1> QED
  BY <1>1, <1>2 DEF Feed!Join

\* A viewer that takes a frame from its queue sees a newer picture.
LEMMA TakeIsSee ==
    ASSUME IInv, NEW v \in Viewers, TakeFrame(v)
    PROVE  Feed!See(v)
<1>1. /\ box[v] # NoFrame
      /\ seen' = [seen EXCEPT ![v] = box[v]] /\ box' = [box EXCEPT ![v] = NoFrame]
      /\ UNCHANGED << source, latest, snapshot, asked, answer >>
  BY DEF TakeFrame, MoveViewer, streamVars, callVars
<1>2. /\ seen[v].taken < box[v].taken
      /\ box[v] \in Frames \cup {NoFrame} /\ seen[v] \in Frames \cup {NoFrame}
  BY <1>1 DEF IInv, TypeOK, ViewInv
<1>3. box[v].taken > seen[v].taken
  BY <1>2, FrameTypes, HubAssumption DEF HubAssumption
<1> QED
  BY <1>1, <1>3 DEF Feed!See

\* The other steps of a viewer are nothing to the feed.
LEMMA ViewerIsSilent ==
    ASSUME NEW v \in Viewers,
           \/ StartViewer(v) \/ CheckViewer(v) \/ FrameTimeout(v) \/ FrameSent(v)
           \/ Disconnect(v) \/ CloseViewer(v)
    PROVE  UNCHANGED FeedVars
BY DEF StartViewer, CheckViewer, FrameTimeout, FrameSent, Disconnect, CloseViewer,
       MoveViewer, FeedVars, streamVars, callVars

\* The task publishes a newer picture of the camera that is on.
LEMMA PublishIsShow ==
    ASSUME IInv, NEW t \in Tasks, Publish(t)
    PROVE  Feed!Show
<1>1. /\ t \notin cancelled /\ phase[t] = "got"
      /\ UNCHANGED << source, seen, snapshot, asked, answer >>
  BY DEF Publish, OnTask, callVars
<1>2. url[t] = source
  BY <1>1, HubAssumption DEF HubAssumption, IInv, TypeOK, TaskInv, Tasks, NoTask
<1>3. /\ latest' = carried[t]
      /\ box' = [v \in Viewers |-> IF v \in subscribers THEN carried[t] ELSE box[v]]
  BY <1>2 DEF Publish, QueueLatest
<1>4. /\ carried[t] \in Frames /\ carried[t].url = source
      /\ latest.taken < carried[t].taken /\ latest \in Frames \cup {NoFrame}
      /\ subscribers \in SUBSET Viewers
  BY <1>1, <1>2 DEF IInv, TypeOK, FrameInv
<1>5. carried[t].taken > latest.taken
  BY <1>4, FrameTypes, HubAssumption DEF HubAssumption
<1> QED
  BY <1>1, <1>3, <1>4, <1>5 DEF Feed!Show

\* Every step is one of the feed or leaves it alone.
LEMMA StepFeed == IInv /\ [Next]_vars => [Feed!Next]_FeedVars
<1> SUFFICES ASSUME IInv, [Next]_vars PROVE Feed!Next \/ UNCHANGED FeedVars
  OBVIOUS
<1>1. CASE UNCHANGED vars
  BY <1>1 DEF vars, streamVars, viewerVars, callVars, FeedVars
<1>2. ASSUME NEW n \in Snapshots, NEW u \in Sources, GetSnapshot(n, u) PROVE Feed!Next
  BY <1>2, GetSnapshotIsAsk DEF Feed!Next
<1>3. ASSUME NEW n \in Snapshots, WakeSnapshot(n) \/ SnapshotTimeout(n) PROVE Feed!Next
  BY <1>3, WakeIsAnswer DEF Feed!Next
<1>4. ASSUME NEW v \in Viewers, NEW u \in Sources, Subscribe(v, u) PROVE Feed!Next
  BY <1>4, SubscribeIsJoin DEF Feed!Next
<1>5. ASSUME NEW v \in Viewers, ViewerStep(v) \/ Disconnect(v) \/ CloseViewer(v)
      PROVE  Feed!Next \/ UNCHANGED FeedVars
  <2>1. CASE TakeFrame(v)
    BY <2>1, TakeIsSee DEF Feed!Next
  <2> QED
    BY <1>5, <2>1, ViewerIsSilent DEF ViewerStep
<1>6. ASSUME NEW t \in Tasks, Poll(t) \/ Capture(t) \/ GetFails(t) \/ UnwindTask(t)
      PROVE  UNCHANGED FeedVars
  BY <1>6 DEF Poll, Capture, GetFails, UnwindTask, OnTask, FeedVars, viewerVars, callVars
<1>7. ASSUME NEW t \in Tasks, Publish(t) PROVE Feed!Next
  BY <1>7, PublishIsShow DEF Feed!Next
<1>8. ASSUME NEW s \in Stops, StopStream(s) PROVE Feed!Next
  <2>1. Feed!TurnOff
    BY <1>8 DEF StopStream, ForgetFrame, callVars, Feed!TurnOff
  <2> QED
    BY <2>1 DEF Feed!Next
<1>9. ASSUME NEW s \in Stops, StopClose(s) \/ StopDone(s) PROVE UNCHANGED FeedVars
  BY <1>9 DEF StopClose, StopDone, FeedVars, streamVars, viewerVars, callVars
<1> QED
  BY <1>1, <1>2, <1>3, <1>4, <1>5, <1>6, <1>7, <1>8, <1>9 DEF Next

\* The hub implements the feed, for every number of cameras, viewers,
\* snapshots, stream tasks, pictures and calls of stop().
THEOREM ImplementsFeed == Spec => ServesAsFeed
<1>1. Init => Feed!Init
  BY InitFeed
<1>2. IInv /\ [Next]_vars => [Feed!Next]_(Feed!feedVars)
  BY StepFeed DEF FeedVars, Feed!feedVars
<1> QED
  BY <1>1, <1>2, Invariance, PTL DEF Spec, ServesAsFeed, Feed!Spec

=============================================================================
