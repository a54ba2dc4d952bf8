----------------------------- MODULE CameraHub -----------------------------
(***************************************************************************)
(* The camera hub, class CameraStreamHub of src/pidog_nova/camera_hub.py:  *)
(* one background task polls JPEG snapshots of the current source, keeps   *)
(* the latest frame and hands it to every subscribed MJPEG viewer through  *)
(* a queue of one place.  get_snapshot() waits for the first frame.        *)
(*                                                                         *)
(* _lock is never held across a suspension, and neither start() nor the    *)
(* publishing of a frame suspends, so _ensure_stream() with what follows   *)
(* it in its callers, and a response with its publication, are one step    *)
(* each.  A task that is cancelled while its GET is under way never gets   *)
(* to publish, even when the response has already arrived.                 *)
(*                                                                         *)
(* KeepEvent, CancelNobody, CancelUnchecked, KeepOldest, NeverLeave and    *)
(* WaitForEver are wrong versions of the definitions after them, kept to   *)
(* see the properties fail.                                                *)
(***************************************************************************)
EXTENDS Naturals, FiniteSets

CONSTANTS
    Sources,      \* the (normalized) snapshot URLs that are asked for
    Viewers,      \* one value for each call of stream_response()
    Snapshots,    \* one value for each call of get_snapshot()
    Stops,        \* one value for each call of stop()
    MaxTasks,     \* bound: how many stream tasks are created
    MaxFrames,    \* bound: how many pictures the camera takes
    NoSource      \* self._source_url is None

ASSUME HubAssumption ==
    /\ MaxTasks \in Nat
    /\ MaxFrames \in Nat
    /\ NoSource \notin Sources

Tasks   == 1 .. MaxTasks
NoTask  == 0
\* A frame is known by its source and by when the picture was taken.
NoFrame == [url |-> NoSource, taken |-> 0]
Frames  == [url : Sources, taken : 1 .. MaxFrames]

VARIABLES
    client,       \* self._client: "none", "open", or "closing" in aclose()
    task,         \* self._task: the last stream task or NoTask
    created,      \* how many stream tasks were created
    phase,        \* phase[t]: where _run_stream() t is
    url,          \* url[t]: the source task t polls
    carried,      \* carried[t]: the frame in the response to task t
    cancelled,    \* the tasks on which cancel() was called
    source,       \* self._source_url
    latest,       \* self._latest_frame
    event,        \* self._latest_frame_event, one number per Event()
    fired,        \* the events that were set
    subscribers,  \* self._subscribers
    viewer,       \* viewer[v]: where stream_bytes() of v is
    box,          \* box[v]: the queue of viewer v
    seen,         \* seen[v]: the last frame sent to viewer v
    gone,         \* the viewers that have disconnected
    snapshot,     \* snapshot[n]: where get_snapshot() n is
    asked,        \* asked[n]: its source
    awaited,      \* awaited[n]: the event it waits on
    answer,       \* answer[n]: what it returned, NoFrame for None
    stopping,     \* stopping[s]: where stop() s is
    joining,      \* joining[s]: the task stop() s awaits
    taken         \* how many pictures the camera took

streamVars == << task, created, phase, url, carried, cancelled, source,
                 latest, event, fired >>
viewerVars == << subscribers, viewer, box, seen, gone >>
callVars   == << snapshot, asked, awaited, answer >>
stopVars   == << stopping, joining >>
vars == << client, streamVars, viewerVars, callVars, stopVars, taken >>

TypeOK ==
    /\ client \in {"none", "open", "closing"}
    /\ task \in 0 .. created /\ created \in 0 .. MaxTasks
    /\ phase \in [Tasks -> {"none", "pause", "get", "got", "ended"}]
    /\ url \in [Tasks -> Sources \cup {NoSource}]
    /\ carried \in [Tasks -> Frames \cup {NoFrame}]
    /\ cancelled \subseteq 1 .. created
    /\ source \in Sources \cup {NoSource}
    /\ latest \in Frames \cup {NoFrame}
    /\ event \in Nat /\ fired \subseteq 0 .. event
    /\ subscribers \subseteq Viewers
    /\ viewer \in [Viewers -> {"out", "ready", "check", "wait", "send",
                               "left", "dropped"}]
    /\ box \in [Viewers -> Frames \cup {NoFrame}]
    /\ seen \in [Viewers -> Frames \cup {NoFrame}]
    /\ gone \subseteq Viewers
    /\ snapshot \in [Snapshots -> {"out", "wait", "done"}]
    /\ asked \in [Snapshots -> Sources \cup {NoSource}]
    /\ awaited \in [Snapshots -> 0 .. event]
    /\ answer \in [Snapshots -> Frames \cup {NoFrame}]
    /\ stopping \in [Stops -> {"ready", "join", "close", "done"}]
    /\ joining \in [Stops -> 0 .. created]
    /\ taken \in 0 .. MaxFrames

Init ==
    /\ client = "none"
    /\ task = NoTask /\ created = 0
    /\ phase = [t \in Tasks |-> "none"]
    /\ url = [t \in Tasks |-> NoSource]
    /\ carried = [t \in Tasks |-> NoFrame]
    /\ cancelled = {}
    /\ source = NoSource /\ latest = NoFrame
    /\ event = 0 /\ fired = {}
    /\ subscribers = {}
    /\ viewer = [v \in Viewers |-> "out"]
    /\ box = [v \in Viewers |-> NoFrame]
    /\ seen = [v \in Viewers |-> NoFrame]
    /\ gone = {}
    /\ snapshot = [n \in Snapshots |-> "out"]
    /\ asked = [n \in Snapshots |-> NoSource]
    /\ awaited = [n \in Snapshots |-> 0]
    /\ answer = [n \in Snapshots |-> NoFrame]
    /\ stopping = [s \in Stops |-> "ready"]
    /\ joining = [s \in Stops |-> NoTask]
    /\ taken = 0

(***************************************************************************)
(* start() and _ensure_stream()                                            *)
(***************************************************************************)

\* start(): a client is made only when there is none, closing or not.
StartClient == client' = IF client = "none" THEN "open" ELSE client

ForgetFrame == latest' = NoFrame

KeepEvent == UNCHANGED << event, fired >>
NewEvent == event' = event + 1 /\ UNCHANGED fired

CancelNobody == cancelled' = cancelled
CancelUnchecked == cancelled' = cancelled \cup {task}
CancelTask ==
    cancelled' = IF task = NoTask THEN cancelled ELSE cancelled \cup {task}

Streaming(u) == source = u /\ task # NoTask /\ phase[task] # "ended"

\* Another source, no task yet, or a task that has returned.
SwitchStream(u) ==
    /\ ~Streaming(u)
    /\ created < MaxTasks
    /\ CancelTask
    /\ source' = u
    /\ ForgetFrame
    /\ NewEvent
    /\ created' = created + 1
    /\ task' = created + 1
    /\ phase' = [phase EXCEPT ![created + 1] = "pause"]
    /\ url' = [url EXCEPT ![created + 1] = u]
    /\ UNCHANGED carried

EnsureStream(u) ==
    /\ StartClient
    /\ \/ Streaming(u) /\ UNCHANGED streamVars
       \/ SwitchStream(u)

(***************************************************************************)
(* get_snapshot()                                                          *)
(***************************************************************************)

\* With a frame at hand it is returned at once, without one the call waits
\* for the event that is current now.
GetSnapshot(n, u) ==
    /\ snapshot[n] = "out"
    /\ EnsureStream(u)
    /\ asked' = [asked EXCEPT ![n] = u]
    /\ \/ /\ latest' # NoFrame
          /\ answer' = [answer EXCEPT ![n] = latest']
          /\ snapshot' = [snapshot EXCEPT ![n] = "done"]
          /\ UNCHANGED awaited
       \/ /\ latest' = NoFrame
          /\ awaited' = [awaited EXCEPT ![n] = event']
          /\ snapshot' = [snapshot EXCEPT ![n] = "wait"]
          /\ UNCHANGED answer
    /\ UNCHANGED << viewerVars, stopVars, taken >>

Woken(n) == snapshot[n] = "wait" /\ awaited[n] \in fired

\* wait_for() returns: the latest frame is read now, after the suspension.
WakeSnapshot(n) ==
    /\ Woken(n)
    /\ answer' = [answer EXCEPT ![n] = latest]
    /\ snapshot' = [snapshot EXCEPT ![n] = "done"]
    /\ UNCHANGED << client, streamVars, viewerVars, asked, awaited, stopVars, taken >>

WaitForEver(n) == FALSE

\* first_frame_timeout has passed.
SnapshotTimeout(n) ==
    /\ snapshot[n] = "wait"
    /\ snapshot' = [snapshot EXCEPT ![n] = "done"]
    /\ UNCHANGED << client, streamVars, viewerVars, asked, awaited, answer,
                    stopVars, taken >>

(***************************************************************************)
(* stream_response(), _subscribe(), _unsubscribe() and the viewers         *)
(***************************************************************************)

KeepOldest(old, frame) == IF old = NoFrame THEN frame ELSE old

\* A full queue of one place gives up its frame for the new one.
QueueLatest(old, frame) == frame

\* The response is built; its generator has not been started yet.
Subscribe(v, u) ==
    /\ viewer[v] = "out"
    /\ EnsureStream(u)
    /\ subscribers' = subscribers \cup {v}
    /\ box' = IF latest' = NoFrame THEN box
              ELSE [box EXCEPT ![v] = QueueLatest(@, latest')]
    /\ viewer' = [viewer EXCEPT ![v] = "ready"]
    /\ UNCHANGED << seen, gone, callVars, stopVars, taken >>

MoveViewer(v, from, to) ==
    /\ viewer[v] \in from
    /\ viewer' = [viewer EXCEPT ![v] = to]
    /\ UNCHANGED << client, streamVars, gone, callVars, stopVars, taken >>

\* The server starts to iterate over the response.
StartViewer(v) ==
    /\ MoveViewer(v, {"ready"}, "check")
    /\ UNCHANGED << subscribers, box, seen >>

NeverLeave(v) ==
    /\ MoveViewer(v, {"check"}, "wait")
    /\ UNCHANGED << subscribers, box, seen >>

\* await request.is_disconnected(): leave, or wait for a frame.
CheckViewer(v) ==
    \/ /\ v \in gone
       /\ MoveViewer(v, {"check"}, "left")
       /\ subscribers' = subscribers \ {v}
       /\ UNCHANGED << box, seen >>
    \/ /\ v \notin gone
       /\ MoveViewer(v, {"check"}, "wait")
       /\ UNCHANGED << subscribers, box, seen >>

\* queue.get() returns and the frame is yielded.
TakeFrame(v) ==
    /\ box[v] # NoFrame
    /\ MoveViewer(v, {"wait"}, "send")
    /\ seen' = [seen EXCEPT ![v] = box[v]]
    /\ box' = [box EXCEPT ![v] = NoFrame]
    /\ UNCHANGED subscribers

\* No frame for 30 seconds: "continue".
FrameTimeout(v) ==
    /\ box[v] = NoFrame
    /\ MoveViewer(v, {"wait"}, "check")
    /\ UNCHANGED << subscribers, box, seen >>

\* The frame is sent, the server asks the generator for the next one.
FrameSent(v) ==
    /\ MoveViewer(v, {"send"}, "check")
    /\ UNCHANGED << subscribers, box, seen >>

Viewing(v) == viewer[v] \in {"ready", "check", "wait", "send"}

\* The browser goes away.
Disconnect(v) ==
    /\ v \notin gone
    /\ Viewing(v)
    /\ gone' = gone \cup {v}
    /\ UNCHANGED << client, streamVars, subscribers, viewer, box, seen,
                    callVars, stopVars, taken >>

\* The web server notices the disconnect first and closes the generator:
\* its finally clause runs if it was started, and only then.
CloseViewer(v) ==
    /\ v \in gone
    /\ \/ /\ MoveViewer(v, {"check", "wait", "send"}, "left")
          /\ subscribers' = subscribers \ {v}
       \/ /\ MoveViewer(v, {"ready"}, "dropped")
          /\ UNCHANGED subscribers
    /\ UNCHANGED << box, seen >>

(***************************************************************************)
(* _run_stream() and _publish_frame()                                      *)
(***************************************************************************)

OnTask(t, from) ==
    /\ t \notin cancelled
    /\ phase[t] = from
    /\ UNCHANGED << client, task, created, url, cancelled, source, event,
                    callVars, stopVars >>

\* The top of the loop: return without a client, fail on a closed one.
Poll(t) ==
    /\ OnTask(t, "pause")
    /\ phase' = [phase EXCEPT ![t] = CASE client = "none" -> "ended"
                                       [] client = "open" -> "get"
                                       [] client = "closing" -> "pause"]
    /\ UNCHANGED << carried, latest, fired, viewerVars, taken >>

\* The upstream takes a picture for the request of task t.
Capture(t) ==
    /\ phase[t] = "get"
    /\ taken < MaxFrames
    /\ taken' = taken + 1
    /\ carried' = [carried EXCEPT ![t] = [url |-> url[t], taken |-> taken + 1]]
    /\ phase' = [phase EXCEPT ![t] = "got"]
    /\ UNCHANGED << client, task, created, url, cancelled, source, latest, event,
                    fired, viewerVars, callVars, stopVars >>

\* The request fails, times out, is refused, or its response is empty.
GetFails(t) ==
    /\ OnTask(t, IF phase[t] = "got" THEN "got" ELSE "get")
    /\ phase' = [phase EXCEPT ![t] = "pause"]
    /\ carried' = [carried EXCEPT ![t] = NoFrame]
    /\ UNCHANGED << latest, fired, viewerVars, taken >>

\* The response arrives.  The event loop resumes what is ready in FIFO
\* order: the callers woken by the event resume before a response that the
\* upstream has yet to send is there.
Publish(t) ==
    /\ OnTask(t, "got")
    /\ ~\E n \in Snapshots : Woken(n)
    /\ \/ /\ source # url[t]
          /\ phase' = [phase EXCEPT ![t] = "ended"]
          /\ UNCHANGED << latest, fired, box >>
       \/ /\ source = url[t]
          /\ phase' = [phase EXCEPT ![t] = "pause"]
          /\ latest' = carried[t]
          /\ fired' = fired \cup {event}
          /\ box' = [v \in Viewers |-> IF v \in subscribers
                                       THEN QueueLatest(box[v], carried[t])
                                       ELSE box[v]]
    /\ carried' = [carried EXCEPT ![t] = NoFrame]
    /\ UNCHANGED << subscribers, viewer, seen, gone, taken >>

\* CancelledError at the await of a cancelled task.
UnwindTask(t) ==
    /\ t \in cancelled
    /\ phase[t] \in {"pause", "get", "got"}
    /\ phase' = [phase EXCEPT ![t] = "ended"]
    /\ carried' = [carried EXCEPT ![t] = NoFrame]
    /\ UNCHANGED << client, task, created, url, cancelled, source, latest, event,
                    fired, viewerVars, callVars, stopVars, taken >>

(***************************************************************************)
(* stop()                                                                  *)
(***************************************************************************)

\* Under the lock: forget everything and cancel the task.
StopStream(s) ==
    /\ stopping[s] = "ready"
    /\ CancelTask
    /\ task' = NoTask
    /\ source' = NoSource
    /\ ForgetFrame
    /\ NewEvent
    /\ subscribers' = {}
    /\ joining' = [joining EXCEPT ![s] = task]
    /\ stopping' = [stopping EXCEPT ![s] = "join"]
    /\ UNCHANGED << client, created, phase, url, carried, viewer, box, seen,
                    gone, callVars, taken >>

\* The task, if there was one, has ended: aclose() begins, if there is a
\* client to close.
StopClose(s) ==
    /\ stopping[s] = "join"
    /\ joining[s] # NoTask => phase[joining[s]] = "ended"
    /\ client' = IF client = "none" THEN client ELSE "closing"
    /\ stopping' = [stopping EXCEPT ![s] = IF client = "none" THEN "done" ELSE "close"]
    /\ UNCHANGED << streamVars, viewerVars, callVars, joining, taken >>

\* aclose() returns: self._client = None.
StopDone(s) ==
    /\ stopping[s] = "close"
    /\ client' = "none"
    /\ stopping' = [stopping EXCEPT ![s] = "done"]
    /\ UNCHANGED << streamVars, viewerVars, callVars, joining, taken >>

-----------------------------------------------------------------------------

ViewerStep(v) ==
    StartViewer(v) \/ CheckViewer(v) \/ TakeFrame(v) \/ FrameTimeout(v) \/ FrameSent(v)

Next ==
    \/ \E n \in Snapshots : \/ \E u \in Sources : GetSnapshot(n, u)
                            \/ WakeSnapshot(n) \/ SnapshotTimeout(n)
    \/ \E v \in Viewers : \/ \E u \in Sources : Subscribe(v, u)
                          \/ ViewerStep(v) \/ Disconnect(v) \/ CloseViewer(v)
    \/ \E t \in Tasks : \/ Poll(t) \/ Capture(t) \/ GetFails(t) \/ Publish(t)
                        \/ UnwindTask(t)
    \/ \E s \in Stops : StopStream(s) \/ StopClose(s) \/ StopDone(s)

Spec == Init /\ [][Next]_vars

\* The event loop runs what is ready, timers expire, and the web server
\* goes on iterating over a response.  Nothing is assumed of the upstream:
\* a GET may hang for ever, its read timeout is None.
FairSnapshot(n) == WF_vars(WakeSnapshot(n)) /\ WF_vars(SnapshotTimeout(n))
FairViewer(v) == WF_vars(ViewerStep(v))
FairTask(t) == WF_vars(UnwindTask(t))
FairStop(s) == WF_vars(StopClose(s)) /\ WF_vars(StopDone(s))

Fairness ==
    /\ \A n \in Snapshots : FairSnapshot(n)
    /\ \A v \in Viewers : FairViewer(v)
    /\ \A t \in Tasks : FairTask(t)
    /\ \A s \in Stops : FairStop(s)

FairSpec == Spec /\ Fairness

-----------------------------------------------------------------------------
(***************************************************************************)
(* Properties                                                              *)
(***************************************************************************)

\* The latest frame is one of the current source: neither a switch of the
\* source nor a stop leaves a picture of the old one behind, and no task of
\* an earlier source publishes any more.
FrameMatchesSource == latest # NoFrame => latest.url = source

\* Only the current task polls; hence the test "self._source_url !=
\* snapshot_url" in _run_stream() never finds a difference.
OneStream ==
    \A t \in Tasks : phase[t] \in {"pause", "get", "got"} /\ t \notin cancelled
        => t = task /\ url[t] = source

\* The current event is set exactly when there is a frame: a caller that
\* finds no frame waits for the one to come, not on a spent event.
EventMeansFrame == event \in fired <=> latest # NoFrame

\* A waiting frame in the queue of a subscriber is the newest there is.
BoxIsFresh ==
    \A v \in subscribers : box[v] # NoFrame /\ latest # NoFrame => box[v] = latest

\* A snapshot is a picture of the source that was asked for, although the
\* frame is read after a suspension in which the source may have changed.
SnapshotOfSource ==
    \A n \in Snapshots : answer[n] # NoFrame => answer[n].url = asked[n]

\* A viewer never gets a picture twice, nor one taken before the last.
FramesInOrder ==
    [][\A v \in Viewers : seen'[v] # seen[v] => seen'[v].taken > seen[v].taken]_vars

\* The hub is the feed of module CameraFeed: the tasks, the events and the
\* subscriptions are its own business.
Feed == INSTANCE CameraFeed WITH
            newest <- latest, mailbox <- box, call <- snapshot, wanted <- asked

\* What the hub shows to its callers is what the abstract feed allows,
\* whatever they ask for and however the polling task is switched.
ServesAsFeed == Feed!Spec

\* get_snapshot() returns, whatever the camera does.
SnapshotReturns == \A n \in Snapshots : snapshot[n] = "wait" ~> snapshot[n] = "done"

\* A viewer that was served and has gone is unsubscribed in the end, even
\* when no frame ever comes.
GoneIsUnsubscribed ==
    \A v \in Viewers : v \in gone /\ viewer[v] \in {"check", "wait", "send"}
                           ~> v \notin subscribers

\* stop() returns, although it awaits a task whose GET may hang for ever,
\* and a late call may start another task meanwhile.
StopReturns == \A s \in Stops : stopping[s] = "join" ~> stopping[s] = "done"

=============================================================================
