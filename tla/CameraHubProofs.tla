--------------------------- MODULE CameraHubProofs --------------------------
(***************************************************************************)
(* Proofs about CameraHub, for any number of sources, viewers, snapshots   *)
(* and calls of stop(): the inductive invariant IInv, and from it that     *)
(* nobody is shown a picture of another source, an old one or one twice.   *)
(***************************************************************************)
EXTENDS CameraHub, TLAPS

(***************************************************************************)
(* The inductive invariant                                                 *)
(***************************************************************************)

\* Every task but the current one has been cancelled, and the current one
\* polls the current source.
TaskInv ==
    /\ \A t \in Tasks : phase[t] = "none" <=> t > created
    /\ \A t \in Tasks : t <= created => t = task \/ t \in cancelled
    /\ task # NoTask => task \notin cancelled /\ url[task] = source /\ source \in Sources
    /\ task = NoTask => source = NoSource
    /\ \A t \in Tasks : phase[t] # "none" => url[t] \in Sources

\* A frame on its way is of the source of its task.  One that will still be
\* published is newer than all that anybody has.
FrameInv ==
    /\ \A t \in Tasks : carried[t] # NoFrame <=> phase[t] = "got"
    /\ \A t \in Tasks : carried[t] # NoFrame
           => carried[t].url = url[t] /\ carried[t].taken <= taken
    /\ \A t \in Tasks : carried[t] # NoFrame /\ t \notin cancelled
           => /\ latest.taken < carried[t].taken
              /\ \A v \in Viewers : /\ box[v].taken < carried[t].taken
                                    /\ seen[v].taken < carried[t].taken

\* What is there to be seen was taken by now; a frame that waits for a
\* viewer is newer than the last one the viewer got.
ViewInv ==
    /\ latest.taken <= taken
    /\ \A v \in Viewers : box[v].taken <= taken /\ seen[v].taken <= taken
    /\ \A v \in Viewers : box[v] # NoFrame => seen[v].taken < box[v].taken
    /\ \A v \in Viewers : viewer[v] = "out"
           => box[v] = NoFrame /\ seen[v] = NoFrame /\ v \notin subscribers

\* A snapshot that waits on the current event waits for the current source.
\* One that was woken finds no frame but that of its own event, and it has
\* no answer before it is done.
WaitInv ==
    /\ \A n \in Snapshots : snapshot[n] = "wait" /\ awaited[n] = event
           => source = asked[n]
    /\ \A n \in Snapshots : Woken(n) /\ latest # NoFrame => awaited[n] = event
    /\ \A n \in Snapshots : snapshot[n] # "done" => answer[n] = NoFrame

IInv ==
    /\ TypeOK /\ TaskInv /\ FrameInv /\ ViewInv /\ WaitInv
    /\ FrameMatchesSource /\ EventMeansFrame /\ BoxIsFresh /\ SnapshotOfSource

\* NoFrame is no frame: its source is none.
LEMMA FrameTypes ==
    /\ NoFrame \notin Frames
    /\ NoFrame.url = NoSource /\ NoFrame.taken = 0
    /\ \A f \in Frames : f.url \in Sources /\ f.taken \in 1 .. MaxFrames
    /\ \A u \in Sources, k \in 1 .. MaxFrames :
           /\ [url |-> u, taken |-> k] \in Frames
           /\ [url |-> u, taken |-> k] # NoFrame
           /\ [url |-> u, taken |-> k].url = u
           /\ [url |-> u, taken |-> k].taken = k
BY HubAssumption DEF HubAssumption, Frames, NoFrame

(***************************************************************************)
(* What the calls that open a stream have in common                        *)
(***************************************************************************)

\* Opening a stream leaves everything as it is or starts a task, with a
\* fresh event and no frame.
LEMMA EnsureStreamCases ==
    ASSUME NEW u \in Sources, EnsureStream(u), IInv
    PROVE  \/ /\ UNCHANGED streamVars
              /\ source = u /\ task # NoTask
           \/ /\ task' = created + 1 /\ created' = created + 1
              /\ created < MaxTasks
              /\ cancelled' \in {cancelled, cancelled \cup {task}}
              /\ task # NoTask => task \in cancelled'
              /\ cancelled' \subseteq 1 .. created
              /\ cancelled \subseteq cancelled'
              /\ source' = u /\ latest' = NoFrame
              /\ event' = event + 1 /\ fired' = fired
              /\ phase' = [phase EXCEPT ![created + 1] = "pause"]
              /\ url' = [url EXCEPT ![created + 1] = u]
              /\ carried' = carried
<1>1. CASE Streaming(u) /\ UNCHANGED streamVars
  BY <1>1 DEF Streaming
<1>2. CASE SwitchStream(u)
  <2>1. task \in 0 .. created /\ created \in Nat /\ cancelled \subseteq 1 .. created
    BY HubAssumption DEF IInv, TypeOK, HubAssumption
  <2> QED
    BY <1>2, <2>1 DEF SwitchStream, CancelTask, ForgetFrame, NewEvent, NoTask
<1> QED
  BY <1>1, <1>2 DEF EnsureStream

\* Opening a stream keeps the types and what is said of tasks and frames.
LEMMA EnsureStreamKeeps ==
    ASSUME NEW u \in Sources, EnsureStream(u), IInv
    PROVE  /\ client' \in {"none", "open", "closing"}
           /\ task' \in 0 .. created' /\ created' \in 0 .. MaxTasks
           /\ phase' \in [Tasks -> {"none", "pause", "get", "got", "ended"}]
           /\ url' \in [Tasks -> Sources \cup {NoSource}]
           /\ carried' = carried
           /\ cancelled' \subseteq 1 .. created'
           /\ source' = u
           /\ latest' \in {latest, NoFrame}
           /\ event' \in Nat /\ fired' = fired
           /\ created <= created' /\ event <= event'
           /\ TaskInv'
           /\ FrameMatchesSource' /\ EventMeansFrame'
           /\ event' = event => UNCHANGED << source, latest >>
           /\ event' # event => latest' = NoFrame
           /\ \A t \in Tasks : carried[t] # NoFrame =>
                  phase'[t] = "got" /\ url'[t] = url[t]
           /\ \A t \in Tasks : phase'[t] = "got" => phase[t] = "got"
           /\ cancelled \subseteq cancelled'
<1> USE HubAssumption DEF HubAssumption, IInv, TypeOK, Tasks, NoTask
<1>0. client' \in {"none", "open", "closing"}
  BY DEF EnsureStream, StartClient
<1>1. CASE UNCHANGED streamVars /\ source = u /\ task # NoTask
  <2>1. UNCHANGED << task, created, phase, url, carried, cancelled, source, latest, event, fired >>
    BY <1>1 DEF streamVars
  <2>2. TaskInv'
    BY <2>1 DEF TaskInv
  <2>3. FrameMatchesSource' /\ EventMeansFrame'
    BY <2>1 DEF FrameMatchesSource, EventMeansFrame
  <2> QED
    BY <1>0, <1>1, <2>1, <2>2, <2>3 DEF FrameInv
<1>2. CASE /\ task' = created + 1 /\ created' = created + 1
           /\ created < MaxTasks
           /\ cancelled' \in {cancelled, cancelled \cup {task}}
           /\ task # NoTask => task \in cancelled'
           /\ cancelled' \subseteq 1 .. created
           /\ cancelled \subseteq cancelled'
           /\ source' = u /\ latest' = NoFrame
           /\ event' = event + 1 /\ fired' = fired
           /\ phase' = [phase EXCEPT ![created + 1] = "pause"]
           /\ url' = [url EXCEPT ![created + 1] = u]
           /\ carried' = carried
  <2>1. created + 1 \in Tasks /\ created \in Nat /\ phase[created + 1] = "none"
    BY <1>2 DEF TaskInv
  <2>2. \A t \in Tasks : t # created + 1 => phase'[t] = phase[t] /\ url'[t] = url[t]
    BY <1>2, <2>1
  <2>3. phase'[created + 1] = "pause" /\ url'[created + 1] = u
    BY <1>2, <2>1
  <2>4. TaskInv'
    <3>1. \A t \in Tasks : phase'[t] = "none" <=> t > created'
      BY <1>2, <2>1, <2>2, <2>3 DEF TaskInv
    <3>2. \A t \in Tasks : t <= created' => t = task' \/ t \in cancelled'
      BY <1>2, <2>1 DEF TaskInv
    <3>3. task' # NoTask /\ task' \notin cancelled' /\ url'[task'] = source'
          /\ source' \in Sources
      BY <1>2, <2>1, <2>3
    <3>4. \A t \in Tasks : phase'[t] # "none" => url'[t] \in Sources
      BY <2>1, <2>2, <2>3 DEF TaskInv
    <3> QED
      BY <3>1, <3>2, <3>3, <3>4 DEF TaskInv
  <2>5. FrameMatchesSource' /\ EventMeansFrame'
    BY <1>2 DEF FrameMatchesSource, EventMeansFrame
  <2>6. \A t \in Tasks : carried[t] # NoFrame => phase'[t] = "got" /\ url'[t] = url[t]
    BY <2>1, <2>2 DEF FrameInv
  <2>7. \A t \in Tasks : phase'[t] = "got" => phase[t] = "got"
    BY <2>2, <2>3
  <2> QED
    BY <1>0, <1>2, <2>1, <2>4, <2>5, <2>6, <2>7
<1> QED
  BY <1>1, <1>2, EnsureStreamCases

\* A frame on its way stays what it was.
LEMMA EnsureStreamCarries ==
    ASSUME NEW u \in Sources, EnsureStream(u), IInv, NEW t \in Tasks
    PROVE  /\ carried'[t] # NoFrame <=> phase'[t] = "got"
           /\ carried'[t] # NoFrame
                 => carried'[t].url = url'[t] /\ carried'[t].taken <= taken
           /\ carried'[t] # NoFrame /\ t \notin cancelled'
                 => /\ latest'.taken < carried'[t].taken
                    /\ \A v \in Viewers : /\ box[v].taken < carried'[t].taken
                                          /\ seen[v].taken < carried'[t].taken
<1>1. carried' = carried /\ cancelled \subseteq cancelled' /\ latest' \in {latest, NoFrame}
  BY EnsureStreamKeeps
<1>2. FrameInv /\ carried[t] \in Frames \cup {NoFrame}
  BY DEF IInv, TypeOK
<1>3. carried[t] # NoFrame <=> phase'[t] = "got"
  BY <1>2, EnsureStreamKeeps DEF FrameInv
<1>4. carried[t] # NoFrame => carried[t].url = url'[t] /\ carried[t].taken <= taken
  BY <1>2, EnsureStreamKeeps DEF FrameInv
<1>5. carried[t] # NoFrame => NoFrame.taken < carried[t].taken
  BY <1>2, FrameTypes, HubAssumption DEF HubAssumption
<1> QED
  BY <1>1, <1>2, <1>3, <1>4, <1>5 DEF FrameInv

\* Nothing of the stream changes.
LEMMA StreamUntouched ==
    ASSUME IInv, UNCHANGED streamVars
    PROVE  /\ TaskInv' /\ FrameMatchesSource' /\ EventMeansFrame'
           /\ UNCHANGED << task, created, phase, url, carried, cancelled, source,
                           latest, event, fired >>
<1>1. UNCHANGED << task, created, phase, url, carried, cancelled, source, latest, event, fired >>
  BY DEF streamVars
<1>2. TaskInv'
  BY <1>1 DEF IInv, TaskInv
<1> QED
  BY <1>1, <1>2 DEF IInv, FrameMatchesSource, EventMeansFrame

(***************************************************************************)
(* get_snapshot()                                                          *)
(***************************************************************************)

\* get_snapshot() opens the stream and returns a frame or waits.
LEMMA StepGetSnapshot ==
    ASSUME IInv, NEW n \in Snapshots, NEW u \in Sources, GetSnapshot(n, u)
    PROVE  IInv'
<1> USE HubAssumption DEF HubAssumption, IInv, TypeOK
<1>1. EnsureStream(u) /\ UNCHANGED << subscribers, viewer, box, seen, gone, stopping, joining, taken >>
      /\ snapshot[n] = "out" /\ asked' = [asked EXCEPT ![n] = u]
  BY DEF GetSnapshot, viewerVars, stopVars
<1> DEFINE Found == /\ latest' # NoFrame
                    /\ answer' = [answer EXCEPT ![n] = latest']
                    /\ snapshot' = [snapshot EXCEPT ![n] = "done"]
                    /\ UNCHANGED awaited
           Waits == /\ latest' = NoFrame
                    /\ awaited' = [awaited EXCEPT ![n] = event']
                    /\ snapshot' = [snapshot EXCEPT ![n] = "wait"]
                    /\ UNCHANGED answer
<1>2. Found \/ Waits
  BY DEF GetSnapshot
<1> HIDE DEF Found, Waits
<1>3. TypeOK'
  <2>1. /\ snapshot' \in [Snapshots -> {"out", "wait", "done"}]
        /\ asked' \in [Snapshots -> Sources \cup {NoSource}]
        /\ answer' \in [Snapshots -> Frames \cup {NoFrame}]
    BY <1>1, <1>2, EnsureStreamKeeps DEF Found, Waits
  <2>2. awaited' \in [Snapshots -> 0 .. event']
    BY <1>1, <1>2, EnsureStreamKeeps DEF Found, Waits
  <2>3. fired' \subseteq 0 .. event'
    <3>1. event \in Nat /\ fired \subseteq 0 .. event /\ event' \in Nat
          /\ fired' = fired /\ event <= event'
      BY <1>1, EnsureStreamKeeps
    <3> HIDE DEF IInv, TypeOK
    <3> QED
      BY <3>1
  <2>5. joining' \in [Stops -> 0 .. created']
    <3>1. created \in Nat /\ created' \in Nat /\ created <= created'
          /\ joining \in [Stops -> 0 .. created] /\ joining' = joining
      BY <1>1, EnsureStreamKeeps
    <3> HIDE DEF IInv, TypeOK
    <3> QED
      BY <3>1
  <2>4. latest' \in Frames \cup {NoFrame}
    BY <1>1, EnsureStreamKeeps
  <2> QED
    BY <1>1, <2>1, <2>2, <2>3, <2>4, <2>5, EnsureStreamKeeps
<1>4. FrameInv'
  <2>1. ASSUME NEW t \in Tasks
        PROVE  /\ carried'[t] # NoFrame <=> phase'[t] = "got"
               /\ carried'[t] # NoFrame
                     => carried'[t].url = url'[t] /\ carried'[t].taken <= taken'
    BY EnsureStreamCarries, <1>1
  <2>2. ASSUME NEW t \in Tasks, carried'[t] # NoFrame, t \notin cancelled'
        PROVE  /\ latest'.taken < carried'[t].taken
               /\ \A v \in Viewers : /\ box'[v].taken < carried'[t].taken
                                     /\ seen'[v].taken < carried'[t].taken
    BY EnsureStreamCarries, <1>1, <2>2
  <2> QED
    BY <2>1, <2>2 DEF FrameInv
<1>5. ViewInv'
  BY <1>1, EnsureStreamKeeps, FrameTypes DEF ViewInv
<1>6. WaitInv'
  <2>1. ASSUME NEW k \in Snapshots, snapshot'[k] = "wait", awaited'[k] = event'
        PROVE  source' = asked'[k]
    <3>1. CASE k = n
      BY <1>1, <3>1, EnsureStreamKeeps
    <3>2. CASE k # n
      <4>1. snapshot[k] = "wait" /\ awaited[k] = event' /\ asked'[k] = asked[k]
        BY <1>1, <1>2, <2>1, <3>2 DEF Found, Waits
      <4>2. awaited[k] <= event
        OBVIOUS
      <4>3. event' = event
        BY <1>1, <4>1, <4>2, EnsureStreamKeeps
      <4> QED
        BY <1>1, <4>1, <4>3, EnsureStreamKeeps DEF WaitInv
    <3> QED
      BY <3>1, <3>2
  <2>2. ASSUME NEW k \in Snapshots, Woken(k)', latest' # NoFrame
        PROVE  awaited'[k] = event'
    <3>1. event' = event /\ latest' = latest /\ fired' = fired
      BY <1>1, <2>2, EnsureStreamKeeps
    <3>2. k # n
      BY <1>2, <2>2 DEF Woken, Found, Waits
    <3>3. Woken(k) /\ awaited'[k] = awaited[k]
      BY <1>2, <2>2, <3>1, <3>2 DEF Woken, Found, Waits
    <3> QED
      BY <2>2, <3>1, <3>3 DEF WaitInv
  <2>3. ASSUME NEW k \in Snapshots, snapshot'[k] # "done" PROVE answer'[k] = NoFrame
    BY <1>1, <1>2, <2>3 DEF Found, Waits, WaitInv
  <2> QED
    BY <2>1, <2>2, <2>3 DEF WaitInv
<1>7. BoxIsFresh'
  BY <1>1, EnsureStreamKeeps DEF BoxIsFresh
<1>8. SnapshotOfSource'
  <2>1. ASSUME NEW k \in Snapshots, answer'[k] # NoFrame PROVE answer'[k].url = asked'[k]
    <3>1. CASE k # n
      BY <1>1, <1>2, <2>1, <3>1 DEF Found, Waits, SnapshotOfSource
    <3>2. CASE k = n /\ Found
      BY <1>1, <2>1, <3>2, EnsureStreamKeeps DEF Found, FrameMatchesSource
    <3>3. CASE k = n /\ Waits
      <4>1. answer[n] # NoFrame
        BY <2>1, <3>3 DEF Waits
      <4> QED
        BY <1>1, <4>1 DEF WaitInv
    <3> QED
      BY <1>2, <3>1, <3>2, <3>3
  <2> QED
    BY <2>1 DEF SnapshotOfSource
<1> QED
  BY <1>1, <1>3, <1>4, <1>5, <1>6, <1>7, <1>8, EnsureStreamKeeps

\* A waiter that is woken reads a frame of the source it asked for.
LEMMA StepWakeSnapshot ==
    ASSUME IInv, NEW n \in Snapshots, WakeSnapshot(n)
    PROVE  IInv'
<1>1. /\ UNCHANGED << client, streamVars, subscribers, viewer, box, seen, gone, asked,
                      awaited, stopping, joining, taken >>
      /\ answer' = [answer EXCEPT ![n] = latest]
      /\ snapshot' = [snapshot EXCEPT ![n] = "done"]
  BY DEF WakeSnapshot, viewerVars, stopVars
<1>2. /\ TaskInv' /\ FrameMatchesSource' /\ EventMeansFrame'
      /\ UNCHANGED << task, created, phase, url, carried, cancelled, source,
                      latest, event, fired >>
  BY <1>1, StreamUntouched
<1>3. TypeOK'
  BY <1>1, <1>2 DEF IInv, TypeOK
<1>4. FrameInv' /\ ViewInv' /\ BoxIsFresh'
  BY <1>1, <1>2 DEF IInv, FrameInv, ViewInv, BoxIsFresh
<1>5. WaitInv'
  BY <1>1, <1>2 DEF IInv, TypeOK, WaitInv, Woken
<1>6. SnapshotOfSource'
  <2>1. latest # NoFrame => latest.url = asked[n]
    BY DEF IInv, WaitInv, WakeSnapshot, Woken, FrameMatchesSource
  <2> QED
    BY <1>1, <2>1 DEF IInv, TypeOK, SnapshotOfSource
<1> QED
  BY <1>2, <1>3, <1>4, <1>5, <1>6 DEF IInv

\* A waiter that gives up has no answer.
LEMMA StepSnapshotTimeout ==
    ASSUME IInv, NEW n \in Snapshots, SnapshotTimeout(n)
    PROVE  IInv'
<1>1. /\ UNCHANGED << client, streamVars, subscribers, viewer, box, seen, gone, asked,
                      awaited, answer, stopping, joining, taken >>
      /\ snapshot' = [snapshot EXCEPT ![n] = "done"]
  BY DEF SnapshotTimeout, viewerVars, stopVars
<1>2. /\ TaskInv' /\ FrameMatchesSource' /\ EventMeansFrame'
      /\ UNCHANGED << task, created, phase, url, carried, cancelled, source,
                      latest, event, fired >>
  BY <1>1, StreamUntouched
<1>3. TypeOK'
  BY <1>1, <1>2 DEF IInv, TypeOK
<1>4. FrameInv' /\ ViewInv' /\ BoxIsFresh' /\ SnapshotOfSource'
  BY <1>1, <1>2 DEF IInv, FrameInv, ViewInv, BoxIsFresh, SnapshotOfSource
<1>5. WaitInv'
  BY <1>1, <1>2 DEF IInv, TypeOK, WaitInv, Woken
<1> QED
  BY <1>2, <1>3, <1>4, <1>5 DEF IInv

(***************************************************************************)
(* The viewers                                                             *)
(***************************************************************************)

\* Whatever leaves the stream and the snapshots alone keeps what is said of
\* them.
LEMMA CallsUntouched ==
    ASSUME IInv, UNCHANGED << streamVars, callVars >>
    PROVE  WaitInv' /\ SnapshotOfSource'
BY StreamUntouched DEF IInv, callVars, WaitInv, Woken, SnapshotOfSource

\* A viewer that has subscribed goes on, with the frame of its queue or
\* without.
LEMMA ViewerKeeps ==
    ASSUME IInv, NEW v \in Viewers, viewer[v] # "out",
           UNCHANGED << client, streamVars, callVars, stopVars, taken >>,
           NEW to \in {"ready", "check", "wait", "send", "left", "dropped"},
           viewer' = [viewer EXCEPT ![v] = to],
           subscribers' \subseteq subscribers, gone' \subseteq Viewers,
           \/ UNCHANGED << box, seen >>
           \/ /\ seen' = [seen EXCEPT ![v] = box[v]]
              /\ box' = [box EXCEPT ![v] = NoFrame]
    PROVE  IInv'
<1>1. /\ TaskInv' /\ FrameMatchesSource' /\ EventMeansFrame'
      /\ UNCHANGED << task, created, phase, url, carried, cancelled, source,
                      latest, event, fired >>
  BY StreamUntouched
<1>2. WaitInv' /\ SnapshotOfSource'
  BY CallsUntouched
<1>3. UNCHANGED << snapshot, asked, awaited, answer, stopping, joining >>
  BY DEF callVars, stopVars
<1>4. box \in [Viewers -> Frames \cup {NoFrame}] /\ seen \in [Viewers -> Frames \cup {NoFrame}]
      /\ viewer \in [Viewers -> {"out", "ready", "check", "wait", "send", "left", "dropped"}]
  BY DEF IInv, TypeOK
<1>5. \A w \in Viewers : /\ box'[w] \in {box[w], NoFrame}
                         /\ \/ seen'[w] = seen[w]
                            \/ seen'[w] = box[w] /\ box'[w] = NoFrame
                         /\ viewer'[w] = "out" => /\ viewer[w] = "out"
                                                  /\ box'[w] = box[w] /\ seen'[w] = seen[w]
  <2>1. viewer'[v] # "out" /\ \A w \in Viewers : w # v => viewer'[w] = viewer[w]
    BY <1>4
  <2>2. CASE UNCHANGED << box, seen >>
    BY <2>1, <2>2
  <2>3. CASE seen' = [seen EXCEPT ![v] = box[v]] /\ box' = [box EXCEPT ![v] = NoFrame]
    <3>1. seen'[v] = box[v] /\ box'[v] = NoFrame
      BY <1>4, <2>3
    <3>2. \A w \in Viewers : w # v => seen'[w] = seen[w] /\ box'[w] = box[w]
      BY <1>4, <2>3
    <3> QED
      BY <2>1, <3>1, <3>2
  <2> QED
    BY <2>2, <2>3
<1>6. TypeOK'
  BY <1>1, <1>3, <1>4 DEF IInv, TypeOK
<1>7. FrameInv'
  <2>1. ASSUME NEW t \in Tasks, carried[t] # NoFrame
        PROVE  NoFrame.taken < carried[t].taken
    BY <2>1, FrameTypes, HubAssumption DEF IInv, TypeOK, HubAssumption
  <2> QED
    BY <1>1, <1>5, <2>1 DEF IInv, FrameInv
<1>8. ViewInv'
  <2>1. NoFrame.taken <= taken
    BY FrameTypes DEF IInv, TypeOK
  <2> QED
    BY <1>1, <1>5, <2>1 DEF IInv, ViewInv
<1>9. BoxIsFresh'
  BY <1>1, <1>5 DEF IInv, TypeOK, BoxIsFresh
<1> QED
  BY <1>1, <1>2, <1>6, <1>7, <1>8, <1>9 DEF IInv

\* All that a viewer does after it has subscribed.
LEMMA StepViewer ==
    ASSUME IInv, NEW v \in Viewers, ViewerStep(v) \/ Disconnect(v) \/ CloseViewer(v)
    PROVE  IInv'
<1> USE ViewerKeeps DEF IInv, TypeOK, MoveViewer
<1>1. CASE StartViewer(v)
  BY <1>1 DEF StartViewer
<1>2. CASE CheckViewer(v)
  BY <1>2 DEF CheckViewer
<1>3. CASE TakeFrame(v)
  BY <1>3 DEF TakeFrame
<1>4. CASE FrameTimeout(v)
  BY <1>4 DEF FrameTimeout
<1>5. CASE FrameSent(v)
  BY <1>5 DEF FrameSent
<1>6. CASE CloseViewer(v)
  BY <1>6 DEF CloseViewer
<1>7. CASE Disconnect(v)
  <2>1. viewer' = [viewer EXCEPT ![v] = viewer[v]] /\ viewer[v] # "out"
    BY <1>7 DEF Disconnect, Viewing
  <2> QED
    BY <1>7, <2>1 DEF Disconnect, Viewing
<1> QED
  BY <1>1, <1>2, <1>3, <1>4, <1>5, <1>6, <1>7 DEF ViewerStep

\* A new viewer finds the latest frame in its queue, if there is one.
LEMMA StepSubscribe ==
    ASSUME IInv, NEW v \in Viewers, NEW u \in Sources, Subscribe(v, u)
    PROVE  IInv'
<1> USE HubAssumption DEF HubAssumption
<1>1. /\ EnsureStream(u) /\ viewer[v] = "out"
      /\ UNCHANGED << seen, gone, snapshot, asked, awaited, answer, stopping, joining, taken >>
      /\ subscribers' = subscribers \cup {v}
      /\ viewer' = [viewer EXCEPT ![v] = "ready"]
      /\ box' = IF latest' = NoFrame THEN box ELSE [box EXCEPT ![v] = latest']
  BY DEF Subscribe, QueueLatest, callVars, stopVars
<1>2. /\ box \in [Viewers -> Frames \cup {NoFrame}]
      /\ seen \in [Viewers -> Frames \cup {NoFrame}]
      /\ viewer \in [Viewers -> {"out", "ready", "check", "wait", "send", "left", "dropped"}]
      /\ latest \in Frames \cup {NoFrame} /\ taken \in 0 .. MaxFrames
      /\ event \in Nat /\ fired \subseteq 0 .. event /\ created \in Nat
      /\ awaited \in [Snapshots -> 0 .. event]
  BY DEF IInv, TypeOK
<1>3. box[v] = NoFrame /\ seen[v] = NoFrame /\ v \notin subscribers
  BY <1>1 DEF IInv, ViewInv
<1>4. latest' \in {latest, NoFrame} /\ event' \in Nat /\ event <= event' /\ fired' = fired
      /\ (event' = event => source' = source /\ latest' = latest)
      /\ (event' # event => latest' = NoFrame)
  BY <1>1, EnsureStreamKeeps
<1>5. /\ box'[v] = latest' /\ \A w \in Viewers : w # v => box'[w] = box[w]
      /\ viewer'[v] = "ready" /\ \A w \in Viewers : w # v => viewer'[w] = viewer[w]
      /\ box' \in [Viewers -> Frames \cup {NoFrame}]
  BY <1>1, <1>2, <1>3, <1>4
<1>6. TypeOK'
  <2>1. /\ fired' \subseteq 0 .. event' /\ awaited' \in [Snapshots -> 0 .. event']
    BY <1>1, <1>2, <1>4
  <2>2. joining' \in [Stops -> 0 .. created']
    <3>1. /\ created' \in Nat /\ created <= created'
          /\ joining \in [Stops -> 0 .. created] /\ joining' = joining
      BY <1>1, EnsureStreamKeeps DEF IInv, TypeOK
    <3> QED
      BY <1>2, <3>1
  <2>3. /\ viewer' \in [Viewers -> {"out", "ready", "check", "wait", "send", "left", "dropped"}]
        /\ subscribers' \subseteq Viewers /\ latest' \in Frames \cup {NoFrame}
    BY <1>1, <1>2, <1>4 DEF IInv, TypeOK
  <2> QED
    BY <1>1, <1>5, <2>1, <2>2, <2>3, EnsureStreamKeeps DEF IInv, TypeOK
<1>7. FrameInv'
  <2>1. ASSUME NEW t \in Tasks
        PROVE  /\ carried'[t] # NoFrame <=> phase'[t] = "got"
               /\ carried'[t] # NoFrame
                     => carried'[t].url = url'[t] /\ carried'[t].taken <= taken'
    BY EnsureStreamCarries, <1>1
  <2>2. ASSUME NEW t \in Tasks, carried'[t] # NoFrame, t \notin cancelled'
        PROVE  /\ latest'.taken < carried'[t].taken
               /\ \A w \in Viewers : /\ box'[w].taken < carried'[t].taken
                                     /\ seen'[w].taken < carried'[t].taken
    BY EnsureStreamCarries, <1>1, <1>5, <2>2
  <2> QED
    BY <2>1, <2>2 DEF FrameInv
<1>8. ViewInv'
  <2>1. ViewInv /\ NoFrame.taken = 0 /\ (latest # NoFrame => latest.taken > 0)
    BY <1>2, FrameTypes DEF IInv
  <2>2. latest'.taken <= taken'
    BY <1>1, <1>2, <1>4, <2>1 DEF ViewInv
  <2>3. ASSUME NEW w \in Viewers
        PROVE  /\ box'[w].taken <= taken' /\ seen'[w].taken <= taken'
               /\ box'[w] # NoFrame => seen'[w].taken < box'[w].taken
               /\ viewer'[w] = "out"
                     => box'[w] = NoFrame /\ seen'[w] = NoFrame /\ w \notin subscribers'
    <3>1. CASE w = v
      BY <1>1, <1>3, <1>4, <1>5, <2>1, <2>2, <3>1 DEF ViewInv
    <3>2. CASE w # v
      BY <1>1, <1>5, <2>1, <3>2 DEF ViewInv
    <3> QED
      BY <3>1, <3>2
  <2> QED
    BY <2>2, <2>3 DEF ViewInv
<1>9. WaitInv'
  <2>1. WaitInv
    BY DEF IInv
  <2>2. \A n \in Snapshots : snapshot[n] = "wait" /\ awaited[n] = event' => source' = asked[n]
    <3>1. \A n \in Snapshots : awaited[n] <= event
      BY <1>2
    <3> QED
      BY <1>2, <1>4, <2>1, <3>1 DEF WaitInv
  <2>3. \A n \in Snapshots : Woken(n) /\ latest' # NoFrame => awaited[n] = event'
    BY <1>4, <2>1 DEF WaitInv
  <2> QED
    BY <1>1, <1>4, <2>1, <2>2, <2>3 DEF WaitInv, Woken
<1>10. BoxIsFresh'
  BY <1>1, <1>4, <1>5 DEF IInv, BoxIsFresh, TypeOK
<1>11. SnapshotOfSource'
  BY <1>1 DEF IInv, SnapshotOfSource
<1> QED
  BY <1>1, <1>6, <1>7, <1>8, <1>9, <1>10, <1>11, EnsureStreamKeeps DEF IInv

(***************************************************************************)
(* The task                                                                *)
(***************************************************************************)

\* A task goes on without a frame: it polls, its request fails, it ends.
LEMMA TaskKeeps ==
    ASSUME IInv, NEW t \in Tasks, phase[t] \in {"pause", "get", "got"},
           NEW to \in {"pause", "get", "ended"},
           phase' = [phase EXCEPT ![t] = to],
           carried' \in {carried, [carried EXCEPT ![t] = NoFrame]},
           phase[t] = "got" => carried' # carried,
           UNCHANGED << client, task, created, url, cancelled, source, event, latest,
                        fired, viewerVars, callVars, stopVars, taken >>
    PROVE  IInv'
<1>1. /\ carried \in [Tasks -> Frames \cup {NoFrame}]
      /\ phase \in [Tasks -> {"none", "pause", "get", "got", "ended"}]
  BY DEF IInv, TypeOK
<1>2. /\ phase'[t] = to /\ \A k \in Tasks : k # t => phase'[k] = phase[k] /\ carried'[k] = carried[k]
      /\ carried'[t] = NoFrame
  BY <1>1 DEF IInv, FrameInv
<1>3. UNCHANGED << subscribers, viewer, box, seen, gone, snapshot, asked, awaited, answer,
                   stopping, joining >>
  BY DEF viewerVars, callVars, stopVars
<1>4. TypeOK'
  BY <1>1, <1>3 DEF IInv, TypeOK
<1>5. TaskInv'
  BY <1>2 DEF IInv, TaskInv
<1>6. FrameInv'
  BY <1>2, <1>3 DEF IInv, FrameInv
<1> QED
  BY <1>3, <1>4, <1>5, <1>6 DEF IInv, ViewInv, WaitInv, Woken, FrameMatchesSource,
                                EventMeansFrame, BoxIsFresh, SnapshotOfSource

\* The steps of a task that bring no frame.
LEMMA StepTask ==
    ASSUME IInv, NEW t \in Tasks, Poll(t) \/ GetFails(t) \/ UnwindTask(t)
    PROVE  IInv'
<1>1. CASE Poll(t)
  BY <1>1, TaskKeeps DEF IInv, TypeOK, Poll, OnTask
<1>2. CASE GetFails(t)
  <2>1. phase[t] = "got" => carried' # carried
    BY <1>2 DEF IInv, TypeOK, FrameInv, GetFails
  <2> QED
    BY <1>2, <2>1, TaskKeeps DEF GetFails, OnTask
<1>3. CASE UnwindTask(t)
  <2>1. phase[t] = "got" => carried' # carried
    BY <1>3 DEF IInv, TypeOK, FrameInv, UnwindTask
  <2> QED
    BY <1>3, <2>1, TaskKeeps DEF UnwindTask
<1> QED
  BY <1>1, <1>2, <1>3

\* A new picture is newer than all there is.
LEMMA StepCapture ==
    ASSUME IInv, NEW t \in Tasks, Capture(t)
    PROVE  IInv'
<1> USE HubAssumption DEF HubAssumption
<1> DEFINE frame == [url |-> url[t], taken |-> taken + 1]
<1>1. /\ phase[t] = "get" /\ taken < MaxFrames /\ taken' = taken + 1
      /\ carried' = [carried EXCEPT ![t] = frame]
      /\ phase' = [phase EXCEPT ![t] = "got"]
      /\ UNCHANGED << client, task, created, url, cancelled, source, latest, event, fired,
                      subscribers, viewer, box, seen, gone, snapshot, asked, awaited,
                      answer, stopping, joining >>
  BY DEF Capture, viewerVars, callVars, stopVars
<1>2. /\ carried \in [Tasks -> Frames \cup {NoFrame}]
      /\ phase \in [Tasks -> {"none", "pause", "get", "got", "ended"}]
      /\ taken \in 0 .. MaxFrames
      /\ latest \in Frames \cup {NoFrame}
      /\ box \in [Viewers -> Frames \cup {NoFrame}]
      /\ seen \in [Viewers -> Frames \cup {NoFrame}]
  BY DEF IInv, TypeOK
<1>3. url[t] \in Sources
  BY <1>1 DEF IInv, TaskInv
<1>4. frame \in Frames /\ frame # NoFrame /\ frame.url = url[t] /\ frame.taken = taken + 1
  BY <1>1, <1>2, <1>3, FrameTypes
<1> HIDE DEF frame
<1>5. /\ phase'[t] = "got" /\ carried'[t] = frame
      /\ \A k \in Tasks : k # t => phase'[k] = phase[k] /\ carried'[k] = carried[k]
  BY <1>1, <1>2
<1>6. \A k \in Tasks : carried[k] \in Frames \cup {NoFrame} /\ carried[k].taken \in Nat
  BY <1>2, FrameTypes
<1>7. TypeOK'
  BY <1>1, <1>2, <1>4 DEF IInv, TypeOK
<1>8. TaskInv'
  BY <1>1, <1>5 DEF IInv, TaskInv
<1>9. FrameInv'
  <2>1. latest.taken < frame.taken
        /\ \A v \in Viewers : box[v].taken < frame.taken /\ seen[v].taken < frame.taken
    <3>1. /\ latest.taken \in Nat
          /\ \A v \in Viewers : box[v].taken \in Nat /\ seen[v].taken \in Nat
      BY <1>2, FrameTypes
    <3> QED
      BY <1>2, <1>4, <3>1 DEF IInv, ViewInv
  <2>2. \A k \in Tasks : carried[k].taken <= taken => carried[k].taken <= taken'
    BY <1>1, <1>2, <1>6
  <2> QED
    BY <1>1, <1>2, <1>4, <1>5, <2>1, <2>2 DEF IInv, FrameInv
<1>10. ViewInv'
  <2>1. /\ latest.taken \in Nat
        /\ \A v \in Viewers : box[v].taken \in Nat /\ seen[v].taken \in Nat
    BY <1>2, FrameTypes
  <2> QED
    BY <1>1, <1>2, <2>1 DEF IInv, ViewInv
<1> QED
  BY <1>1, <1>7, <1>8, <1>9, <1>10 DEF IInv, WaitInv, Woken, FrameMatchesSource,
                                       EventMeansFrame, BoxIsFresh, SnapshotOfSource

\* Only the current task publishes, so the frame is of the current source.
LEMMA StepPublish ==
    ASSUME IInv, NEW t \in Tasks, Publish(t)
    PROVE  IInv'
<1> USE HubAssumption DEF HubAssumption
<1>1. /\ t \notin cancelled /\ phase[t] = "got"
      /\ UNCHANGED << client, task, created, url, cancelled, source, event, subscribers,
                      viewer, seen, gone, snapshot, asked, awaited, answer, stopping,
                      joining, taken >>
      /\ carried' = [carried EXCEPT ![t] = NoFrame]
      /\ \A n \in Snapshots : ~Woken(n)
  BY DEF Publish, OnTask, callVars, stopVars
<1>2. /\ carried \in [Tasks -> Frames \cup {NoFrame}]
      /\ phase \in [Tasks -> {"none", "pause", "get", "got", "ended"}]
      /\ box \in [Viewers -> Frames \cup {NoFrame}]
      /\ subscribers \subseteq Viewers /\ event \in Nat /\ fired \subseteq 0 .. event
      /\ created \in 0 .. MaxTasks
  BY DEF IInv, TypeOK
<1>3. t = task /\ task # NoTask /\ url[t] = source /\ source \in Sources
  BY <1>1, <1>2 DEF IInv, TaskInv, Tasks, NoTask
<1>4. /\ phase' = [phase EXCEPT ![t] = "pause"]
      /\ latest' = carried[t] /\ fired' = fired \cup {event}
      /\ box' = [v \in Viewers |-> IF v \in subscribers THEN carried[t] ELSE box[v]]
  BY <1>3 DEF Publish, QueueLatest
<1>5. /\ carried[t] \in Frames /\ carried[t] # NoFrame /\ carried[t].url = source
      /\ carried[t].taken <= taken
      /\ \A v \in Viewers : seen[v].taken < carried[t].taken
  BY <1>1, <1>2, <1>3 DEF IInv, FrameInv
<1>6. /\ phase'[t] = "pause" /\ carried'[t] = NoFrame
      /\ \A k \in Tasks : k # t => phase'[k] = phase[k] /\ carried'[k] = carried[k]
  BY <1>1, <1>2, <1>4
<1>7. TypeOK'
  <2>1. /\ phase' \in [Tasks -> {"none", "pause", "get", "got", "ended"}]
        /\ carried' \in [Tasks -> Frames \cup {NoFrame}]
        /\ box' \in [Viewers -> Frames \cup {NoFrame}]
        /\ fired' \subseteq 0 .. event'
    BY <1>1, <1>2, <1>4, <1>5
  <2> QED
    BY <1>1, <1>4, <1>5, <2>1 DEF IInv, TypeOK
<1>8. TaskInv'
  BY <1>1, <1>6 DEF IInv, TaskInv
<1>9. FrameInv'
  <2>1. \A k \in Tasks : k # t /\ carried[k] # NoFrame => k \in cancelled
    BY <1>2, <1>3 DEF IInv, TaskInv, FrameInv, Tasks, NoTask
  <2> QED
    BY <1>1, <1>6, <2>1 DEF IInv, FrameInv
<1>10. ViewInv'
  BY <1>1, <1>4, <1>5 DEF IInv, ViewInv
<1>11. WaitInv' /\ SnapshotOfSource'
  BY <1>1, <1>4 DEF IInv, WaitInv, Woken, SnapshotOfSource
<1>12. FrameMatchesSource' /\ EventMeansFrame' /\ BoxIsFresh'
  BY <1>1, <1>2, <1>4, <1>5 DEF FrameMatchesSource, EventMeansFrame, BoxIsFresh
<1> QED
  BY <1>7, <1>8, <1>9, <1>10, <1>11, <1>12 DEF IInv

(***************************************************************************)
(* stop()                                                                  *)
(***************************************************************************)

\* stop() forgets the frame with the source.
LEMMA StepStopStream ==
    ASSUME IInv, NEW s \in Stops, StopStream(s)
    PROVE  IInv'
<1> USE HubAssumption DEF HubAssumption
<1>1. /\ task' = NoTask /\ source' = NoSource /\ latest' = NoFrame
      /\ cancelled' = IF task = NoTask THEN cancelled ELSE cancelled \cup {task}
      /\ event' = event + 1 /\ fired' = fired /\ subscribers' = {}
      /\ joining' = [joining EXCEPT ![s] = task]
      /\ stopping' = [stopping EXCEPT ![s] = "join"]
      /\ UNCHANGED << client, created, phase, url, carried, viewer, box, seen, gone,
                      snapshot, asked, awaited, answer, taken >>
  BY DEF StopStream, CancelTask, ForgetFrame, NewEvent, callVars
<1>2. /\ carried \in [Tasks -> Frames \cup {NoFrame}] /\ created \in 0 .. MaxTasks
      /\ task \in 0 .. created /\ cancelled \subseteq 1 .. created
      /\ event \in Nat /\ fired \subseteq 0 .. event
      /\ awaited \in [Snapshots -> 0 .. event]
      /\ joining \in [Stops -> 0 .. created] /\ taken \in 0 .. MaxFrames
  BY DEF IInv, TypeOK
<1>3. TypeOK'
  <2>1. /\ cancelled' \subseteq 1 .. created' /\ task' \in 0 .. created'
        /\ fired' \subseteq 0 .. event' /\ event' \in Nat
        /\ awaited' \in [Snapshots -> 0 .. event']
        /\ joining' \in [Stops -> 0 .. created']
    BY <1>1, <1>2 DEF NoTask
  <2> QED
    BY <1>1, <2>1 DEF IInv, TypeOK
<1>4. TaskInv'
  BY <1>1, <1>2 DEF IInv, TaskInv, Tasks, NoTask
<1>5. FrameInv'
  <2>1. \A t \in Tasks : carried[t] # NoFrame => NoFrame.taken < carried[t].taken
    BY <1>2, FrameTypes
  <2> QED
    BY <1>1, <2>1 DEF IInv, FrameInv
<1>6. ViewInv'
  BY <1>1, <1>2, FrameTypes DEF IInv, ViewInv
<1>7. WaitInv'
  BY <1>1, <1>2 DEF IInv, WaitInv, Woken
<1>8. FrameMatchesSource' /\ EventMeansFrame' /\ BoxIsFresh' /\ SnapshotOfSource'
  BY <1>1, <1>2 DEF IInv, FrameMatchesSource, EventMeansFrame, BoxIsFresh, SnapshotOfSource
<1> QED
  BY <1>3, <1>4, <1>5, <1>6, <1>7, <1>8 DEF IInv

\* Closing the client touches neither stream nor viewers.
LEMMA StepStopRest ==
    ASSUME IInv, NEW s \in Stops, StopClose(s) \/ StopDone(s)
    PROVE  IInv'
<1>1. /\ UNCHANGED << streamVars, callVars, subscribers, viewer, box, seen, gone, joining, taken >>
      /\ client' \in {client, "closing", "none"}
      /\ \E to \in {"close", "done"} : stopping' = [stopping EXCEPT ![s] = to]
  BY DEF StopClose, StopDone, viewerVars
<1>2. /\ TaskInv' /\ FrameMatchesSource' /\ EventMeansFrame'
      /\ UNCHANGED << task, created, phase, url, carried, cancelled, source,
                      latest, event, fired >>
  BY <1>1, StreamUntouched
<1>3. WaitInv' /\ SnapshotOfSource'
  BY <1>1, CallsUntouched
<1>4. TypeOK'
  BY <1>1, <1>2 DEF IInv, TypeOK, callVars
<1>5. FrameInv' /\ ViewInv' /\ BoxIsFresh'
  BY <1>1, <1>2 DEF IInv, FrameInv, ViewInv, BoxIsFresh
<1> QED
  BY <1>2, <1>3, <1>4, <1>5 DEF IInv

(***************************************************************************)
(* The theorems                                                            *)
(***************************************************************************)

\* The invariant holds when the hub is constructed.
LEMMA InitIInv == Init => IInv
<1> SUFFICES ASSUME Init PROVE IInv
  OBVIOUS
<1> USE HubAssumption DEF HubAssumption, Init, Tasks, NoTask
<1>1. TypeOK
  BY DEF TypeOK
<1>2. TaskInv
  BY DEF TaskInv
<1>3. FrameInv /\ ViewInv
  BY FrameTypes DEF FrameInv, ViewInv
<1>4. WaitInv /\ SnapshotOfSource
  BY DEF WaitInv, Woken, SnapshotOfSource
<1>5. FrameMatchesSource /\ EventMeansFrame /\ BoxIsFresh
  BY DEF FrameMatchesSource, EventMeansFrame, BoxIsFresh
<1> QED
  BY <1>1, <1>2, <1>3, <1>4, <1>5 DEF IInv

\* Every step preserves the invariant.
LEMMA NextIInv == IInv /\ [Next]_vars => IInv'
<1> SUFFICES ASSUME IInv, [Next]_vars PROVE IInv'
  OBVIOUS
<1>1. CASE UNCHANGED vars
  <2>1. UNCHANGED << client, streamVars, callVars, subscribers, viewer, box, seen, gone,
                     stopping, joining, taken >>
    BY <1>1 DEF vars, viewerVars, stopVars
  <2>2. /\ TaskInv' /\ FrameMatchesSource' /\ EventMeansFrame'
        /\ UNCHANGED << task, created, phase, url, carried, cancelled, source,
                        latest, event, fired >>
    BY <2>1, StreamUntouched
  <2>3. WaitInv' /\ SnapshotOfSource'
    BY <2>1, CallsUntouched
  <2>4. TypeOK' /\ FrameInv' /\ ViewInv' /\ BoxIsFresh'
    BY <2>1, <2>2 DEF IInv, TypeOK, callVars, FrameInv, ViewInv, BoxIsFresh
  <2> QED
    BY <2>2, <2>3, <2>4 DEF IInv
<1>2. CASE \E n \in Snapshots : \/ \E u \in Sources : GetSnapshot(n, u)
                                \/ WakeSnapshot(n) \/ SnapshotTimeout(n)
  BY <1>2, StepGetSnapshot, StepWakeSnapshot, StepSnapshotTimeout
<1>3. CASE \E v \in Viewers : \/ \E u \in Sources : Subscribe(v, u)
                              \/ ViewerStep(v) \/ Disconnect(v) \/ CloseViewer(v)
  BY <1>3, StepSubscribe, StepViewer
<1>4. CASE \E t \in Tasks : \/ Poll(t) \/ Capture(t) \/ GetFails(t) \/ Publish(t)
                            \/ UnwindTask(t)
  BY <1>4, StepTask, StepCapture, StepPublish
<1>5. CASE \E s \in Stops : StopStream(s) \/ StopClose(s) \/ StopDone(s)
  BY <1>5, StepStopStream, StepStopRest
<1> QED
  BY <1>1, <1>2, <1>3, <1>4, <1>5 DEF Next

\* The inductive invariant holds at all times.
THEOREM Invariance == Spec => []IInv
BY InitIInv, NextIInv, PTL DEF Spec

\* The variables have the types that are stated.
THEOREM TypeCorrect == Spec => []TypeOK
<1>1. IInv => TypeOK
  BY DEF IInv
<1> QED
  BY <1>1, Invariance, PTL

\* The latest frame is one of the current source.
THEOREM FramesAreCurrent == Spec => []FrameMatchesSource
<1>1. IInv => FrameMatchesSource
  BY DEF IInv
<1> QED
  BY <1>1, Invariance, PTL

\* The event on which a caller waits is set exactly when there is a frame.
THEOREM EventTellsFrame == Spec => []EventMeansFrame
<1>1. IInv => EventMeansFrame
  BY DEF IInv
<1> QED
  BY <1>1, Invariance, PTL

\* A frame that waits in the queue of a subscriber is the latest.
THEOREM QueuesAreFresh == Spec => []BoxIsFresh
<1>1. IInv => BoxIsFresh
  BY DEF IInv
<1> QED
  BY <1>1, Invariance, PTL

\* Only one task polls, and it polls the current source.
THEOREM SingleStream == Spec => []OneStream
<1>1. IInv => OneStream
  BY HubAssumption DEF HubAssumption, IInv, TypeOK, TaskInv, OneStream, Tasks, NoTask
<1> QED
  BY <1>1, Invariance, PTL

\* get_snapshot() returns no picture of a source but the one it was asked for.
THEOREM SnapshotsMatch == Spec => []SnapshotOfSource
<1>1. IInv => SnapshotOfSource
  BY DEF IInv
<1> QED
  BY <1>1, Invariance, PTL

\* A viewer is sent every picture once, and none older than the last.
THEOREM ViewersSeeInOrder == Spec => FramesInOrder
<1> DEFINE Order == \A v \in Viewers : seen'[v] # seen[v] => seen'[v].taken > seen[v].taken
<1>1. IInv /\ [Next]_vars => [Order]_vars
  <2> SUFFICES ASSUME IInv, Next, NEW v \in Viewers, seen'[v] # seen[v]
               PROVE  seen'[v].taken > seen[v].taken
    OBVIOUS
  <2>1. PICK w \in Viewers : TakeFrame(w)
    BY DEF Next, GetSnapshot, WakeSnapshot, SnapshotTimeout, Subscribe, ViewerStep, Disconnect,
           CloseViewer, StartViewer, CheckViewer, FrameTimeout, FrameSent, Poll, Capture,
           GetFails, Publish, UnwindTask, OnTask, StopStream, StopClose, StopDone, viewerVars
  <2>2. box[w] # NoFrame /\ seen' = [seen EXCEPT ![w] = box[w]]
    BY <2>1 DEF TakeFrame
  <2>3. seen \in [Viewers -> Frames \cup {NoFrame}] /\ box \in [Viewers -> Frames \cup {NoFrame}]
        /\ seen[w].taken < box[w].taken
    BY <2>2 DEF IInv, TypeOK, ViewInv
  <2>4. v = w /\ seen'[v] = box[v]
    BY <2>2, <2>3
  <2>5. seen[v].taken \in Nat /\ box[v].taken \in Nat
    BY <2>3, FrameTypes, HubAssumption DEF HubAssumption
  <2> QED
    BY <2>3, <2>4, <2>5
<1>2. Spec => [][Order]_vars
  BY <1>1, Invariance, PTL DEF Spec
<1> QED
  BY <1>2 DEF FramesInOrder

=============================================================================
