# A verification project for pidog-nova

pidog-nova connects a SunFounder PiDog to the Nova platform.  It is one Python
process, one asyncio event loop: it serves a REST interface and NATS subjects
to the platform and talks HTTP to the daemon inside the dog.  These TLA+
modules model the parts of it that keep state over time, TLC checks them on
small instances, and TLAPS proves nearly all of their safety properties, three
refinements and some of the liveness for every value of the constants.

## The system

| component | state | operations | works with |
|---|---|---|---|
| `PidogClient` (`pidog_client.py`) | request queue, worker tasks, httpx client, one future per call | `start`, `stop`, `submit`, the workers, `_perform` | driver (calls), daemon (HTTP) |
| `CameraStreamHub` (`camera_hub.py`) | polling task, source URL, latest frame and its event, subscribers' queues | `start`, `stop`, `get_snapshot`, `stream_response`, `_run_stream` | driver, daemon, browsers |
| `Settings` + `config_store` | endpoint of the PiDog in memory, in the Nova object store, in a local file | boot, migration, `save_pidog_endpoint` | driver, object store, disk |
| `Vda5050Adapter` (`vda5050_adapter.py`) | subscription, publish loop, stop event | `start`, `stop`, `_publish_loop`, `_handle_instant_action` | driver, NATS bridge |
| `PidogDriver` (`driver.py`) | liveness flag, camera rotations | capabilities of the SDK: actions, stop, recover, telemetry, config, cameras | all of the above |
| `main.py` | the adapter, or None | `_on_startup`, `_on_shutdown` | SDK lifespan |
| operator page (`ui/index.html`) | two timers, a save button | polls config and snapshots | REST interface |

The driver calls the client and the hub; the SDK's telemetry pump, the VDA5050
loop and REST handlers call the driver, all as tasks of one event loop.  What
is hard about it: tasks interleave at every `await`; `stop()` cancels tasks
that are in the middle of a request; `submit()` and `get_snapshot()` restart
what was stopped; requests time out after they were sent; the process crashes
between two writes; three hand-written tables of action names must agree.
`PROJECT.json` lists these hazards at the lines where they bite, with the
properties that cover them.

What makes each part correct:

- **client**: no call is posted twice, out of order or beyond the concurrency
  limit; an error that says "not reached" is true; every call is answered.
- **camera hub**: a snapshot is of the source that was asked for; a viewer is
  sent newer and newer pictures of the camera that is on (which another caller
  may change); nobody waits for ever.
- **settings**: a confirmed endpoint outlives crashes.
- **driver**: a command is not lost behind telemetry nor sent to an old PiDog
  after the new one; the liveness flag follows the PiDog that is configured.
- **adapter**: OFFLINE is the last word, `stop()` returns, no advertised action
  is rejected as unknown, what is passed through reaches the daemon, and a part
  that failed to start is really off.

## How the code is read

*Atomicity.*  asyncio switches tasks only where an `await` really suspends.  A
step of the models is what runs between two such points.  An `asyncio.Lock` that
is free, a `Queue.put` into a queue that has room and a coroutine without
suspension do not suspend.  Neither `PidogClient._start_lock` nor
`CameraStreamHub._lock` is ever held across a suspension, so they are always
free, and e.g. `submit()` up to `await future` is one step.

*Cancellation.*  `task.cancel()` throws `CancelledError` at the current await of
the task, so a cancelled task runs no further line but its handlers.  The image
runs Python 3.11 (`Dockerfile:9`), where `wait_for()` may swallow it; `Slept` in
`Vda5050` allows both outcomes.

*Order of wake-ups.*  asyncio runs ready callbacks first in, first out.  Only
`CameraHub!Publish` relies on it: a waiter of `get_snapshot()` whose event was
set runs a few iterations of the loop later, while a response to a request that
has not been sent yet needs more iterations than that (and a network round
trip), so the next frame is not published before the waiter has resumed.

*Outside.*  The daemon, the camera, the object store, the disk, NATS, browsers
and the SDK are nondeterministic: they answer, fail, hang or disappear as far as
the code in `src/` lets them.

## Modules

### PidogClient

`queue`, `future`, `task`, `job`, `client`, `cancelled` are the fields and tasks
of the class; `request[c]` is what the daemon sees of call `c`.  Calls are
numbered in the order of `submit()`.

| action | code |
|---|---|
| `Start`, `Submit`, `Refuse` | `start()`; `submit()` up to its await, `ProxyQueueFullError` |
| `Abandon` | the task awaiting the future is cancelled |
| `Take`, `Respond`, `ConnectError`, `Timeout`, `OtherError` | `_worker()` and the ways `_perform()` ends |
| `Unwind` | `CancelledError` in a worker |
| `Handle` | the daemon acts on a request (it may do so after the client gave up) |
| `StopPool`, `StopDrain`, `StopIdle` | the halves of `stop()` before and after it awaits the workers |

The branch "client is None" of `_perform()` is left out because it cannot be
reached: that is what `WorkersServe` says, checked and proved.

`CallBroker` is the abstract specification: calls are accepted, begin once, in
order and within a capacity, and end with one outcome.  It knows no pools,
workers or tasks.  `PidogClient!ServesAsBroker` states the refinement: waiting
is the range of the queue, running are the jobs of workers that are not
cancelled.

### CameraHub

One shared poller (`task`, `phase`, `source`), the latest frame with its event
(events are numbered; `fired` are the ones that were set), the one-place queue
`box[v]` of each viewer.  A frame is known by its source and the time it was
taken.  `SwitchStream` is the part of `_ensure_stream()` under the lock,
`Publish` a response with `_publish_frame()`, `CheckViewer`, `TakeFrame`,
`FrameTimeout`, `FrameSent` the loop of `stream_bytes()`, `CloseViewer` its
`finally` (or, for a generator that was never started, the lack of it),
`StopStream`, `StopClose`, `StopDone` the parts of `stop()`.

`CameraFeed` is the abstract specification: one camera is on, a viewer sees newer
and newer pictures of whatever camera is on, a single picture is one of the camera that was asked for.
`CameraHub!ServesAsFeed` states the refinement: the newest picture is `latest`,
the mailboxes are the queues, a call is `snapshot`.  Tasks, events,
subscriptions, the client and `stop()` beyond its first half are invisible in it.

### Settings

The endpoint, numbered by the update that set it, in memory, in the object
store (`remote`) and in the file (`local`).  `Boot` and the `Load…` actions are
`model_post_init()`; `Update`, `SaveRemote`, `OpenFile`, `WriteFile`,
`FileFails` are `save_pidog_endpoint()` with a crash possible between any two of
them; `acked` is the last update whose caller got an answer.  `mishaps` records
what has gone wrong so far (a GET or a PUT of the object store, a write of the
file, the file lost with the pod), so that each property says under which
mishaps it is promised, and one specification serves every deployment: a
connector without an object store is one whose every PUT fails, so that there
never is an object.

`EndpointRegister` is the abstract specification: one durable register with a
working copy that a crash takes away; an update is in use first, durable then,
confirmed last.  `Settings!ServesAsRegister` states the refinement, for as long as
no call of the object store has failed (afterwards the code keeps no such
promise, see *What the violated runs show*): the object is what is durable,
memory is the working copy once a boot is through, `acked` is what is confirmed.
Boot phases and the file are invisible in it.

### Vda5050

The adapter in the life of the process: `StartSubscribe`, `StartOnline`,
`StartLoop`, `StartFails` for `start()` and the handler around it in `main.py`;
`LoopTop`, `Sampled`, `Published`, `Slept`, `Cancelled` for the loop;
`Shutdown`, `StopLoop`, `StopOffline`, `ShutdownDriver` for `_on_shutdown()` and
`stop()`; `Receive` and `Dispatch` for instant actions, over the three tables of
names as they stand in the source.  A message for another robot is ignored.  A
dispatch ends in one of three ways: the driver does not know the name
(`rejected`), the command is posted and answered (`done`), or something else is
raised (`failed`), before the post (no endpoint, full queue, no connection) or
after it (no answer).

### Gateway

What the others are for, put together: two loops call `snapshot_state()` (the
SDK's `TelemetryPublisher` and the adapter's publish loop), REST calls command the
dog and change its endpoint, and all of it goes through the one queue of the client.
The client is reduced to that queue and its `hand`s, which is what `CallBroker`
allows while no `stop()` of the client is under way.

| action | code |
|---|---|
| `Sample` | `snapshot_state()` up to its await: both polls enter the queue, one of them, or none (`AskDog`); without an endpoint the flag goes down at once |
| `SampleDone` | `gather()` returns and `_upstream_alive` is written |
| `Command` | `stop()`, `execute_action()`, `recover()` up to the await of `submit()` |
| `UpdateConfig` | `update_config()`, which does not suspend |
| `Take`, `FinishPoll`, `FinishCommand` | `_worker()` and what the callers make of its answer |
| `DaemonChanges` | a daemon starts or ceases to answer one of the polls, or both |

`alive` is what the registry's heartbeat publishes: `main.py` passes it as
`health_check`.  The URL of a job is made when it is submitted, so a job has the
endpoint of that moment (`to`).  The model takes for granted that the SDK's
publisher, like the adapter's loop, awaits a sample before it takes the next.  There are
finitely many commands: an endless stream of them could crowd out polls for ever, and
then no sample would tell anything about the PiDog.

Each module ends with its properties, each stated in words.  Some definitions
are followed or preceded by a wrong twin (named in the header of the module, and
in no specification): it is the mistake that the property of the same name's
mutant in `PROJECT.json` puts into the code, to see that the property notices.

## Runs

| run | what it asks | bounds |
|---|---|---|
| `client_pools` | all safety properties of the client and the refinement of `CallBroker` | 3 calls, queue of 2, 2 pools of 2 workers, 2 `stop()` |
| `client_live` | every call returns but one in the hand of a worker that `stop()` cancels, the queue is emptied, `stop()` returns | 2 calls, 2 pools of 1 worker (`max_concurrency` 0), 2 `stop()` |
| `client_orphan` | **violated**: every call returns | 2 calls, 1 pool, 1 `stop()` |
| `camera_hub` | what viewers and snapshots are shown, and the refinement of `CameraFeed` | 2 sources, 1 viewer, 2 snapshots, 1 `stop()`, 3 tasks, 2 frames; sources and snapshots symmetric |
| `camera_live` | snapshots return, viewers that left are unsubscribed, every `stop()` returns | 1 source, 1 viewer, 1 snapshot, 2 `stop()`, 2 tasks |
| `settings_store` | a confirmed endpoint survives crashes while the object store works, and with the file alone while that can be kept; the refinement of `EndpointRegister` | 3 updates, 4 boots |
| `settings_put_fails` | **violated**: the file stands in for a store that missed an update | 2 updates, 2 boots |
| `settings_migration` | **violated**: migration goes into an empty store | 2 updates, 3 boots |
| `gateway` | what goes to which PiDog, who is refused when the queue is full, that whoever waits has a job in the client and a command its answer, that the two loops agree on the flag and that it follows the PiDog | 2 samplers, 1 command, 2 endpoints, queue of 4, 2 workers |
| `vda_life` | OFFLINE is last, `stop()` returns, only known actions for this robot are posted, the tables of names agree | every advertised type and an unknown one, 2 state messages |
| `vda_verbatim` | **violated**: an unknown action type is passed through to the daemon | 1 message, every advertised type and an unknown one |
| `vda_partial_start` | **violated**: without the adapter no VDA5050 commands | 1 message |

Why these bounds are enough.  Client: overtaking, duplication and stranding
need two workers, two jobs that compete and one more to be refused or left
behind; a `stop()` needs a second pool and a second `stop()` to race with.  Hub:
a wrong picture needs two sources, a switch back, a waiting and a waking
caller; three tasks are "old, new, old again".  Settings: an older and a newer
value in each place and a crash after each write.  Adapter: the loop in each of
its states when it is cancelled.  Gateway: a queue of four is the shortest in which
`UpIsNoticed` is promised, two samplers fill it with or without a command among
their polls, so that each may be refused, two workers overtake each other, two endpoints
are the old and the new.  More commands and longer queues are what the proofs of its
safety properties are for.  The run of `Gateway`, whose samplers never rest,
checks for deadlock.  The others do not: each call is made at most once (bounds
`MaxCalls`, `MaxTasks`, `MaxBoots`…), so those systems come to rest.  That nobody
is stuck in the middle is what the liveness properties say.

Fairness.  `FairSpec` assumes that the event loop runs what is ready, that
timers expire (httpx gives up after its timeout, `wait_for()` after its own)
and that what code awaits from asyncio itself returns.  httpx's timeouts are per
read, so a daemon that drips bytes could stretch a request beyond any bound; for
`PidogClient` such a daemon is excluded.  Nothing is assumed of daemon, camera,
callers, browsers or whoever calls `stop()`: the hub's GETs have no read timeout
and may hang for ever, and so may the sampler of the VDA5050 loop.  In `Gateway` the
two loops are driven by timers and each request ends by an answer or by its
timeout; daemons may change at every moment, `DownIsNoticed` and `UpIsNoticed`
speak of those that stay as they are from some time on.

## What the violated runs show

1. **A call that stop() cuts off is never answered** (`client_orphan`,
   `pidog_client.py:183`).  `CancelledError` is no `Exception`, so a cancelled
   worker leaves the future of the job in its hand pending, and the drain only
   fails jobs that are queued.  `fetch_state` "Returns `{}` on any error" - here
   it never returns.
2. **An older endpoint comes back** (`settings_put_fails`, `settings.py:75`).
   The result of `config_store.save()` is ignored; after a failed PUT the file
   has the new endpoint and the store the old one, and the next boot takes the
   store's.
3. **Migration overwrites a newer object** (`settings_migration`,
   `settings.py:85`).  `load()` returns None for an error as for a 404, so a boot
   that cannot read the store "migrates" its local file over what is there.
4. **An unknown action is not passed through** (`vda_verbatim`, `driver.py:222`).
   `vda5050_adapter.py:254-256` says that any other type goes verbatim to the
   daemon, which rejects what it does not know; `execute_action()` raises
   `KeyError` before the client is asked, so an action that only the daemon knows
   cannot be used.
5. **"Continuing without it" continues with it** (`vda_partial_start`,
   `main.py:113`).  When `start()` fails after it has subscribed, instant actions
   still move the dog, and a shutdown announces no OFFLINE.

Smaller divergences, seen while modelling and not given a run:

- the 30 s timeout does not cap the stream of a `_NullRequest` as `driver.py:402`
  says, since `camera_hub.py:126-127` continues after it;
- `main.py:16-17` and `main.py:81-82` promise no duplicate polling of the daemon.
  The adapter shares the method `snapshot_state()` with the publisher of the SDK,
  not its samples: each loop polls for itself, as the samplers of `Gateway` do;
- a sample without the state of the dog has no `driving` (`driver.py:209-212`),
  and the adapter publishes that as `driving = False` (`vda5050_adapter.py:141-145`);
- the operator page reads `pidog_ip` and `connected` of `/api/config`, which the
  driver's `ConfigResponse` does not have.

The models also show limits by design.  With the default of two workers,
`DispatchInOrder` and `BoundedOvertaking` are all that holds for the emergency
stop: it is posted after every earlier command, and one earlier command may
still be under way when it is answered.  It waits in the same queue as
telemetry, and is refused when the queue is full; `RefusedByCommands` says that
telemetry alone does not fill it when it holds more than two polls of each
sampler, and that a poll is refused only when such a queue has no room for two
polls of each sampler besides the commands in it.  With a queue shorter than that (`pidog_proxy_queue_size` below 4) the
second poll of a sample may be refused every time; when the dog answers only
that one, the flag goes up and down for ever, which is why `UpIsNoticed` has the
precondition `Spacious`.  `UnavailableMeansUntouched`
says which errors are safe to repeat after: unavailable and queue full, not
timeouts.

## Proofs

Everything below is checked by TLAPS down to the last leaf and holds for every
value of the constants allowed by the `ASSUME` of the module (natural numbers as
bounds, and the absent values being none of the others).

**`PidogClientProofs`** - any queue size (0 is unbounded), any `max_concurrency`
(0 and less count as 1), any number of calls, pools and `stop()`s.  The
properties are not inductive as they stand: that a call is posted once depends
on the queue holding only unposted calls, that on the order of the queue, and
that a worker finds its client on every older pool having been cancelled.
`IInv` has one part for each of these:

- `PoolInv`: every pool but the current one is cancelled, and only a cancelled
  worker ends; hence `WorkersServe` and, with injectivity of hands,
  `BoundedConcurrency`;
- `CallInv`: what a future says agrees with what the daemon saw, hence
  `UnavailableMeansUntouched`;
- `QueueInv`: the queue is ascending, unposted, and later than all that was
  posted, hence `PostedOnce` and `DispatchInOrder`;
- `HandInv`: a worker has a job exactly while it is busy, no two the same one,
  and its future is nobody else's to settle.

`SettledForGood` and `WorkersAnswer` are properties of steps and follow from
`IInv` before the step (no run names them: one that broke either would also
break `ServesAsBroker`, which `client_pools` checks; the same goes for
`StoreNeverRollsBack` of the settings and `ServesAsRegister`, and for
`FrameMatchesSource`, `SnapshotOfSource` and `FramesInOrder` of the hub and
`ServesAsFeed`).  `NoStrandedJob` is inductive with the types alone.
`BoundedOvertaking` needs one more invariant, `FreeHand`: once a call has its
result, some worker of the current pool has nothing earlier in hand (the one that
worked on it, or one of a later pool), and counting does the rest.

`CallsMove` and `StopsMove` are the liveness of the client taken apart into single
steps, `FairSpec /\ []GuardsSuffice => ...` as in `CameraLiveProofs` below.  While a pool is open its first worker, say, is
idle or busy (`WorkersServe`); it is done with its job and takes the next, so a
queued call moves up (`TakeMovesUp`) or is drained.  A call in a hand is there until it
has its answer (`StepAnswers`), unless its worker is cancelled.  A cancelled
worker stays cancelled, takes nothing any more and unwinds (`StepCancelled`), and a
`stop()` that finds its workers ended finds them so until it goes on
(`StepJoined`).  No run names `CallsMoveOn` and `StopsMoveOn`: what they add up to, by
induction over the places of the queue, the workers of a pool and the pools, are `QueueServed`,
`AnsweredOrCutOff` and `StopReturns`, which `client_live` checks.

**`PidogBrokerProofs`** - `Spec => ServesAsBroker`: with `queue`, `Serving` and
`future` as the refinement mapping, the initial state is an empty broker,
`submit()` is `Accept` or `Refuse`, `Take` is `Begin`, the ways `_perform()` ends are
`End`, and all else is a broker step that fails or drops calls, or a stutter.

**`CameraHubProofs`** - any number of sources, viewers, snapshots, tasks and
`stop()`s.  `IInv` is the properties themselves with

- `TaskInv`: every task but the current one is cancelled, and the current one
  polls the current source;
- `FrameInv`: a frame on its way is of the source of its task, and one that may
  still be published is newer than anything that was;
- `ViewInv`: a frame waiting for a viewer is newer than the last it was sent;
- `WaitInv`: who waits on the current event wants the current source, and who
  was woken finds no frame but that of its own event.

The last part is where the order of wake-ups enters (see *Order of wake-ups*
above): `Publish` waits for the woken, and `SnapshotsMatch` would not hold
otherwise.  The lemmas about `EnsureStream` say once what its two callers share,
`ViewerKeeps` and `TaskKeeps` what the steps of a viewer or a task share.

**`CameraFeedProofs`** - `Spec => ServesAsFeed`, from the same `IInv`: opening a
stream is `TurnOn` (the frame at hand is kept only for the camera that is on
already), `get_snapshot()` is `Ask` and, after its await, `Answer` (`WaitInv`:
what a waiter reads is of the camera it asked for), a subscription is `Join`,
`queue.get()` is `See` (`ViewInv`: it is newer), `_publish_frame()` is `Show`
(`FrameInv`), the first half of `stop()` is `TurnOff`, and all else a stutter.

**`CameraLiveProofs`** - who waits for the hub is served, for any number of
sources, viewers, snapshots and `stop()`s.  The prover has no rule for ENABLED, so
the three theorems read `FairSpec /\ []GuardsSuffice => ...`.  The hypothesis, defined
in the module of the proofs, spells out ENABLED for the fair actions: an action whose
guard holds can be taken (the timeout of a waiting snapshot, the loop of a viewer,
the `CancelledError` of a cancelled task, the next step of `stop()`).  It says
nothing about the code: it is so by the shape of the actions, each of which gives
every variable a value, and changes one, once its guard holds.  What is proved is all
the rest: that no other step takes the wait away without ending it, so that weak
fairness applies.

- `SnapshotsReturn`: a waiting snapshot waits on or is done.
- `GoneAreUnsubscribed`: a viewer that has gone walks through its loop to the
  next test of the connection.  A chain of leads-to steps, one for each await.
- `StopsReturn`: a `stop()` awaits the task it found, which is cancelled for
  good; cancelled leads to ended, whatever new tasks begin meanwhile, and ended
  to the second and the third part of `stop()`.

**`SettingsProofs`** - any number of updates, boots, crashes and mishaps.  As long
as no call of the object store has failed, `StoreInv` holds: the store is as new
as every confirmed update, and as memory once the file is being written; hence
`SurvivesRestart` and `StoreNeverRollsBack`, whatever becomes of the file.  As long
as nothing has reached a store and the file could be kept, `FileInv` says the
same of the file, hence `FileSurvivesRestart`, in which only a process that dies
while it writes loses a confirmed endpoint.  That mishaps are only ever added is what
makes the two conditions usable in an induction.  What becomes of an endpoint
when a PUT does fail is shown by the run `settings_put_fails`, a GET that fails
by `settings_migration`.  `ImplementsRegister` is the refinement: `RegisterInv`
says that memory and the object agree wherever the register takes a step that
needs it (before an update and while the file is written), and that there is
never a file without an object, so that a boot has nothing to migrate; a boot is
`Serve`, an update `Ask`, a PUT `Commit`, the answer `Confirm`, a crash `Fail`,
and all else a stutter.

**`GatewayProofs`** - any samplers, commands, endpoints, workers and any size of
the queue.  `OldFirst` needs `Sorted`: the endpoints of the jobs in the queue
ascend, none is later than the configured one, and none is older than one in a
worker's hand.  `RefusedByCommands` is about the step that refuses: `OneEach`
says that each job in the queue or in a hand is awaited by its caller and that
no two of them are of one caller and kind, and the counting lemma `QueueIsShort` bounds
the queue by the commands waiting in it and two polls for each sampler that has
any there; the sampler whose poll is refused has none (`QueueInCrowd`).
`NobodyForgotten` is the converse of `OneEach`: whoever waits has a job in the
queue or in a hand, which no step loses but the one that answers it (`Remembered`
says so by names, and the lemmas `...Keeps` show it for the three ways the queue
and the hands change).
`FlagIsSteady` is about two loops that write one flag: an old sample may end after
a newer one, so that the flag alone is not enough for an induction.  What is kept is that all
polls under way ask the configured PiDog and none has come to the other
conclusion (`SeenUp`, `SeenDown`).  `StepAsksOnly` keeps the first part: new jobs are for
the current endpoint, and a hand gets what was in the queue.  `StepPoll` lists the ways a
poll can change, of which the one that could spoil `SeenUp`, a refusal, needs a
queue shorter than `Crowd`; `StepAlive` says that only the end of a sample writes the
flag.  `FlagSettles` draws the conclusion in time: one moment of `SeenUp` or
`SeenDown` decides the flag for good.

The way of a command to its answer is proved place by place, in the same
form as in `CameraLiveProofs`, `FairSpec /\ []GuardsSuffice => CommandsMoveUp`.  While a
command waits, the queue is not empty, so that worker 1, say, can go on
(`GuardsSuffice`): it finishes what it has in hand, and then takes the first job, if
no other worker has, which moves the command up (`StepPlace`; new jobs enter behind
it, `QueueStays`).  In a hand it stays until `FinishCommand`.  `CommandsHavePlace` says
where it starts: not further back than `Cardinality(Commands) +
2 * Cardinality(Samplers)`.  To conclude `CommandsAnswered` it remains to count the
places down, an induction that the prover cannot do and `gateway` checks on
the instance, so no run names `CommandsMoveUp`.

**`Vda5050Proofs`** - any messages, with or without failures of the bridge.
`TypeOK` says that only actions of the driver's list are posted, whatever is
requested; `OfflineInv` ties `stop()` to the loop: OFFLINE is announced only after the join,
by when the loop has ended.  `AdvertisedServed` rests on `TablesAgree`, a lemma about
the three tables of names, and holds whatever set of types is requested.
`StopsReturn` is `FairSpec /\ []GuardsSuffice => StopReturns`, with the same
division of labour as in `CameraLiveProofs`: by `JoinInv` there is a loop that `stop()` awaits, the stop event
is set and the loop was cancelled, so that its next step ends it, or takes it to
the top, where the step after that does.

Checked by TLC only:

- `QueueServed`, `AnsweredOrCutOff` and `StopReturns` of `PidogClient`, and
  `CommandsAnswered`, `DownIsNoticed` and `UpIsNoticed` of `Gateway`: each is an
  induction over the places of the queue, over the pools or over a set of workers
  or samplers in time, and the provers have no rule for that.  Of those of the client
  and of `CommandsAnswered` only that induction is left to TLC, of `DownIsNoticed` and `UpIsNoticed` that samples
  end and that old ones do not stay;
- the violated claims, which a trace refutes.

## Not modelled

- The rotation of the camera picture (a dictionary that only the picture itself
  depends on), `health()` but for its call of `start()`, JSON envelopes, the
  content of a sample.
- `refresh_persisted()` and `config_store.exists()`: nothing calls them.  (The former
  says True whether or not anything changed, other than `settings.py:119` has it.)
- `_handle_order()`: logs and ignores.
- The operator page: it keeps no state of its own that matters to the dog, and the one
  race in it (a poll that is answered after a save) cannot show, since the fields
  that it would overwrite are not in the answer.
- `Gateway` has no `stop()` of the client: what a shutdown does to calls under way
  is in `PidogClient`, what it does to the adapter in `Vda5050`.
- Time inside a step: `update_config()` blocks the event loop while it talks to
  the object store, which is what makes it atomic here.
- The SDK, NATS, FastAPI and httpx: outside the repository, modelled from how the
  code uses them.

## Plan

Done: client with its broker, camera hub with its feed, settings with their register, adapter, and the
gateway that joins samplers, commands, configuration and the client's queue, each
with its safety proofs, hub and adapter with their liveness too, client and gateway
with theirs but for the inductions named above.  Open:

1. The step from `PidogClient` to the queue of `Gateway` is argued above and not
   proved: a composition with `CallBroker` as the middle, in which `Gateway` without
   `stop()` implements it, would close it.
2. The drain of old samples: that after an update of the configuration all
   polls under way ask the new PiDog some day.  With it and `FlagSettles`,
   `DownIsNoticed` and `UpIsNoticed` would be proved but for the inductions over places
   and samplers.  That refusals by a full queue are the only reason why the flag
   may flap is said by `FlagIsSteady` and `RefusedByCommands`, and proved.
