---------------------------- MODULE PidogClient ----------------------------
(***************************************************************************)
(* The bounded HTTP client for the upstream PiDog daemon, class            *)
(* PidogClient of src/pidog_nova/pidog_client.py.                          *)
(*                                                                         *)
(* Callers submit() a job, which waits in a bounded FIFO queue until one   *)
(* of max_concurrency worker tasks takes it, posts it to the daemon and    *)
(* settles the future the caller awaits.  start() opens an httpx client    *)
(* and a pool of workers, stop() cancels the pool, fails what is queued    *)
(* and closes the httpx client.  submit() itself calls start(), so a call  *)
(* that arrives during or after a stop opens a new pool.                   *)
(*                                                                         *)
(* The code is asyncio: a step below is what runs between two suspension   *)
(* points.  _start_lock is never held across a suspension, Queue.put of a  *)
(* queue just found not full does not suspend either, so start(), the      *)
(* first half of stop() and submit() up to "await future" are one step     *)
(* each.  A cancelled task runs no further line of its own: CancelledError *)
(* is thrown at its current await.                                         *)
(*                                                                         *)
(* OverfullQueue, EnqueueFirst, EnqueueTwice, SettleAnyway, SettleResult,  *)
(* TimeoutUnavailable, NoDrain and CancelNone are not part of the          *)
(* specification: each is a wrong version of the definition after it, kept *)
(* to see the properties fail when the code is wrong in that way.          *)
(***************************************************************************)
EXTENDS Integers, Sequences, FiniteSets, Functions

CONSTANTS
    MaxConcurrency,  \* argument max_concurrency of PidogClient
    MaxQueueSize,    \* argument max_queue_size; 0 is asyncio's "no limit"
    MaxCalls,        \* bound: how many times submit() is called
    MaxStarts,       \* bound: how many pools start() opens
    Stops,           \* the calls of stop(), one model value each
    NoCall           \* "no job in hand"

ASSUME ClientAssumption ==
    /\ MaxConcurrency \in Int
    /\ MaxQueueSize \in Nat
    /\ MaxCalls \in Nat
    /\ MaxStarts \in Nat
    /\ NoCall \notin Nat

Concurrency == IF MaxConcurrency < 1 THEN 1 ELSE MaxConcurrency

\* Calls are numbered in the order submit() is entered, pools in the order
\* start() opens them.  A worker is known by its pool and its index.
Calls   == 1 .. MaxCalls
Pools   == 1 .. MaxStarts
Workers == Pools \X (1 .. Concurrency)
NoPool  == 0

VARIABLES
    client,     \* self._client and self._workers: the current pool or NoPool
    started,    \* how many pools were opened
    cancelled,  \* the pools whose workers stop() has cancelled
    task,       \* task[w]: where worker w is, "none" before its pool opens
    job,        \* job[w]: the call whose job w has taken
    queue,      \* self._queue
    issued,     \* how many calls entered submit()
    future,     \* future[c]: what the caller of c awaits or has got
    request,    \* request[c]: the HTTP request of c, as the daemon sees it
    stopping,   \* stopping[s]: where stop() s is
    joining     \* joining[s]: the pool that stop() s has to wait for

vars == << client, started, cancelled, task, job, queue, issued, future,
           request, stopping, joining >>

poolVars == << client, started, cancelled >>
stopVars == << stopping, joining >>

\* "result": _perform returned; "unavailable", "timeout", "error": it (or
\* stop()) raised UpstreamUnavailableError, UpstreamTimeoutError, anything
\* else; "refused": ProxyQueueFullError; "abandoned": the awaiting task was
\* cancelled, which cancels the future.
Answers == {"result", "unavailable", "timeout", "error"}
Settled == Answers \cup {"refused", "abandoned"}

TypeOK ==
    /\ client \in 0 .. started
    /\ started \in 0 .. MaxStarts
    /\ cancelled \subseteq 1 .. started
    /\ task \in [Workers -> {"none", "idle", "busy", "ended"}]
    /\ job \in [Workers -> Calls \cup {NoCall}]
    /\ queue \in Seq(Calls)
    /\ MaxQueueSize > 0 => Len(queue) <= MaxQueueSize
    /\ issued \in 0 .. MaxCalls
    /\ future \in [Calls -> {"none", "pending"} \cup Settled]
    /\ request \in [Calls -> {"unsent", "out", "handled", "failed"}]
    /\ stopping \in [Stops -> {"ready", "joining", "done"}]
    /\ joining \in [Stops -> 0 .. started]

Init ==
    /\ client = NoPool
    /\ started = 0
    /\ cancelled = {}
    /\ task = [w \in Workers |-> "none"]
    /\ job = [w \in Workers |-> NoCall]
    /\ queue = << >>
    /\ issued = 0
    /\ future = [c \in Calls |-> "none"]
    /\ request = [c \in Calls |-> "unsent"]
    /\ stopping = [s \in Stops |-> "ready"]
    /\ joining = [s \in Stops |-> NoPool]

(***************************************************************************)
(* start() and submit()                                                    *)
(***************************************************************************)

\* A fresh httpx client and max_concurrency workers waiting in queue.get().
OpenPool ==
    /\ started < MaxStarts
    /\ started' = started + 1
    /\ client' = started + 1
    /\ task' = [w \in Workers |-> IF w[1] = started + 1 THEN "idle" ELSE task[w]]

EnsureStarted ==
    \/ client = NoPool /\ OpenPool
    \/ client # NoPool /\ UNCHANGED << client, started, task >>

\* start(), from PidogDriver.start() or from health(); nothing to do when
\* a client is there.
Start ==
    /\ client = NoPool
    /\ OpenPool
    /\ UNCHANGED << cancelled, job, queue, issued, future, request, stopVars >>

OverfullQueue == MaxQueueSize > 0 /\ Len(queue) > MaxQueueSize

QueueFull == MaxQueueSize > 0 /\ Len(queue) >= MaxQueueSize

EnqueueFirst(c) == << c >> \o queue
EnqueueTwice(c) == queue \o << c, c >>

\* queue.put(); the queue was just found not full, so it does not wait.
Enqueue(c) == Append(queue, c)

Submit ==
    /\ issued < MaxCalls
    /\ EnsureStarted
    /\ ~QueueFull
    /\ issued' = issued + 1
    /\ queue' = Enqueue(issued + 1)
    /\ future' = [future EXCEPT ![issued + 1] = "pending"]
    /\ UNCHANGED << cancelled, job, request, stopVars >>

\* submit() raises ProxyQueueFullError, after start() has run.
Refuse ==
    /\ issued < MaxCalls
    /\ EnsureStarted
    /\ QueueFull
    /\ issued' = issued + 1
    /\ future' = [future EXCEPT ![issued + 1] = "refused"]
    /\ UNCHANGED << cancelled, job, queue, request, stopVars >>

\* The task awaiting the future is cancelled (Vda5050Adapter.stop() cancels
\* the publish loop, and asyncio.gather its fetches).  The job stays queued.
Abandon(c) ==
    /\ future[c] = "pending"
    /\ future' = [future EXCEPT ![c] = "abandoned"]
    /\ UNCHANGED << poolVars, task, job, queue, issued, request, stopVars >>

(***************************************************************************)
(* _worker() and _perform()                                                *)
(***************************************************************************)

Running(w) == w[1] \notin cancelled

\* queue.get() returns and _perform() hands the request to httpx.  The
\* branch of _perform() for "client is None" is left out: WorkersServe
\* below shows that no running worker is ever without its client.
Take(w) ==
    /\ Running(w)
    /\ task[w] = "idle"
    /\ queue # << >>
    /\ queue' = Tail(queue)
    /\ job' = [job EXCEPT ![w] = Head(queue)]
    /\ task' = [task EXCEPT ![w] = "busy"]
    /\ request' = [request EXCEPT ![Head(queue)] = "out"]
    /\ UNCHANGED << poolVars, issued, future, stopVars >>

SettleAnyway(c, answer) == future' = [future EXCEPT ![c] = answer]

SettleResult(c, answer) ==
    future' = IF future[c] = "pending" /\ answer = "result"
              THEN [future EXCEPT ![c] = answer] ELSE future

\* set_result() or set_exception(), only on a future that is not done.
Settle(c, answer) ==
    future' = IF future[c] = "pending"
              THEN [future EXCEPT ![c] = answer] ELSE future

\* _perform() returns or raises, and the worker goes back to queue.get().
Finish(w, answer) ==
    /\ Running(w)
    /\ task[w] = "busy"
    /\ Settle(job[w], answer)
    /\ job' = [job EXCEPT ![w] = NoCall]
    /\ task' = [task EXCEPT ![w] = "idle"]
    /\ UNCHANGED << poolVars, queue, issued, stopVars >>

Respond(w) ==
    /\ task[w] = "busy" /\ request[job[w]] = "handled"
    /\ Finish(w, "result")
    /\ UNCHANGED request

\* httpx.ConnectError: the request never left.
ConnectError(w) ==
    /\ task[w] = "busy" /\ request[job[w]] = "out"
    /\ Finish(w, "unavailable")
    /\ request' = [request EXCEPT ![job[w]] = "failed"]

TimeoutUnavailable(w) ==
    /\ Finish(w, "unavailable")
    /\ UNCHANGED request

\* httpx.TimeoutException: the daemon may have acted, or may act later.
Timeout(w) ==
    /\ Finish(w, "timeout")
    /\ UNCHANGED request

\* Any other exception, a connection reset for one, is passed on unwrapped.
OtherError(w) ==
    /\ Finish(w, "error")
    /\ UNCHANGED request

Complete(w) == Respond(w) \/ ConnectError(w) \/ Timeout(w) \/ OtherError(w)

\* CancelledError at the await of a cancelled worker.  It is no Exception,
\* so neither branch of _worker() settles the future of the job in hand.
Unwind(w) ==
    /\ ~Running(w)
    /\ task[w] \in {"idle", "busy"}
    /\ task' = [task EXCEPT ![w] = "ended"]
    /\ job' = [job EXCEPT ![w] = NoCall]
    /\ UNCHANGED << poolVars, queue, issued, future, request, stopVars >>

\* The daemon acts on a request it has received.
Handle(c) ==
    /\ request[c] = "out"
    /\ request' = [request EXCEPT ![c] = "handled"]
    /\ UNCHANGED << poolVars, task, job, queue, issued, future, stopVars >>

(***************************************************************************)
(* stop()                                                                  *)
(***************************************************************************)

NoDrain == UNCHANGED << queue, future >>

\* The while loop at the end of stop(): every queued job is taken off and
\* fails with "Client stopping" unless its future is done.
Drain ==
    /\ queue' = << >>
    /\ future' = [c \in Calls |->
                    IF c \in Range(queue) /\ future[c] = "pending"
                    THEN "unavailable" ELSE future[c]]

CancelNone == cancelled

\* worker.cancel() on every worker of the pool.
CancelPool == cancelled \cup {client}

\* With a pool to stop: forget and cancel it, then await its workers.
StopPool(s) ==
    /\ stopping[s] = "ready"
    /\ client # NoPool
    /\ client' = NoPool
    /\ cancelled' = CancelPool
    /\ joining' = [joining EXCEPT ![s] = client]
    /\ stopping' = [stopping EXCEPT ![s] = "joining"]
    /\ UNCHANGED << started, task, job, queue, issued, future, request >>

\* "await worker" has returned for every worker of the pool.
Joined(s) == \A w \in Workers : w[1] = joining[s] => task[w] = "ended"

\* Every worker of the pool has ended: drain the queue, aclose() the client.
StopDrain(s) ==
    /\ stopping[s] = "joining"
    /\ Joined(s)
    /\ Drain
    /\ stopping' = [stopping EXCEPT ![s] = "done"]
    /\ UNCHANGED << poolVars, task, job, issued, request, joining >>

\* Without a pool nothing is awaited and the queue is drained at once.
StopIdle(s) ==
    /\ stopping[s] = "ready"
    /\ client = NoPool
    /\ Drain
    /\ stopping' = [stopping EXCEPT ![s] = "done"]
    /\ UNCHANGED << poolVars, task, job, issued, request, joining >>

Stop(s) == StopPool(s) \/ StopDrain(s) \/ StopIdle(s)

-----------------------------------------------------------------------------

Next ==
    \/ Start
    \/ Submit
    \/ Refuse
    \/ \E c \in Calls : Abandon(c) \/ Handle(c)
    \/ \E w \in Workers : Take(w) \/ Complete(w) \/ Unwind(w)
    \/ \E s \in Stops : Stop(s)

Spec == Init /\ [][Next]_vars

\* The event loop runs every ready task, httpx gives up after its timeout,
\* a cancelled worker unwinds and stop() goes on once its workers ended.
\* Nothing is assumed of the daemon, the callers or who calls stop().
FairWorker(w) == WF_vars(Take(w)) /\ WF_vars(Complete(w)) /\ WF_vars(Unwind(w))
FairStop(s) == WF_vars(StopDrain(s))
Fairness ==
    /\ \A w \in Workers : FairWorker(w)
    /\ \A s \in Stops : FairStop(s)

FairSpec == Spec /\ Fairness

-----------------------------------------------------------------------------
(***************************************************************************)
(* Properties                                                              *)
(***************************************************************************)

Live(w) == task[w] \in {"idle", "busy"} /\ Running(w)

\* The workers that run are exactly those of the current pool: no worker
\* dies of an exception, none outlives stop(), no start() opens a second
\* pool next to the first.  Hence _perform() finds self._client whenever it
\* runs, and it is the httpx client opened together with its worker.
WorkersServe == \A w \in Workers : Live(w) <=> w[1] = client

\* The workers whose request is under way and will be answered.
Serving == {w \in Workers : Running(w) /\ task[w] = "busy"}

\* "Concurrency is bounded by max_concurrency", across any interleaving of
\* start(), stop() and the pools that submit() reopens.
BoundedConcurrency ==
    Cardinality(Serving) <= Concurrency

Queued(c) == c \in Range(queue)

\* A command is posted at most once: its job is queued once, before the
\* request is made, and one worker at most ever has it in hand.
PostedOnce ==
    /\ \A i, k \in DOMAIN queue : queue[i] = queue[k] => i = k
    /\ \A c \in Calls : Queued(c) => request[c] = "unsent"
    /\ \A w, x \in Workers : job[w] = job[x] /\ job[w] # NoCall => w = x

\* The daemon is never sent a call before one that was queued earlier.
DispatchInOrder ==
    \A c, d \in Calls : Queued(c) /\ request[d] # "unsent" => d < c

\* A call answered with UpstreamUnavailableError or ProxyQueueFullError was
\* not acted on by the dog and never will be, whatever raised the error:
\* a failed connection, the drain of stop(), a full queue.
UnavailableMeansUntouched ==
    \A c \in Calls : future[c] \in {"unavailable", "refused"}
                        => request[c] \in {"unsent", "failed"} /\ ~Queued(c)

\* A queued job always has somebody to look after it: the workers of an
\* open pool or a stop() that is going to drain the queue.
NoStrandedJob ==
    queue # << >> => client # NoPool \/ \E s \in Stops : stopping[s] = "joining"

\* When a call is answered, an emergency stop say, nothing submitted before
\* it is queued any more, and at most max_concurrency - 1 workers still have
\* an earlier call under way: with one worker no call is overtaken.
BoundedOvertaking ==
    \A d \in Calls : future[d] = "result" =>
        /\ \A c \in Calls : c < d => ~Queued(c)
        /\ Cardinality({w \in Serving : job[w] < d}) < Concurrency

\* What a caller was told is never changed: a future is settled once.
SettledForGood ==
    [][\A c \in Calls : future[c] \in Settled => future'[c] = future[c]]_vars

\* A worker that has not been cancelled lets go of a job only when the
\* caller has an answer.
WorkersAnswer ==
    [][\A w \in Workers :
         Running(w) /\ job[w] # NoCall /\ job'[w] # job[w]
            => future'[job[w]] \in Settled]_vars

\* Every call returns: its future is settled in the end.
Answered == \A c \in Calls : future[c] = "pending" ~> future[c] # "pending"

\* stop() has cancelled the worker that has call c in hand.
CutOff(c) == \E w \in Workers : job[w] = c /\ ~Running(w)

\* Every call that was queued returns, unless stop() cancels the very worker
\* that has it in hand: other pools and other calls of stop() are no excuse.
AnsweredOrCutOff ==
    \A c \in Calls : Queued(c) ~> future[c] # "pending" \/ CutOff(c)

\* No job stays in the queue for ever, stop() or not.
QueueServed == \A c \in Calls : Queued(c) ~> ~Queued(c)

\* A stop() that waits for its workers returns.
StopReturns == \A s \in Stops : stopping[s] = "joining" ~> stopping[s] = "done"

\* Call c is the i-th in the queue.
Place(c, i) == i \in DOMAIN queue /\ queue[i] = c

\* A queued call moves up until it leaves the queue, as long as its pool is
\* open; a posted one is answered, or stop() cancels its worker.
CallsMoveOn ==
    \A c \in Calls :
        /\ \A p \in Pools, i \in Calls :
               client = p /\ Place(c, i) ~> Place(c, i - 1) \/ ~Queued(c) \/ client # p
        /\ \A w \in Workers : job[w] = c ~> future[c] \in Settled \/ ~Running(w)

\* A worker that is cancelled ends for good, whatever it was doing, and a
\* stop() whose workers have ended returns.
StopsMoveOn ==
    /\ \A w \in Workers : ~Running(w) ~> [](task[w] = "ended")
    /\ \A s \in Stops : stopping[s] = "joining" /\ Joined(s) ~> stopping[s] = "done"

\* The client is the broker of module CallBroker: a waiting call is one in
\* the queue, a running one is in the hand of a worker that is not cancelled.
Broker == INSTANCE CallBroker WITH
              Capacity <- Concurrency,
              waiting  <- Range(queue),
              running  <- {job[w] : w \in Serving},
              outcome  <- future

\* Every behaviour of the client is one of the broker: calls begin in order,
\* once, at most max_concurrency at a time, and have one outcome, although
\* pools are cancelled, reopened and drained in between.
ServesAsBroker == Broker!Spec

=============================================================================
