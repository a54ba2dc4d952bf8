------------------------------ MODULE Gateway ------------------------------
(***************************************************************************)
(* The connector as a whole, class PidogDriver of src/pidog_nova/driver.py *)
(* at work: two loops sample the PiDog through one bounded client queue,   *)
(* the operator's commands wait in the same queue, an update of the        *)
(* configuration sends the jobs to come to another PiDog, and what the     *)
(* samples find is what the registry's heartbeat publishes.                *)
(*                                                                         *)
(* The client is the one of PidogClient while it is up: a FIFO queue that  *)
(* refuses a job when it is full, and max_concurrency workers.  A step is  *)
(* what the event loop runs between two suspension points; the two polls   *)
(* of a sample enter the queue next to each other, since gather() makes    *)
(* their tasks together.                                                   *)
(*                                                                         *)
(* Endpoints are numbered by the update that set them, 0 is "no IP set".   *)
(*                                                                         *)
(* OneTooMany, StopsFirst, NewestFirst, Overlapping, Sticky, BothPolls and *)
(* SwallowsFailure are wrong versions of the definitions after them, kept  *)
(* to see the properties fail.                                             *)
(***************************************************************************)
EXTENDS Naturals, Sequences, FiniteSets

CONSTANTS
    Samplers,     \* the loops that call snapshot_state(): the SDK's
                  \* TelemetryPublisher and the VDA5050 adapter
    Commands,     \* one value for each call of stop(), execute_action()
                  \* or recover()
    MaxDogs,      \* bound: how many endpoints are set
    Capacity,     \* pidog_proxy_queue_size; 0 is "no limit"
    Concurrency,  \* pidog_proxy_max_concurrency, at least 1
    NoJob         \* the worker waits in queue.get()

ASSUME GatewayAssumption ==
    /\ IsFiniteSet(Samplers) /\ IsFiniteSet(Commands)
    /\ Samplers \cap Commands = {}
    /\ MaxDogs \in Nat /\ Capacity \in Nat
    /\ Concurrency \in Nat \ {0}

Kinds   == {"battery", "state"}
Dogs    == 1 .. MaxDogs
Workers == 1 .. Concurrency
Polls   == [by : Samplers, kind : Kinds, to : Dogs]
Orders  == [by : Commands, kind : {"command"}, to : Dogs]
Jobs    == Polls \cup Orders

ASSUME NoJobAssumption == NoJob \notin Jobs

VARIABLES
    endpoint,  \* settings.pidog_ip and pidog_port
    queue,     \* the queue of the client
    hand,      \* hand[w]: the job worker w performs
    poll,      \* poll[s][k]: the poll k of the sample s is taking
    command,   \* command[c]: what has become of command c
    alive,     \* self._upstream_alive, what the registry's heartbeat shows
    serves     \* serves[d]: the polls that the daemon of d answers in time

vars == << endpoint, queue, hand, poll, command, alive, serves >>

Idle == [k \in Kinds |-> "none"]

TypeOK ==
    /\ endpoint \in 0 .. MaxDogs
    /\ queue \in Seq(Jobs)
    /\ Capacity > 0 => Len(queue) <= Capacity
    /\ hand \in [Workers -> Jobs \cup {NoJob}]
    /\ poll \in [Samplers -> [Kinds -> {"none", "out", "full", "empty"}]]
    /\ command \in [Commands -> {"none", "out", "answered", "refused"}]
    /\ alive \in BOOLEAN
    /\ serves \in [Dogs -> SUBSET Kinds]

\* The endpoint comes from the environment, or there is none yet.
Init ==
    /\ endpoint \in {0, 1} \cap (0 .. MaxDogs)
    /\ queue = << >>
    /\ hand = [w \in Workers |-> NoJob]
    /\ poll = [s \in Samplers |-> Idle]
    /\ command = [c \in Commands |-> "none"]
    /\ alive = FALSE
    /\ serves \in [Dogs -> {{}, Kinds}]

(***************************************************************************)
(* snapshot_state(), fetch_battery() and fetch_state()                     *)
(***************************************************************************)

OneTooMany(n) == Capacity = 0 \/ Len(queue) + n <= Capacity + 1

\* n jobs that enter one after the other are not refused.
Room(n) == Capacity = 0 \/ Len(queue) + n <= Capacity

PollJob(s, k) == [by |-> s, kind |-> k, to |-> endpoint]

\* A poll that the full queue refuses is an empty one.
AskDog(s) ==
    \/ /\ Room(2)
       /\ queue' = queue \o << PollJob(s, "battery"), PollJob(s, "state") >>
       /\ poll' = [poll EXCEPT ![s] = [k \in Kinds |-> "out"]]
    \/ /\ Room(1) /\ ~Room(2)
       /\ queue' = Append(queue, PollJob(s, "battery"))
       /\ poll' = [poll EXCEPT ![s] = [battery |-> "out", state |-> "empty"]]
    \/ /\ ~Room(1)
       /\ queue' = queue
       /\ poll' = [poll EXCEPT ![s] = [k \in Kinds |-> "empty"]]

Overlapping(s) == TRUE
\* A loop awaits its sample before it takes the next.
Rests(s) == poll[s] = Idle

Sample(s) ==
    /\ Rests(s)
    /\ \/ endpoint = 0 /\ alive' = FALSE /\ UNCHANGED << queue, poll >>
       \/ endpoint # 0 /\ AskDog(s) /\ UNCHANGED alive
    /\ UNCHANGED << endpoint, hand, command, serves >>

Sticky(s) == alive \/ \E k \in Kinds : poll[s][k] = "full"
BothPolls(s) == \A k \in Kinds : poll[s][k] = "full"
\* "either poll returned something"
Responds(s) == \E k \in Kinds : poll[s][k] = "full"

\* gather() returns; the sample, or None, is handed on.
SampleDone(s) ==
    /\ \A k \in Kinds : poll[s][k] \in {"full", "empty"}
    /\ alive' = Responds(s)
    /\ poll' = [poll EXCEPT ![s] = Idle]
    /\ UNCHANGED << endpoint, queue, hand, command, serves >>

(***************************************************************************)
(* stop(), execute_action(), recover()                                     *)
(***************************************************************************)

\* UpstreamUnavailableError before anything is sent; ProxyQueueFullError,
\* which none of the three translates; or the caller waits.
Command(c) ==
    /\ command[c] = "none"
    /\ \/ /\ endpoint = 0
          /\ command' = [command EXCEPT ![c] = "answered"]
          /\ UNCHANGED queue
       \/ /\ endpoint # 0 /\ ~Room(1)
          /\ command' = [command EXCEPT ![c] = "refused"]
          /\ UNCHANGED queue
       \/ /\ endpoint # 0 /\ Room(1)
          /\ command' = [command EXCEPT ![c] = "out"]
          /\ queue' = Append(queue, [by |-> c, kind |-> "command", to |-> endpoint])
    /\ UNCHANGED << endpoint, hand, poll, alive, serves >>

(***************************************************************************)
(* update_config()                                                         *)
(***************************************************************************)

\* A blank robot_ip is refused: what is configured stays configured.
UpdateConfig ==
    /\ endpoint < MaxDogs
    /\ endpoint' = endpoint + 1
    /\ UNCHANGED << queue, hand, poll, command, alive, serves >>

(***************************************************************************)
(* The workers of the client and the daemons                               *)
(***************************************************************************)

NewestFirst == Len(queue)
StopsFirst ==
    IF \E i \in DOMAIN queue : queue[i] \in Orders
    THEN CHOOSE i \in DOMAIN queue : queue[i] \in Orders
    ELSE 1
\* queue.get() of a FIFO queue.
NextUp == 1

Take(w) ==
    /\ hand[w] = NoJob
    /\ queue # << >>
    /\ hand' = [hand EXCEPT ![w] = queue[NextUp]]
    /\ queue' = SubSeq(queue, 1, NextUp - 1) \o SubSeq(queue, NextUp + 1, Len(queue))
    /\ UNCHANGED << endpoint, poll, command, alive, serves >>

\* The worker logs the error and leaves the future of the job alone.
SwallowsFailure(w) ==
    /\ hand[w] \in Polls
    /\ LET j == hand[w] IN
       poll' = [poll EXCEPT ![j.by][j.kind] = IF j.kind \in serves[j.to] THEN "full" ELSE @]
    /\ hand' = [hand EXCEPT ![w] = NoJob]
    /\ UNCHANGED << endpoint, queue, command, alive, serves >>

\* The daemon answers, with status 200 and something in the body, or the
\* poll comes to nothing: no connection, a timeout, another status, an
\* empty body.  That a request may also fail after the daemon has come back
\* makes no difference: it could have failed before, the next job could
\* have waited, and the sample is not complete before the other poll.
FinishPoll(w) ==
    /\ hand[w] \in Polls
    /\ LET j == hand[w] IN
       poll' = [poll EXCEPT ![j.by][j.kind] =
                    IF j.kind \in serves[j.to] THEN "full" ELSE "empty"]
    /\ hand' = [hand EXCEPT ![w] = NoJob]
    /\ UNCHANGED << endpoint, queue, command, alive, serves >>

\* The caller gets the envelope of the daemon's answer, or a DriverError.
FinishCommand(w) ==
    /\ hand[w] \in Orders
    /\ command' = [command EXCEPT ![hand[w].by] = "answered"]
    /\ hand' = [hand EXCEPT ![w] = NoJob]
    /\ UNCHANGED << endpoint, queue, poll, alive, serves >>

\* The daemon of d comes up, goes down, or answers but in part.
DaemonChanges(d) ==
    /\ \E kinds \in SUBSET Kinds \ {serves[d]} : serves' = [serves EXCEPT ![d] = kinds]
    /\ UNCHANGED << endpoint, queue, hand, poll, command, alive >>

-----------------------------------------------------------------------------

WorkerStep(w) == Take(w) \/ FinishPoll(w) \/ FinishCommand(w)
SamplerStep(s) == Sample(s) \/ SampleDone(s)

Next ==
    \/ \E s \in Samplers : Sample(s) \/ SampleDone(s)
    \/ \E c \in Commands : Command(c)
    \/ UpdateConfig
    \/ \E w \in Workers : Take(w) \/ FinishPoll(w) \/ FinishCommand(w)
    \/ \E d \in Dogs : DaemonChanges(d)

Spec == Init /\ [][Next]_vars

\* The event loop runs what is ready; a request ends by its answer or by
\* the timeout of the httpx client; the two loops and the heartbeat are
\* driven by timers.  Nothing is assumed of daemons, commands and updates.
FairSampler(s) == WF_vars(SamplerStep(s))
FairWorker(w) == WF_vars(WorkerStep(w))
Fairness ==
    /\ \A s \in Samplers : FairSampler(s)
    /\ \A w \in Workers : FairWorker(w)

FairSpec == Spec /\ Fairness

-----------------------------------------------------------------------------
(***************************************************************************)
(* Properties                                                              *)
(***************************************************************************)

Spacious == Capacity = 0 \/ Capacity >= 2 * Cardinality(Samplers)

Waiting(c) == \E i \in DOMAIN queue : queue[i].by = c

\* Once something has been sent to the new PiDog, nothing more is sent to
\* the old one: what is left in the queue is for the newest PiDog that a
\* worker is talking to, or for a later one.
OldFirst ==
    \A w \in Workers, i \in DOMAIN queue :
        hand[w] # NoJob => queue[i].to >= hand[w].to

\* The client has the job that a caller is waiting for.
InClient(by, kind) ==
    \/ \E i \in DOMAIN queue : queue[i].by = by /\ queue[i].kind = kind
    \/ \E w \in Workers : hand[w] # NoJob /\ hand[w].by = by /\ hand[w].kind = kind

\* Whoever waits has a job in the client: one whose job a refusal, a failed
\* request or an update had lost would wait for ever, and a loop that does
\* publishes nothing any more and leaves the heartbeat as it was.
NobodyForgotten ==
    /\ \A s \in Samplers, k \in Kinds : poll[s][k] = "out" => InClient(s, k)
    /\ \A c \in Commands : command[c] = "out" => InClient(c, "command")

\* The most jobs the queue may have, given the commands that wait in it.
Crowd == Cardinality({c \in Commands : Waiting(c)}) + 2 * Cardinality(Samplers)

\* When the queue refuses a command, the commands in it and two polls of each
\* sampler fill it: a queue longer than the polls refuses no stop for the sake
\* of telemetry alone, a shorter one may.  A poll is not refused even when
\* there is just room for two polls of each sampler besides the commands,
\* since the sampler that asks has none in the queue.
RefusedByCommands ==
    [][/\ \A c \in Commands :
              command'[c] = "refused" /\ command[c] # "refused" => Crowd >= Capacity
       /\ \A s \in Samplers, k \in Kinds :
              poll'[s][k] = "empty" /\ poll[s][k] = "none" => Crowd > Capacity
      ]_<< command, poll >>

\* All polls that are under way ask the PiDog d, which is configured.
AsksOnly(d) ==
    /\ endpoint = d
    /\ \A i \in DOMAIN queue : queue[i] \in Polls => queue[i].to = d
    /\ \A w \in Workers : hand[w] \in Polls => hand[w].to = d

\* Every sample finds that d answers the poll k, or that it answers none.
SeenUp(d, k) ==
    AsksOnly(d) /\ k \in serves[d] /\ \A s \in Samplers : poll[s][k] # "empty"
SeenDown(d) ==
    AsksOnly(d) /\ serves[d] = {} /\ \A s \in Samplers, k \in Kinds : poll[s][k] # "full"

SampleEnds == \E s \in Samplers : poll[s] # Idle /\ poll'[s] = Idle

\* Two loops write the flag, but neither sets it back: once all samples see
\* a PiDog up, later ones do, whichever loop they are of, and the flag is up
\* from the first that ends on; the same of one that is down.  Until it is
\* configured or served otherwise, that is, and until commands crowd out a
\* poll.
FlagIsSteady ==
    [][\A d \in Dogs :
         /\ \A k \in Kinds :
              SeenUp(d, k) /\ endpoint' = d /\ k \in serves'[d]
                  /\ (Capacity = 0 \/ Crowd <= Capacity)
                => SeenUp(d, k)' /\ (alive \/ SampleEnds => alive')
         /\ SeenDown(d) /\ endpoint' = d /\ serves'[d] = {}
                => SeenDown(d)' /\ (~alive \/ SampleEnds => ~alive')
      ]_vars

\* Command c is the i-th job in the queue, and as job 0 it is in a hand.
Place(c, i) ==
    IF i = 0 THEN \E w \in Workers : hand[w] # NoJob /\ hand[w].by = c
    ELSE i \in DOMAIN queue /\ queue[i].by = c

\* A command moves up in the queue, place by place into a worker's hand, and
\* is answered there: no poll and no later command gets ahead of it.
CommandsMoveUp ==
    \A c \in Commands :
        /\ \A i \in 1 .. Cardinality(Commands) + 2 * Cardinality(Samplers) :
               Place(c, i) ~> Place(c, i - 1)
        /\ Place(c, 0) ~> command[c] = "answered"

\* A command that was not refused is answered in the end, however busy the
\* samplers keep the queue.
CommandsAnswered ==
    \A c \in Commands : command[c] = "out" ~> command[c] = "answered"

\* The registry follows a PiDog that stops answering for good, whatever
\* older samples and samples of an earlier PiDog are still under way.
DownIsNoticed ==
    \A d \in Dogs : <>[](endpoint = d /\ serves[d] = {}) => <>[]~alive

\* The registry follows a PiDog that answers one of the polls for good,
\* even when it never answers the other, provided that the queue holds a
\* sample of each loop: in a shorter one the same poll of the same loop may
\* be refused time and again, and the flag goes up and down for ever.
UpIsNoticed ==
    Spacious => \A d \in Dogs, k \in Kinds :
                    <>[](endpoint = d /\ k \in serves[d]) => <>[]alive

=============================================================================
