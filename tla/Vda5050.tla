------------------------------ MODULE Vda5050 ------------------------------
(***************************************************************************)
(* The VDA5050 adapter (src/pidog_nova/vda5050_adapter.py) in the life of  *)
(* the process (the hooks of src/pidog_nova/main.py): it subscribes to     *)
(* instant actions, announces the robot ONLINE, publishes its state in a   *)
(* loop and announces it OFFLINE when the process shuts down.              *)
(*                                                                         *)
(* Instant actions are dispatched to the driver, which rejects the actions *)
(* it does not know and tries to post the others to the PiDog.  What can   *)
(* go wrong with a post is the matter of PidogClient; here it succeeds or  *)
(* fails.  The bridge, NATS and the master that sends the actions are      *)
(* outside; the bridge calls back as long as it is subscribed, and nothing *)
(* in the adapter unsubscribes it.                                         *)
(*                                                                         *)
(* DoseOff, AnyRobot, LetLoopRun and NotJoined are wrong versions of the   *)
(* definitions after them, kept to see the properties fail.                *)
(***************************************************************************)
EXTENDS Naturals, FiniteSets, Functions

CONSTANTS
    Messages,        \* one value for each instant action that arrives
    Requested,       \* the action types the master sends
    BridgeMayFail,   \* a call of the bridge may raise
    MaxStates        \* bound: how many state messages are published

ASSUME AdapterAssumption == BridgeMayFail \in BOOLEAN /\ MaxStates \in Nat

\* _PIDOG_ACTIONS of driver.py.
PidogActions ==
    {"stand", "sit", "lie", "head_bark", "wag_tail", "shake_head", "stretch",
     "push_up", "doze_off", "nod_lethargy", "forward", "backward", "turn_left",
     "turn_right", "trot", "half_sit", "head_up_down", "tilting_head"}

\* _VDA5050_TO_PIDOG_ACTION, with one name written wrong and as it is.
DoseOff ==
    [stand |-> "stand", sit |-> "sit", lie |-> "lie", bark |-> "head_bark",
     wagTail |-> "wag_tail", shakeHead |-> "shake_head", stretch |-> "stretch",
     pushUp |-> "push_up", dozeOff |-> "dose_off", nod |-> "nod_lethargy",
     forward |-> "forward", backward |-> "backward", turnLeft |-> "turn_left",
     turnRight |-> "turn_right", trot |-> "trot", halfSit |-> "half_sit",
     headUpDown |-> "head_up_down", tiltingHead |-> "tilting_head"]

ToPidog ==
    [stand |-> "stand", sit |-> "sit", lie |-> "lie", bark |-> "head_bark",
     wagTail |-> "wag_tail", shakeHead |-> "shake_head", stretch |-> "stretch",
     pushUp |-> "push_up", dozeOff |-> "doze_off", nod |-> "nod_lethargy",
     forward |-> "forward", backward |-> "backward", turnLeft |-> "turn_left",
     turnRight |-> "turn_right", trot |-> "trot", halfSit |-> "half_sit",
     headUpDown |-> "head_up_down", tiltingHead |-> "tilting_head"]

\* The action types of the factsheet.
Factsheet ==
    {"enable", "disable", "stop", "estop", "stand", "sit", "lie", "bark",
     "wagTail", "shakeHead", "stretch", "pushUp", "dozeOff", "nod", "forward",
     "backward", "turnLeft", "turnRight", "trot", "halfSit", "headUpDown",
     "tiltingHead"}

\* What _handle_instant_action() asks of the driver: "/stop" stands for
\* driver.stop(), any other name for driver.execute_action().
Command(type) ==
    CASE type \in {"stop", "estop"} -> "/stop"
      [] type = "enable" -> "stand"
      [] type = "disable" -> "sit"
      [] type \in DOMAIN ToPidog -> ToPidog[type]
      [] OTHER -> type

\* execute_action() raises KeyError for a name it does not know.
Accepted(command) == command \in PidogActions \cup {"/stop"}

VARIABLES
    main,        \* where the process is
    adapter,     \* how far Vda5050Adapter.start() has come
    kept,        \* main._vda5050 is not None
    subscribed,  \* the bridge calls back for inbound actions
    connection,  \* the last connection message, which NATS keeps
    states,      \* how many state messages were published
    loop,        \* where _publish_loop() is
    cancelling,  \* self._task.cancel() was called
    stopSet,     \* self._stopping
    stopping,    \* where stop() is
    handler,     \* handler[m]: what became of message m
    type,        \* type[m]: its action type
    robot,       \* robot[m]: whom it is for, this robot or another one
    sent         \* sent[m]: the command posted to the PiDog for it

loopVars == << states, loop, cancelling >>
lifeVars == << main, adapter, kept, subscribed, connection, stopSet, stopping >>
messageVars == << handler, type, robot, sent >>
vars == << lifeVars, loopVars, messageVars >>

\* A message is ignored, or with the driver until its action was posted, could
\* not be posted or answered, or was rejected for its name.
Outcomes == {"none", "ignored", "driver", "done", "failed", "rejected"}

\* Nothing but an action of the driver's list is ever posted, and no message
\* for another robot gets past the adapter.
TypeOK ==
    /\ main \in {"start", "serve", "shutdown", "driver", "stopped"}
    /\ adapter \in {"new", "subscribed", "online", "started", "failed"}
    /\ kept \in BOOLEAN /\ subscribed \in BOOLEAN
    /\ connection \in {"none", "ONLINE", "OFFLINE"}
    /\ states \in 0 .. MaxStates
    /\ loop \in {"none", "top", "sample", "publish", "sleep", "ended"}
    /\ cancelling \in BOOLEAN /\ stopSet \in BOOLEAN
    /\ stopping \in {"no", "join", "offline", "done"}
    /\ handler \in [Messages -> Outcomes]
    /\ type \in [Messages -> Requested \cup {"none"}]
    /\ robot \in [Messages -> {"none", "this", "other"}]
    /\ sent \in [Messages -> PidogActions \cup {"/stop", "none"}]
    /\ \A m \in Messages : robot[m] = "other" => handler[m] = "ignored"

\* The driver is started and NATS connected; the adapter is constructed.
Init ==
    /\ main = "start" /\ adapter = "new" /\ kept = TRUE
    /\ subscribed = FALSE /\ connection = "none" /\ states = 0
    /\ loop = "none" /\ cancelling = FALSE /\ stopSet = FALSE /\ stopping = "no"
    /\ handler = [m \in Messages |-> "none"]
    /\ type = [m \in Messages |-> "none"]
    /\ robot = [m \in Messages |-> "none"]
    /\ sent = [m \in Messages |-> "none"]

(***************************************************************************)
(* start()                                                                 *)
(***************************************************************************)

StartSubscribe ==
    /\ main = "start" /\ adapter = "new"
    /\ adapter' = "subscribed"
    /\ subscribed' = TRUE
    /\ UNCHANGED << main, kept, connection, stopSet, stopping, loopVars, messageVars >>

StartOnline ==
    /\ main = "start" /\ adapter = "subscribed"
    /\ adapter' = "online"
    /\ connection' = "ONLINE"
    /\ UNCHANGED << main, kept, subscribed, stopSet, stopping, loopVars, messageVars >>

\* The factsheet is published and the loop created.
StartLoop ==
    /\ main = "start" /\ adapter = "online"
    /\ adapter' = "started"
    /\ main' = "serve"
    /\ loop' = "top"
    /\ UNCHANGED << kept, subscribed, connection, stopSet, stopping, states,
                    cancelling, messageVars >>

\* A call of the bridge raises: _on_startup() drops the adapter and goes on.
StartFails ==
    /\ BridgeMayFail
    /\ main = "start"
    /\ adapter' = "failed"
    /\ kept' = FALSE
    /\ main' = "serve"
    /\ UNCHANGED << subscribed, connection, stopSet, stopping, loopVars, messageVars >>

(***************************************************************************)
(* _publish_loop()                                                         *)
(***************************************************************************)

MoveLoop(from, to) ==
    /\ loop = from
    /\ loop' = to
    /\ UNCHANGED << lifeVars, cancelling, messageVars >>

\* "while not self._stopping.is_set()"
LoopTop ==
    /\ MoveLoop("top", IF stopSet THEN "ended" ELSE "sample")
    /\ UNCHANGED states

\* snapshot_state() gives a sample to publish; or it gives None or raises.
Sampled ==
    /\ ~cancelling
    /\ MoveLoop("sample", "publish") \/ MoveLoop("sample", "sleep")
    /\ UNCHANGED states

\* publish_state() and publish_visualization(), or an exception in either.
\* Once the bound is reached only the exceptions are left.
Published ==
    /\ ~cancelling
    /\ MoveLoop("publish", "sleep")
    /\ \/ states < MaxStates /\ states' = states + 1
       \/ UNCHANGED states

\* wait_for() returns: the interval has passed or _stopping is set.  When
\* it is set, Python 3.11 returns even if the task is being cancelled.
Slept ==
    /\ cancelling => stopSet
    /\ MoveLoop("sleep", "top")
    /\ UNCHANGED states

\* CancelledError at an await of the loop; a message that is being published
\* may already have left.
Cancelled ==
    /\ cancelling
    /\ \/ /\ \E from \in {"top", "sample", "publish", "sleep"} : MoveLoop(from, "ended")
          /\ UNCHANGED states
       \/ /\ MoveLoop("publish", "ended")
          /\ states < MaxStates /\ states' = states + 1

(***************************************************************************)
(* stop() and _on_shutdown()                                               *)
(***************************************************************************)

\* "if _vda5050 is not None"
FirstToStop == IF kept THEN "shutdown" ELSE "driver"

Shutdown ==
    /\ main = "serve"
    /\ main' = FirstToStop
    /\ UNCHANGED << adapter, kept, subscribed, connection, stopSet, stopping,
                    loopVars, messageVars >>

LetLoopRun == cancelling' = cancelling
CancelLoop == cancelling' = TRUE

StopLoop ==
    /\ main = "shutdown" /\ stopping = "no"
    /\ stopSet' = TRUE
    /\ CancelLoop
    /\ stopping' = "join"
    /\ UNCHANGED << main, adapter, kept, subscribed, connection, states, loop,
                    messageVars >>

NotJoined == stopping = "join"
\* "await self._task" has returned.
Joined == stopping = "join" /\ loop = "ended"

\* publish_offline(), whose failure is logged.
StopOffline ==
    /\ Joined
    /\ \/ connection' = "OFFLINE"
       \/ BridgeMayFail /\ UNCHANGED connection
    /\ stopping' = "done"
    /\ main' = "driver"
    /\ UNCHANGED << adapter, kept, subscribed, stopSet, loopVars, messageVars >>

\* _driver.shutdown()
ShutdownDriver ==
    /\ main = "driver"
    /\ main' = "stopped"
    /\ UNCHANGED << adapter, kept, subscribed, connection, stopSet, stopping,
                    loopVars, messageVars >>

(***************************************************************************)
(* _handle_instant_action()                                                *)
(***************************************************************************)

AnyRobot(m) == robot'[m] \in {"this", "other"}

\* "if robot_id != self._id: return"
ForUs(m) == robot'[m] = "this"

Receive(m, t) ==
    /\ subscribed
    /\ handler[m] = "none"
    /\ type' = [type EXCEPT ![m] = t]
    /\ \E r \in {"this", "other"} : robot' = [robot EXCEPT ![m] = r]
    /\ handler' = [handler EXCEPT ![m] = IF ForUs(m) THEN "driver" ELSE "ignored"]
    /\ UNCHANGED << lifeVars, loopVars, sent >>

Post(m) == sent' = [sent EXCEPT ![m] = Command(type[m])]

\* The driver posts the command.  Or it raises, which the handler logs: for an
\* unknown name; before the post for want of an endpoint, of room in the queue
\* or of a connection; after it when the answer does not come.
Dispatch(m) ==
    /\ handler[m] = "driver"
    /\ \/ /\ Accepted(Command(type[m]))
          /\ \/ /\ handler' = [handler EXCEPT ![m] = "done"]
                /\ Post(m)
             \/ /\ handler' = [handler EXCEPT ![m] = "failed"]
                /\ Post(m) \/ UNCHANGED sent
       \/ /\ ~Accepted(Command(type[m]))
          /\ handler' = [handler EXCEPT ![m] = "rejected"]
          /\ UNCHANGED sent
    /\ UNCHANGED << lifeVars, loopVars, type, robot >>

Next ==
    \/ StartSubscribe \/ StartOnline \/ StartLoop \/ StartFails
    \/ LoopTop \/ Sampled \/ Published \/ Slept \/ Cancelled
    \/ Shutdown \/ StopLoop \/ StopOffline \/ ShutdownDriver
    \/ \E m \in Messages : Dispatch(m) \/ \E t \in Requested : Receive(m, t)

Spec == Init /\ [][Next]_vars

\* The event loop runs what is ready, the interval passes, publish_offline()
\* returns.  Nothing is assumed of the sampler and of the other publications:
\* the loop may hang in them for as long as it is not cancelled.
Fairness == WF_vars(LoopTop \/ Slept \/ Cancelled) /\ WF_vars(StopOffline)

FairSpec == Spec /\ Fairness

-----------------------------------------------------------------------------
(***************************************************************************)
(* Properties                                                              *)
(***************************************************************************)

\* "publishes OFFLINE on stop": nothing the loop publishes comes after it.
NothingAfterOffline ==
    [][connection = "OFFLINE" => states' = states /\ connection' = connection]_vars

\* stop() returns, even when the loop hangs in a poll of the PiDog.
StopReturns == stopping = "join" ~> stopping = "done"

\* No action that the factsheet advertises is rejected as unknown: the tables
\* of the adapter and of the driver agree by name.
AdvertisedIsServed ==
    \A m \in Messages : type[m] \in Factsheet => handler[m] # "rejected"

\* "anything else -> passed through verbatim as a raw PiDog action name (the
\* upstream daemon will reject unknown names with a 4xx)": no action is
\* refused before the daemon has seen it.
PassedThrough ==
    \A m \in Messages :
        handler[m] \in {"done", "rejected"} => sent[m] = Command(type[m])

\* "VDA5050 adapter failed to start; continuing without it": no VDA5050
\* command reaches the dog of a connector that goes on without the adapter.
WithoutItNoCommands ==
    [][main = "serve" /\ ~kept => \A m \in Messages : sent'[m] = sent[m]]_vars

=============================================================================
