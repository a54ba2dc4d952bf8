---------------------------- MODULE Vda5050Proofs ---------------------------
(***************************************************************************)
(* Proofs about Vda5050, for any number of messages and published states,  *)
(* whatever action types are requested and whether or not the bridge fails.*)
(***************************************************************************)
EXTENDS Vda5050, TLAPS

\* The types hold initially.
LEMMA InitTypeOK == Init => TypeOK
<1> SUFFICES ASSUME Init PROVE TypeOK
  OBVIOUS
<1>1. kept \in BOOLEAN /\ subscribed \in BOOLEAN /\ cancelling \in BOOLEAN /\ stopSet \in BOOLEAN
  BY Zenon DEF Init
<1>2. /\ handler \in [Messages -> Outcomes]
      /\ type \in [Messages -> Requested \cup {"none"}]
      /\ robot \in [Messages -> {"none", "this", "other"}]
      /\ sent \in [Messages -> PidogActions \cup {"/stop", "none"}]
      /\ \A m \in Messages : robot[m] # "other"
  BY DEF Init, Outcomes
<1>3. /\ main = "start" /\ adapter = "new" /\ connection = "none" /\ states \in 0 .. MaxStates
      /\ loop = "none" /\ stopping = "no"
  BY AdapterAssumption DEF Init, AdapterAssumption
<1> QED
  BY <1>1, <1>2, <1>3 DEF TypeOK

\* Every step keeps the types.
LEMMA StepTypeOK == TypeOK /\ [Next]_vars => TypeOK'
<1> SUFFICES ASSUME TypeOK, [Next]_vars PROVE TypeOK'
  OBVIOUS
<1> USE AdapterAssumption
    DEF AdapterAssumption, TypeOK, lifeVars, loopVars, messageVars
<1>1. CASE StartSubscribe \/ StartOnline \/ StartLoop \/ StartFails
  <2>1. CASE StartSubscribe
    BY <2>1 DEF StartSubscribe
  <2>2. CASE StartOnline
    BY <2>2 DEF StartOnline
  <2>3. CASE StartLoop
    BY <2>3 DEF StartLoop
  <2>4. CASE StartFails
    BY <2>4 DEF StartFails
  <2> QED
    BY <1>1, <2>1, <2>2, <2>3, <2>4
<1>2. CASE LoopTop \/ Slept
  BY <1>2 DEF LoopTop, Slept, MoveLoop
<1>3. CASE Sampled
  BY <1>3 DEF Sampled, MoveLoop
<1>4. CASE Published
  BY <1>4 DEF Published, MoveLoop
<1>5. CASE Cancelled
  <2>1. loop' = "ended" /\ UNCHANGED << lifeVars, cancelling, messageVars >>
    BY <1>5 DEF Cancelled, MoveLoop
  <2>2. states' \in 0 .. MaxStates
    BY <1>5 DEF Cancelled
  <2> QED
    BY <2>1, <2>2
<1>6. CASE Shutdown \/ StopLoop
  <2>1. CASE Shutdown
    BY <2>1 DEF Shutdown, FirstToStop
  <2>2. CASE StopLoop
    BY <2>2 DEF StopLoop, CancelLoop
  <2> QED
    BY <1>6, <2>1, <2>2
<1>7. CASE StopOffline \/ ShutdownDriver
  BY <1>7 DEF StopOffline, ShutdownDriver
<1>8. ASSUME NEW m \in Messages, Dispatch(m) PROVE TypeOK'
  <2>1. UNCHANGED << lifeVars, loopVars, type, robot >>
    BY <1>8 DEF Dispatch
  <2>2. PICK o \in Outcomes : handler' = [handler EXCEPT ![m] = o]
    BY <1>8 DEF Dispatch, Outcomes
  <2>3. sent' \in [Messages -> PidogActions \cup {"/stop", "none"}]
    <3>1. Accepted(Command(type[m])) \/ sent' = sent
      BY <1>8 DEF Dispatch
    <3>2. sent' = sent \/ sent' = [sent EXCEPT ![m] = Command(type[m])]
      BY <1>8 DEF Dispatch, Post
    <3> QED
      BY <3>1, <3>2 DEF Accepted
  <2>4. \A k \in Messages : robot'[k] = "other" => handler'[k] = "ignored"
    <3>1. handler[m] # "ignored"
      BY <1>8 DEF Dispatch
    <3> QED
      BY <2>1, <2>2, <3>1
  <2>5. handler' \in [Messages -> Outcomes]
    BY <2>2
  <2> QED
    BY <2>1, <2>3, <2>4, <2>5
<1>9. ASSUME NEW m \in Messages, NEW t \in Requested, Receive(m, t) PROVE TypeOK'
  <2>1. PICK r \in {"this", "other"} : robot' = [robot EXCEPT ![m] = r]
    BY <1>9 DEF Receive
  <2>2. handler' = [handler EXCEPT ![m] = IF robot'[m] = "this" THEN "driver" ELSE "ignored"]
    BY <1>9 DEF Receive, ForUs
  <2>3. UNCHANGED << lifeVars, loopVars, sent >> /\ type' = [type EXCEPT ![m] = t]
    BY <1>9 DEF Receive
  <2> QED
    BY <2>1, <2>2, <2>3 DEF Outcomes
<1>10. CASE UNCHANGED vars
  BY <1>10 DEF vars
<1> QED
  BY <1>1, <1>2, <1>3, <1>4, <1>5, <1>6, <1>7, <1>8, <1>9, <1>10 DEF Next

\* Every variable keeps its type; only actions the daemon knows are posted.
THEOREM TypeCorrect == Spec => []TypeOK
BY InitTypeOK, StepTypeOK, PTL DEF Spec

(***************************************************************************)
(* OFFLINE is the last message                                             *)
(***************************************************************************)

\* OFFLINE is published by stop() alone, once the loop has ended for good.
OfflineInv ==
    /\ main = "start" => connection # "OFFLINE" /\ loop = "none" /\ stopping = "no"
    /\ stopping = "no" => connection # "OFFLINE"
    /\ stopping = "join" => connection # "OFFLINE" /\ main = "shutdown"
    /\ stopping = "done" => main \in {"driver", "stopped"}
    /\ connection = "OFFLINE" => loop = "ended"

\* Every step keeps the loop ended once OFFLINE is announced.
LEMMA StepOfflineInv == TypeOK /\ OfflineInv /\ [Next]_vars => OfflineInv'
<1> SUFFICES ASSUME TypeOK, OfflineInv, [Next]_vars PROVE OfflineInv'
  OBVIOUS
<1> USE DEF TypeOK, OfflineInv, lifeVars, loopVars, messageVars
<1>1. CASE StartSubscribe \/ StartOnline \/ StartLoop \/ StartFails
  BY <1>1 DEF StartSubscribe, StartOnline, StartLoop, StartFails
<1>2. CASE LoopTop \/ Sampled \/ Published \/ Slept \/ Cancelled
  BY <1>2 DEF LoopTop, Sampled, Published, Slept, Cancelled, MoveLoop
<1>3. CASE Shutdown \/ StopLoop
  BY <1>3 DEF Shutdown, FirstToStop, StopLoop, CancelLoop
<1>4. CASE StopOffline \/ ShutdownDriver
  BY <1>4 DEF StopOffline, Joined, ShutdownDriver
<1>5. ASSUME NEW m \in Messages,
             Dispatch(m) \/ \E t \in Requested : Receive(m, t)
      PROVE  OfflineInv'
  BY <1>5 DEF Dispatch, Receive
<1>6. CASE UNCHANGED vars
  BY <1>6 DEF vars
<1> QED
  BY <1>1, <1>2, <1>3, <1>4, <1>5, <1>6 DEF Next

\* No step publishes anything after OFFLINE.
LEMMA StepAfterOffline ==
    TypeOK /\ OfflineInv /\ [Next]_vars /\ connection = "OFFLINE"
        => states' = states /\ connection' = connection
<1> SUFFICES ASSUME TypeOK, OfflineInv, [Next]_vars, connection = "OFFLINE"
             PROVE  states' = states /\ connection' = connection
  OBVIOUS
<1> USE DEF TypeOK, OfflineInv, lifeVars, loopVars, messageVars
<1>1. CASE StartSubscribe \/ StartOnline \/ StartLoop \/ StartFails
  BY <1>1 DEF StartSubscribe, StartOnline, StartLoop, StartFails
<1>2. CASE LoopTop \/ Sampled \/ Published \/ Slept \/ Cancelled
  BY <1>2 DEF LoopTop, Sampled, Published, Slept, Cancelled, MoveLoop
<1>3. CASE Shutdown \/ StopLoop
  BY <1>3 DEF Shutdown, StopLoop
<1>4. CASE StopOffline \/ ShutdownDriver
  BY <1>4 DEF StopOffline, Joined, ShutdownDriver
<1>5. ASSUME NEW m \in Messages,
             Dispatch(m) \/ \E t \in Requested : Receive(m, t)
      PROVE  states' = states /\ connection' = connection
  BY <1>5 DEF Dispatch, Receive
<1>6. CASE UNCHANGED vars
  BY <1>6 DEF vars
<1> QED
  BY <1>1, <1>2, <1>3, <1>4, <1>5, <1>6 DEF Next

\* No state message and no ONLINE follows OFFLINE, wherever the loop was
\* when it was cancelled.
THEOREM OfflineIsLast == Spec => NothingAfterOffline
<1>1. Init => TypeOK /\ OfflineInv
  BY InitTypeOK DEF Init, OfflineInv
<1>2. TypeOK /\ OfflineInv /\ [Next]_vars => (TypeOK /\ OfflineInv)'
  BY StepTypeOK, StepOfflineInv
<1>3. TypeOK /\ OfflineInv /\ [Next]_vars
        => [connection = "OFFLINE" => states' = states /\ connection' = connection]_vars
  BY StepAfterOffline
<1> QED
  BY <1>1, <1>2, <1>3, PTL DEF Spec, NothingAfterOffline

(***************************************************************************)
(* The tables of action names                                              *)
(***************************************************************************)

\* Every name of the factsheet is translated into one the driver accepts.
LEMMA TablesAgree == \A t \in Factsheet : Accepted(Command(t))
<1> SUFFICES ASSUME NEW t \in Factsheet PROVE Accepted(Command(t))
  OBVIOUS
<1>1. CASE t \in {"stop", "estop", "enable", "disable"}
  <2>0. t \notin DOMAIN ToPidog
    BY <1>1 DEF ToPidog
  <2>1. CASE t \in {"stop", "estop"}
    <3>1. Command(t) = "/stop"
      BY <2>0, <2>1 DEF Command
    <3> QED
      BY <3>1 DEF Accepted
  <2>2. CASE t = "enable"
    <3>1. Command(t) = "stand"
      BY <2>0, <2>2 DEF Command
    <3> QED
      BY <3>1 DEF Accepted, PidogActions
  <2>3. CASE t = "disable"
    <3>1. Command(t) = "sit"
      BY <2>0, <2>3 DEF Command
    <3> QED
      BY <3>1 DEF Accepted, PidogActions
  <2> QED
    BY <1>1, <2>1, <2>2, <2>3
<1>2. CASE t \in DOMAIN ToPidog
  <2>1. t \notin {"stop", "estop", "enable", "disable"}
    BY <1>2 DEF ToPidog
  <2>2. Command(t) = ToPidog[t]
    BY <1>2, <2>1 DEF Command
  <2>3. ToPidog[t] \in PidogActions
    BY <1>2 DEF ToPidog, PidogActions
  <2> QED
    BY <2>2, <2>3 DEF Accepted
<1>3. t \in {"stop", "estop", "enable", "disable"} \/ t \in DOMAIN ToPidog
  BY DEF Factsheet, ToPidog
<1> QED
  BY <1>1, <1>2, <1>3

\* Every step keeps the advertised actions from being rejected.
LEMMA StepServed == TypeOK /\ AdvertisedIsServed /\ [Next]_vars => AdvertisedIsServed'
<1> SUFFICES ASSUME TypeOK, AdvertisedIsServed, [Next]_vars,
                    NEW m \in Messages, type'[m] \in Factsheet
             PROVE  handler'[m] # "rejected"
  BY DEF AdvertisedIsServed
<1> USE DEF TypeOK, AdvertisedIsServed
<1>1. ASSUME UNCHANGED messageVars PROVE handler'[m] # "rejected"
  BY <1>1 DEF messageVars
<1>2. CASE StartSubscribe \/ StartOnline \/ StartLoop \/ StartFails
  BY <1>1, <1>2 DEF StartSubscribe, StartOnline, StartLoop, StartFails
<1>3. CASE LoopTop \/ Sampled \/ Published \/ Slept \/ Cancelled
  BY <1>1, <1>3 DEF LoopTop, Sampled, Published, Slept, Cancelled, MoveLoop
<1>4. CASE Shutdown \/ StopLoop \/ StopOffline \/ ShutdownDriver
  BY <1>1, <1>4 DEF Shutdown, StopLoop, StopOffline, ShutdownDriver
<1>5. ASSUME NEW k \in Messages, Dispatch(k) PROVE handler'[m] # "rejected"
  <2>1. type' = type
    BY <1>5 DEF Dispatch
  <2>2. CASE k = m
    <3>1. Accepted(Command(type[m]))
      BY <2>1, TablesAgree
    <3> QED
      BY <1>5, <2>2, <3>1 DEF Dispatch
  <2>3. CASE k # m
    BY <1>5, <2>1, <2>3 DEF Dispatch
  <2> QED
    BY <2>2, <2>3
<1>6. ASSUME NEW k \in Messages, NEW t \in Requested, Receive(k, t)
      PROVE  handler'[m] # "rejected"
  BY <1>6 DEF Receive
<1>7. CASE UNCHANGED vars
  BY <1>1, <1>7 DEF vars
<1> QED
  BY <1>2, <1>3, <1>4, <1>5, <1>6, <1>7 DEF Next

\* An instant action of the factsheet is never refused by the driver.
THEOREM AdvertisedServed == Spec => []AdvertisedIsServed
<1>1. Init => AdvertisedIsServed
  BY DEF Init, AdvertisedIsServed
<1> QED
  BY <1>1, InitTypeOK, StepTypeOK, StepServed, PTL DEF Spec

(***************************************************************************)
(* stop() returns                                                          *)
(*                                                                         *)
(* The prover has no rule for ENABLED.  What the theorem needs of it is     *)
(* its hypothesis GuardsSuffice: an action whose guard holds can be taken. *)
(* That is so by the shape of the actions, each of which gives every       *)
(* variable a value once its guard holds.                                  *)
(***************************************************************************)

\* The guards of the two steps that stop() may have to wait for: those of a
\* loop that was cancelled after _stopping was set, and of its own second half.
GuardsSuffice ==
    /\ cancelling /\ stopSet /\ loop \in {"top", "sample", "publish", "sleep"}
          => ENABLED << LoopTop \/ Slept \/ Cancelled >>_vars
    /\ main = "shutdown" /\ Joined => ENABLED << StopOffline >>_vars

\* An adapter that is stopped has a loop, which has been told to end and was
\* cancelled.
JoinInv ==
    /\ main = "serve" /\ kept => loop # "none"
    /\ main = "shutdown" => loop # "none"
    /\ stopping = "join" => main = "shutdown" /\ cancelling /\ stopSet

\* Every step keeps that.
LEMMA StepJoinInv == TypeOK /\ JoinInv /\ [Next]_vars => JoinInv'
<1> SUFFICES ASSUME TypeOK, JoinInv, [Next]_vars PROVE JoinInv'
  OBVIOUS
<1> USE DEF TypeOK, JoinInv, lifeVars, loopVars, messageVars
<1>1. CASE StartSubscribe \/ StartOnline \/ StartLoop \/ StartFails
  BY <1>1 DEF StartSubscribe, StartOnline, StartLoop, StartFails
<1>2. CASE LoopTop \/ Sampled \/ Published \/ Slept \/ Cancelled
  BY <1>2 DEF LoopTop, Sampled, Published, Slept, Cancelled, MoveLoop
<1>3. CASE Shutdown \/ StopLoop
  BY <1>3 DEF Shutdown, FirstToStop, StopLoop, CancelLoop
<1>4. CASE StopOffline \/ ShutdownDriver
  BY <1>4 DEF StopOffline, ShutdownDriver
<1>5. ASSUME NEW m \in Messages,
             Dispatch(m) \/ \E t \in Requested : Receive(m, t)
      PROVE  JoinInv'
  BY <1>5 DEF Dispatch, Receive
<1>6. CASE UNCHANGED vars
  BY <1>6 DEF vars
<1> QED
  BY <1>1, <1>2, <1>3, <1>4, <1>5, <1>6 DEF Next

\* stop() awaits the loop, which is at this place.
JoinsAt(place) == stopping = "join" /\ loop = place
Returned == stopping = "done"

\* A loop that was cancelled can but go to the top of the loop and end.
LEMMA StepJoins ==
    TypeOK /\ JoinInv /\ [Next]_vars =>
        /\ JoinsAt("sleep") => JoinsAt("sleep")' \/ JoinsAt("top")' \/ JoinsAt("ended")'
        /\ JoinsAt("top") => JoinsAt("top")' \/ JoinsAt("ended")'
        /\ JoinsAt("sample") => JoinsAt("sample")' \/ JoinsAt("ended")'
        /\ JoinsAt("publish") => JoinsAt("publish")' \/ JoinsAt("ended")'
        /\ JoinsAt("ended") => JoinsAt("ended")' \/ Returned'
<1> SUFFICES ASSUME TypeOK, JoinInv, [Next]_vars, stopping = "join"
             PROVE  \/ stopping' = "join" /\ loop' = loop
                    \/ stopping' = "join" /\ loop' = "ended" /\ loop # "ended"
                    \/ stopping' = "join" /\ loop = "sleep" /\ loop' = "top"
                    \/ stopping' = "done" /\ loop = "ended"
  BY DEF JoinsAt, Returned
<1> USE DEF TypeOK, JoinInv, lifeVars, loopVars, messageVars
<1>1. CASE StartSubscribe \/ StartOnline \/ StartLoop \/ StartFails
  BY <1>1 DEF StartSubscribe, StartOnline, StartLoop, StartFails
<1>2. CASE LoopTop \/ Sampled \/ Published \/ Slept \/ Cancelled
  BY <1>2 DEF LoopTop, Sampled, Published, Slept, Cancelled, MoveLoop
<1>3. CASE Shutdown \/ StopLoop
  BY <1>3 DEF Shutdown, StopLoop
<1>4. CASE StopOffline \/ ShutdownDriver
  BY <1>4 DEF StopOffline, Joined, ShutdownDriver
<1>5. ASSUME NEW m \in Messages,
             Dispatch(m) \/ \E t \in Requested : Receive(m, t)
      PROVE  stopping' = "join" /\ loop' = loop
  BY <1>5 DEF Dispatch, Receive
<1>6. CASE UNCHANGED vars
  BY <1>6 DEF vars
<1> QED
  BY <1>1, <1>2, <1>3, <1>4, <1>5, <1>6 DEF Next

\* The steps it waits for.
LEMMA LoopMoves ==
    TypeOK /\ JoinInv /\ (LoopTop \/ Slept \/ Cancelled) =>
        /\ JoinsAt("sleep") => JoinsAt("top")' \/ JoinsAt("ended")'
        /\ JoinsAt("top") => JoinsAt("ended")'
        /\ JoinsAt("sample") => JoinsAt("ended")'
        /\ JoinsAt("publish") => JoinsAt("ended")'
BY DEF TypeOK, JoinInv, LoopTop, Slept, Cancelled, MoveLoop, lifeVars, JoinsAt

\* stop() returns: wherever the loop hangs it is cancelled there, and when
\* wait_for() swallows the cancellation the loop finds _stopping set.
THEOREM StopsReturn == FairSpec /\ []GuardsSuffice => StopReturns
<1>1. Init => TypeOK /\ JoinInv
  BY InitTypeOK DEF Init, JoinInv
<1>2. TypeOK /\ JoinInv /\ [Next]_vars => (TypeOK /\ JoinInv)'
  BY StepTypeOK, StepJoinInv
<1>3. TypeOK /\ JoinInv /\ stopping = "join"
        => \/ JoinsAt("sleep") \/ JoinsAt("top") \/ JoinsAt("sample") \/ JoinsAt("publish")
           \/ JoinsAt("ended")
  BY DEF TypeOK, JoinInv, JoinsAt
<1>4. TypeOK /\ JoinInv /\ << LoopTop \/ Slept \/ Cancelled >>_vars =>
        /\ JoinsAt("sleep") => JoinsAt("top")' \/ JoinsAt("ended")'
        /\ JoinsAt("top") => JoinsAt("ended")'
        /\ JoinsAt("sample") => JoinsAt("ended")'
        /\ JoinsAt("publish") => JoinsAt("ended")'
  BY LoopMoves
<1>5. << StopOffline >>_vars => Returned'
  BY DEF StopOffline, Returned
<1>6. JoinInv /\ GuardsSuffice
        => /\ JoinsAt("ended") => ENABLED << StopOffline >>_vars
           /\ JoinsAt("sleep") \/ JoinsAt("top") \/ JoinsAt("sample") \/ JoinsAt("publish")
                => ENABLED << LoopTop \/ Slept \/ Cancelled >>_vars
  BY DEF GuardsSuffice, JoinInv, JoinsAt, Joined
<1>7. Returned => stopping = "done"
  BY DEF Returned
<1> QED
  BY <1>1, <1>2, <1>3, <1>4, <1>5, <1>6, <1>7, StepJoins, PTL
     DEF FairSpec, Spec, Fairness, StopReturns

=============================================================================
