------------------------- MODULE PidogBrokerProofs -------------------------
(***************************************************************************)
(* PidogClient implements CallBroker: the initial state maps to an initial *)
(* state, and every step maps to one step of the broker or to none.        *)
(***************************************************************************)
EXTENDS PidogClientProofs

InHand == {job[w] : w \in Serving}

BrokerVars == << Range(queue), InHand, future >>

\* A new client is an empty broker.
LEMMA InitBroker == Init => Broker!Init
<1> SUFFICES ASSUME Init PROVE Broker!Init
  OBVIOUS
<1>1. Range(queue) = {}
  BY DEF Init, Range
<1>2. {job[w] : w \in Serving} = {}
  BY DEF Init, Serving
<1> QED
  BY <1>1, <1>2 DEF Broker!Init, Init

\* A step that touches neither pools nor the hands of running workers.
LEMMA InHandUnchanged ==
    ASSUME \A w \in Workers : (Running(w)' /\ task'[w] = "busy") <=> w \in Serving,
           \A w \in Serving : job'[w] = job[w]
    PROVE  InHand' = InHand
<1>1. Serving' = Serving
  BY DEF Serving
<1> QED
  BY <1>1 DEF InHand

\* While a running worker is idle, some of the capacity is left: the calls
\* in hand can be told apart by the indexes of the other workers.
LEMMA RoomForOne ==
    ASSUME IInv, NEW w \in Workers, Running(w), task[w] = "idle"
    PROVE  Cardinality(InHand) < Concurrency
<1> DEFINE Holder(c) == CHOOSE x \in Serving : job[x] = c
           Others == (1 .. Concurrency) \ {w[2]}
<1>1. w = << client, w[2] >> /\ w[2] \in 1 .. Concurrency
  BY IInvWorkersServe DEF WorkersServe, Live, Workers
<1>2. \A x \in Serving : x = << client, x[2] >> /\ x[2] \in 1 .. Concurrency /\ x # w
  BY IInvWorkersServe DEF WorkersServe, Live, Workers, Serving
<1>3. \A c \in InHand : Holder(c) \in Serving /\ job[Holder(c)] = c
  BY DEF InHand
<1>4. \A c \in InHand : Holder(c)[2] \in Others
  BY <1>1, <1>2, <1>3
<1>5. \A c, d \in InHand : Holder(c)[2] = Holder(d)[2] => c = d
  BY <1>2, <1>3
<1> HIDE DEF Holder
<1>6. [c \in InHand |-> Holder(c)[2]] \in Injection(InHand, Others)
  BY <1>4, <1>5 DEF Injection, IsInjective
<1>7. /\ IsFiniteSet(Others) /\ Cardinality(Others) = Concurrency - 1
  <2>1. IsFiniteSet(1 .. Concurrency) /\ Cardinality(1 .. Concurrency) = Concurrency
    BY ConcurrencyPositive, FS_Interval
  <2> QED
    BY <1>1, <2>1, FS_RemoveElement
<1>8. Cardinality(InHand) <= Cardinality(Others)
  BY <1>6, <1>7, FS_Injection
<1>9. IsFiniteSet(InHand) /\ Cardinality(InHand) \in Nat
  BY <1>6, <1>7, FS_Injection, FS_CardinalityType
<1> QED
  BY <1>7, <1>8, <1>9, ConcurrencyPositive

\* submit() accepts a call, or refuses it when the queue is full.
LEMMA SubmitIsAccept ==
    ASSUME IInv, Submit \/ Refuse
    PROVE  \E c \in Calls : Broker!Accept(c) \/ Broker!Refuse(c)
<1> USE ClientAssumption DEF ClientAssumption, IInv, TypeOK
<1>1. issued + 1 \in Calls
  BY DEF Submit, Refuse, Calls
<1>2. Broker!IsNext(issued + 1)
  BY <1>1 DEF CallInv, Calls, Broker!IsNext
<1>3. InHand' = InHand
  BY EnsureStartedPools, InHandUnchanged DEF Submit, Refuse, Running, Serving
<1>4. CASE Submit
  <2>1. Range(queue') = Range(queue) \cup {issued + 1}
    BY <1>1, <1>4, RangeOfAppend DEF Submit, Enqueue
  <2> QED
    BY <1>1, <1>2, <1>3, <1>4, <2>1 DEF Submit, Broker!Accept, InHand
<1>5. CASE Refuse
  BY <1>1, <1>2, <1>3, <1>5 DEF Refuse, Broker!Refuse, InHand
<1> QED
  BY <1>4, <1>5

\* A worker that takes a job begins the call at the head.
LEMMA TakeIsBegin ==
    ASSUME IInv, NEW w \in Workers, Take(w)
    PROVE  \E c \in Calls : Broker!Begin(c)
<1> USE DEF IInv
<1>1. /\ 1 \in 1 .. Len(queue) /\ Head(queue) = queue[1] /\ queue[1] \in Calls
      /\ Len(Tail(queue)) = Len(queue) - 1 /\ Len(queue) \in Nat
      /\ Tail(queue) \in Seq(Calls)
      /\ \A i \in 1 .. Len(Tail(queue)) : Tail(queue)[i] = queue[i + 1]
  BY HeadOfQueue DEF Take, TypeOK
<1>2. \A c \in Range(queue) : c \in Calls /\ queue[1] <= c
  BY <1>1, QueuePositions DEF QueueInv, Calls
<1>3. Range(Tail(queue)) = Range(queue) \ {queue[1]}
  <2>1. ASSUME NEW c \in Range(Tail(queue)) PROVE c \in Range(queue) \ {queue[1]}
    <3>1. PICK i \in 1 .. Len(Tail(queue)) : c = queue[i + 1]
      BY <1>1, <2>1 DEF Range
    <3>2. i + 1 \in 1 .. Len(queue) /\ 1 < i + 1
      BY <1>1
    <3>3. queue[i + 1] \in Calls /\ queue[1] < queue[i + 1]
      BY <1>1, <3>2, QueuePositions DEF QueueInv
    <3> QED
      BY <1>1, <3>1, <3>2, <3>3, QueuePositions DEF Calls
  <2>2. ASSUME NEW c \in Range(queue), c # queue[1] PROVE c \in Range(Tail(queue))
    <3>1. PICK i \in 1 .. Len(queue) : c = queue[i]
      BY <2>2, QueuePositions
    <3>2. i - 1 \in 1 .. Len(Tail(queue)) /\ Tail(queue)[i - 1] = queue[i]
      BY <1>1, <2>2, <3>1
    <3>3. DOMAIN Tail(queue) = 1 .. Len(Tail(queue))
      BY <1>1, LenProperties
    <3> QED
      BY <3>1, <3>2, <3>3 DEF Range
  <2> QED
    BY <2>1, <2>2
<1>4. InHand' = InHand \cup {queue[1]}
  <2>1. Serving' = Serving \cup {w}
    BY DEF Take, Serving, Running, poolVars, TypeOK
  <2>2. job' = [job EXCEPT ![w] = queue[1]] /\ w \notin Serving
    BY <1>1 DEF Take, Serving
  <2>3. \A x \in Serving : x \in Workers /\ x # w /\ job'[x] = job[x]
    BY <2>2 DEF Serving, TypeOK
  <2>4. job'[w] = queue[1]
    BY <2>2 DEF TypeOK
  <2> QED
    BY <2>1, <2>3, <2>4 DEF InHand
<1>5. Cardinality(InHand) < Concurrency
  BY RoomForOne DEF Take
<1>6. queue[1] \in Range(queue)
  BY <1>1, QueuePositions
<1>7. queue' = Tail(queue) /\ UNCHANGED future
  BY DEF Take
<1>8. PICK c \in Calls : c = queue[1]
  BY <1>1
<1>9. Range(queue') = Range(queue) \ {c} /\ InHand' = InHand \cup {c}
  BY <1>3, <1>4, <1>7, <1>8
<1>10. Broker!Begin(c)
  <2>1. c \in Range(queue) /\ \A d \in Range(queue) : c <= d
    BY <1>2, <1>6, <1>8
  <2>2. Cardinality({job[x] : x \in Serving}) < Concurrency
    BY <1>5 DEF InHand
  <2>3. Broker!Cardinality({job[x] : x \in Serving}) = Cardinality({job[x] : x \in Serving})
    BY DEF Broker!Cardinality, Cardinality
  <2>4. Range(queue)' = Range(queue) \ {c}
    BY <1>9
  <2>5. ({job[x] : x \in Serving})' = {job[x] : x \in Serving} \cup {c}
    BY <1>9 DEF InHand
  <2> QED
    BY <1>7, <2>1, <2>2, <2>3, <2>4, <2>5 DEF Broker!Begin
<1> QED
  BY <1>10

\* A worker that is done with its job ends the call.
LEMMA CompleteIsEnd ==
    ASSUME IInv, NEW w \in Workers, Complete(w)
    PROVE  \E c \in Calls, answer \in Answers : Broker!End(c, answer)
<1> USE DEF IInv, TypeOK
<1>1. PICK answer \in Answers : Finish(w, answer)
  BY CompleteIsFinish
<1>2. w \in Serving /\ job[w] \in Calls /\ job[w] # NoCall
  BY <1>1 DEF Finish, Serving, HandInv
<1>3. Serving' = Serving \ {w} /\ \A x \in Serving \ {w} : job'[x] = job[x] /\ job[x] # job[w]
  BY <1>1, <1>2 DEF Finish, Serving, Running, poolVars, HandInv
<1>4. InHand' = InHand \ {job[w]}
  <2>1. InHand' = {job[x] : x \in Serving \ {w}}
    BY <1>3 DEF InHand
  <2> QED
    BY <1>2, <1>3, <2>1 DEF InHand
<1>5. future' = [future EXCEPT ![job[w]] = IF @ = "pending" THEN answer ELSE @]
  BY <1>1, <1>2 DEF Finish, Settle
<1> QED
  BY <1>1, <1>2, <1>4, <1>5 DEF Broker!End, Finish, InHand

\* Every step of the client is a step of the broker or changes nothing it has.
LEMMA StepBroker == IInv /\ WorkersServe' /\ [Next]_vars => [Broker!Next]_BrokerVars
<1> SUFFICES ASSUME IInv, WorkersServe', [Next]_vars PROVE Broker!Next \/ UNCHANGED BrokerVars
  OBVIOUS
<1> USE DEF IInv, TypeOK
<1>1. CASE Start
  <2>1. EnsureStarted
    BY <1>1 DEF Start, EnsureStarted
  <2>2. InHand' = InHand
    BY <1>1, <2>1, EnsureStartedPools, InHandUnchanged DEF Start, Running, Serving
  <2> QED
    BY <1>1, <2>2 DEF Start, BrokerVars
<1>2. CASE Submit \/ Refuse
  BY <1>2, SubmitIsAccept DEF Broker!Next
<1>3. ASSUME NEW c \in Calls, Abandon(c) PROVE Broker!Next
  <2>1. InHand' = InHand
    BY <1>3, InHandUnchanged DEF Abandon, Serving, Running, poolVars
  <2> QED
    BY <1>3, <2>1 DEF Abandon, Broker!Next, Broker!GiveUp, InHand
<1>4. ASSUME NEW c \in Calls, Handle(c) PROVE UNCHANGED BrokerVars
  BY <1>4 DEF Handle, BrokerVars, InHand, Serving, Running, poolVars
<1>5. ASSUME NEW w \in Workers, Take(w) PROVE Broker!Next
  BY <1>5, TakeIsBegin DEF Broker!Next
<1>6. ASSUME NEW w \in Workers, Complete(w) PROVE Broker!Next
  BY <1>6, CompleteIsEnd DEF Broker!Next, Answers
<1>7. ASSUME NEW w \in Workers, Unwind(w) PROVE UNCHANGED BrokerVars
  <2>1. InHand' = InHand
    BY <1>7, InHandUnchanged DEF Unwind, Serving, Running, poolVars
  <2> QED
    BY <1>7, <2>1 DEF Unwind, BrokerVars
<1>8. ASSUME NEW s \in Stops, StopPool(s) PROVE Broker!Next
  <2>1. Serving' = {}
    <3>1. client' = 0 /\ \A w \in Workers : w[1] # 0
      BY <1>8 DEF StopPool, NoPool, Workers, Pools
    <3>2. \A w \in Workers : Live(w)' => w[1] = client'
      BY DEF WorkersServe
    <3> QED
      BY <3>1, <3>2 DEF Serving, Live
  <2>2. Broker!DropRunning
    BY <1>8, <2>1 DEF StopPool, Broker!DropRunning
  <2> QED
    BY <2>2 DEF Broker!Next
<1>9. ASSUME NEW s \in Stops, StopDrain(s) \/ StopIdle(s) PROVE Broker!Next
  <2>1. Range(queue') = {}
    BY <1>9, StopDrains DEF Drain, Range
  <2>2. InHand' = InHand
    BY <1>9, StopDrains DEF InHand, Serving, Running
  <2>3. Broker!FailWaiting
    BY <1>9, <2>1, <2>2, StopDrains DEF Drain, Broker!FailWaiting, InHand
  <2> QED
    BY <2>3 DEF Broker!Next
<1>10. CASE UNCHANGED vars
  BY <1>10 DEF vars, BrokerVars, InHand, Serving, Running
<1> QED
  BY <1>1, <1>2, <1>3, <1>4, <1>5, <1>6, <1>7, <1>8, <1>9, <1>10 DEF Next, Stop

\* Callers may rely on the broker: whatever start(), stop() and the workers
\* do, the client behaves like CallBroker.
THEOREM ImplementsBroker == Spec => ServesAsBroker
<1>1. Init => Broker!Init
  BY InitBroker
<1>2. IInv /\ WorkersServe' /\ [Next]_vars => [Broker!Next]_(Broker!brokerVars)
  BY StepBroker DEF BrokerVars, InHand, Broker!brokerVars
<1> QED
  BY <1>1, <1>2, Invariance, ServedByCurrentPool, PTL DEF Spec, ServesAsBroker, Broker!Spec
=============================================================================
