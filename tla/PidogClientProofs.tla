------------------------- MODULE PidogClientProofs -------------------------
(***************************************************************************)
(* Proofs about PidogClient, for every value of its constants: the         *)
(* inductive invariant IInv, from it each safety invariant and action      *)
(* property that the runs of MC_PidogClient check, and the single steps of *)
(* its liveness.                                                           *)
(***************************************************************************)
EXTENDS PidogClient, FiniteSetTheorems, SequenceTheorems, TLAPS

(***************************************************************************)
(* The inductive invariant                                                 *)
(***************************************************************************)

\* Workers exist for the pools opened so far, each of which is the current
\* one or has been cancelled, and only a cancelled worker ever ends.
PoolInv ==
    /\ client \notin cancelled
    /\ \A p \in 1 .. started : p = client \/ p \in cancelled
    /\ \A w \in Workers : task[w] = "none" <=> w[1] > started
    /\ \A w \in Workers : task[w] = "ended" => w[1] \in cancelled

\* A call has a future once it is issued, and was posted only after that.
\* What its future says agrees with what the daemon saw.
CallInv ==
    /\ \A c \in Calls : future[c] = "none" <=> c > issued
    /\ \A c \in Calls : c > issued => request[c] = "unsent"
    /\ \A c \in Calls : future[c] \in {"unavailable", "refused"}
                            => request[c] \in {"unsent", "failed"}
    /\ \A c \in Calls : future[c] = "result" => request[c] = "handled"

\* The queue holds unposted calls in the order they were issued, all of
\* them later than any call that was posted.
QueueInv ==
    /\ \A i \in 1 .. Len(queue) : /\ queue[i] <= issued
                                  /\ request[queue[i]] = "unsent"
                                  /\ future[queue[i]] \in {"pending", "abandoned"}
    /\ \A i, k \in 1 .. Len(queue) : i < k => queue[i] < queue[k]
    /\ \A i \in 1 .. Len(queue), d \in Calls :
           request[d] # "unsent" => d < queue[i]

\* A worker has a job in hand while it is busy, no two have the same one,
\* and nobody else settles the future of a call that was posted.
HandInv ==
    /\ \A w \in Workers : job[w] # NoCall <=> task[w] = "busy"
    /\ \A w \in Workers : job[w] # NoCall
           => /\ request[job[w]] # "unsent"
              /\ future[job[w]] \in {"pending", "abandoned"}
    /\ \A w, x \in Workers : job[w] = job[x] /\ job[w] # NoCall => w = x

IInv == TypeOK /\ PoolInv /\ CallInv /\ QueueInv /\ HandInv

(***************************************************************************)
(* Facts about the constants, sequences and the operators of PidogClient   *)
(***************************************************************************)

\* max_concurrency is raised to 1: there is always a worker in a pool.
LEMMA ConcurrencyPositive == Concurrency \in Nat /\ Concurrency >= 1
BY ClientAssumption DEF ClientAssumption, Concurrency

\* Taking the head of a queue that is not empty.
LEMMA HeadOfQueue ==
    ASSUME NEW S, NEW q \in Seq(S), q # << >>
    PROVE  /\ Len(q) \in Nat /\ Len(q) >= 1
           /\ Head(q) = q[1] /\ q[1] \in S
           /\ Tail(q) \in Seq(S) /\ Len(Tail(q)) = Len(q) - 1
           /\ \A i \in 1 .. Len(Tail(q)) : Tail(q)[i] = q[i + 1]
OBVIOUS

\* Appending to a queue adds one element to its range.
LEMMA RangeOfAppend ==
    ASSUME NEW S, NEW q \in Seq(S), NEW e \in S
    PROVE  Range(Append(q, e)) = Range(q) \cup {e}
<1>1. /\ DOMAIN q = 1 .. Len(q) /\ Len(q) \in Nat
      /\ DOMAIN Append(q, e) = 1 .. Len(q) + 1
      /\ \A i \in 1 .. Len(q) : Append(q, e)[i] = q[i]
      /\ Append(q, e)[Len(q) + 1] = e
  BY AppendProperties, LenProperties
<1>2. ASSUME NEW d \in Range(Append(q, e)) PROVE d \in Range(q) \cup {e}
  <2>1. PICK i \in 1 .. Len(q) + 1 : Append(q, e)[i] = d
    BY <1>1, <1>2 DEF Range
  <2>2. i \in 1 .. Len(q) \/ i = Len(q) + 1
    BY <1>1
  <2> QED
    BY <1>1, <2>1, <2>2 DEF Range
<1>3. ASSUME NEW d \in Range(q) PROVE d \in Range(Append(q, e))
  <2>1. PICK i \in 1 .. Len(q) : q[i] = d
    BY <1>1, <1>3 DEF Range
  <2>2. i \in 1 .. Len(q) + 1
    BY <1>1
  <2> QED
    BY <1>1, <2>1, <2>2 DEF Range
<1>4. e \in Range(Append(q, e))
  BY <1>1 DEF Range
<1> QED
  BY <1>2, <1>3, <1>4

\* A member of the queue is found at one of its positions.
LEMMA QueuePositions ==
    ASSUME TypeOK
    PROVE  /\ \A c : c \in Range(queue) => \E i \in 1 .. Len(queue) : queue[i] = c
           /\ \A i \in 1 .. Len(queue) : queue[i] \in Calls /\ queue[i] \in Range(queue)
           /\ DOMAIN queue = 1 .. Len(queue) /\ Len(queue) \in Nat
BY DEF TypeOK, Range

\* However _perform() ends, the worker is done with the job; a caller told
\* "unavailable" was never reached, one told "result" was handled.
LEMMA CompleteIsFinish ==
    ASSUME NEW w \in Workers, Complete(w)
    PROVE  \E answer \in Answers :
              /\ Finish(w, answer)
              /\ \/ answer # "unavailable" /\ UNCHANGED request
                 \/ request' = [request EXCEPT ![job[w]] = "failed"]
              /\ answer = "result" => request[job[w]] = "handled" /\ UNCHANGED request
              /\ answer = "unavailable" => request[job[w]] = "out"
<1>1. CASE Respond(w)
  BY <1>1 DEF Respond, Answers
<1>2. CASE ConnectError(w)
  BY <1>2 DEF ConnectError, Answers
<1>3. CASE Timeout(w)
  BY <1>3 DEF Timeout, Answers
<1>4. CASE OtherError(w)
  BY <1>4 DEF OtherError, Answers
<1> QED
  BY <1>1, <1>2, <1>3, <1>4 DEF Complete

(***************************************************************************)
(* Type correctness                                                        *)
(***************************************************************************)

\* The types hold initially.
LEMMA InitTypeOK == Init => TypeOK
BY ConcurrencyPositive, ClientAssumption
DEF ClientAssumption, Init, TypeOK, NoPool

\* start() keeps the types of client, pools and tasks.
LEMMA EnsureStartedTypes ==
    ASSUME TypeOK, EnsureStarted
    PROVE  /\ started' \in 0 .. MaxStarts /\ started <= started'
           /\ client' \in 1 .. started'
           /\ task' \in [Workers -> {"none", "idle", "busy", "ended"}]
<1>1. CASE client = NoPool /\ OpenPool
  BY <1>1, ClientAssumption DEF TypeOK, OpenPool, ClientAssumption
<1>2. CASE client # NoPool /\ UNCHANGED << client, started, task >>
  BY <1>2, ClientAssumption DEF TypeOK, NoPool, ClientAssumption
<1> QED
  BY <1>1, <1>2 DEF EnsureStarted

\* Every step keeps the types.
LEMMA StepTypeOK == TypeOK /\ [Next]_vars => TypeOK'
<1> SUFFICES ASSUME TypeOK, [Next]_vars PROVE TypeOK'
  OBVIOUS
<1> USE ClientAssumption DEF ClientAssumption, TypeOK
<1>1. CASE Start
  <2>1. EnsureStarted
    BY <1>1 DEF Start, EnsureStarted
  <2> QED
    BY <1>1, <2>1, EnsureStartedTypes DEF Start, stopVars
<1>2. CASE Submit
  <2>1. issued + 1 \in Calls /\ issued' = issued + 1
    BY <1>2 DEF Submit, Calls
  <2>2. queue' \in Seq(Calls) /\ (MaxQueueSize > 0 => Len(queue') <= MaxQueueSize)
    BY <1>2, <2>1, AppendProperties DEF Submit, Enqueue, QueueFull
  <2> QED
    BY <1>2, <2>1, <2>2, EnsureStartedTypes DEF Submit, stopVars, Calls
<1>3. CASE Refuse
  BY <1>3, EnsureStartedTypes DEF Refuse, stopVars, Calls, Settled
<1>4. ASSUME NEW c \in Calls, Abandon(c) PROVE TypeOK'
  BY <1>4 DEF Abandon, poolVars, stopVars, Settled
<1>5. ASSUME NEW c \in Calls, Handle(c) PROVE TypeOK'
  BY <1>5 DEF Handle, poolVars, stopVars
<1>6. ASSUME NEW w \in Workers, Take(w) PROVE TypeOK'
  <2>1. Head(queue) \in Calls /\ Tail(queue) \in Seq(Calls)
        /\ Len(Tail(queue)) = Len(queue) - 1 /\ Len(queue) \in Nat
    BY <1>6, HeadOfQueue DEF Take
  <2> QED
    BY <1>6, <2>1 DEF Take, poolVars, stopVars
<1>7. ASSUME NEW w \in Workers, Complete(w) PROVE TypeOK'
  <2>1. PICK answer \in Answers :
            Finish(w, answer) /\ (UNCHANGED request
              \/ request' = [request EXCEPT ![job[w]] = "failed"])
    BY <1>7, CompleteIsFinish
  <2> QED
    BY <2>1 DEF Finish, Settle, poolVars, stopVars, Settled
<1>8. ASSUME NEW w \in Workers, Unwind(w) PROVE TypeOK'
  BY <1>8 DEF Unwind, poolVars, stopVars
<1>9. ASSUME NEW s \in Stops, StopPool(s) PROVE TypeOK'
  BY <1>9 DEF StopPool, CancelPool, NoPool
<1>10. ASSUME NEW s \in Stops, StopDrain(s) \/ StopIdle(s) PROVE TypeOK'
  <2>1. Drain /\ stopping' = [stopping EXCEPT ![s] = "done"]
    BY <1>10 DEF StopDrain, StopIdle
  <2>2. UNCHANGED << client, started, cancelled, task, job, issued, request, joining >>
    BY <1>10 DEF StopDrain, StopIdle, poolVars
  <2>3. queue' \in Seq(Calls) /\ Len(queue') = 0
    BY <2>1, EmptySeq DEF Drain
  <2>4. future' \in [Calls -> {"none", "pending"} \cup Settled]
    BY <2>1 DEF Drain, Settled, Answers
  <2> QED
    BY <2>1, <2>2, <2>3, <2>4
<1>11. CASE UNCHANGED vars
  BY <1>11 DEF vars
<1> QED
  BY <1>1, <1>2, <1>3, <1>4, <1>5, <1>6, <1>7, <1>8, <1>9, <1>10, <1>11
  DEF Next, Stop

\* The state keeps its types, and the queue never grows beyond max_queue_size.
THEOREM TypeCorrect == Spec => []TypeOK
BY InitTypeOK, StepTypeOK, PTL DEF Spec

(***************************************************************************)
(* The inductive invariant is kept by every step                           *)
(***************************************************************************)

\* The invariant holds when the client is constructed.
LEMMA InitIInv == Init => IInv
<1> SUFFICES ASSUME Init PROVE IInv
  OBVIOUS
<1>1. TypeOK
  BY InitTypeOK
<1>2. PoolInv
  BY ConcurrencyPositive DEF Init, PoolInv, NoPool, Workers, Pools
<1>3. CallInv
  BY DEF Init, CallInv, Calls
<1>4. QueueInv
  BY DEF Init, QueueInv
<1>5. HandInv
  BY DEF Init, HandInv
<1> QED
  BY <1>1, <1>2, <1>3, <1>4, <1>5 DEF IInv

\* start() keeps what is said of pools and tasks.
LEMMA EnsureStartedPools ==
    ASSUME TypeOK, PoolInv, EnsureStarted, UNCHANGED cancelled
    PROVE  /\ PoolInv'
           /\ \A w \in Workers : task'[w] = "busy" <=> task[w] = "busy"
<1> USE ClientAssumption DEF ClientAssumption
<1>1. \A w \in Workers : w[1] \in 1 .. MaxStarts
  BY ConcurrencyPositive DEF Workers, Pools
<1>2. CASE client = NoPool /\ OpenPool
  BY <1>1, <1>2 DEF PoolInv, TypeOK, OpenPool, NoPool
<1>3. CASE client # NoPool /\ UNCHANGED << client, started, task >>
  BY <1>3 DEF PoolInv
<1> QED
  BY <1>2, <1>3 DEF EnsureStarted

\* Every step keeps what is said of pools and tasks.
LEMMA StepPoolInv == TypeOK /\ PoolInv /\ [Next]_vars => PoolInv'
<1> SUFFICES ASSUME TypeOK, PoolInv, [Next]_vars PROVE PoolInv'
  OBVIOUS
<1>1. CASE Start
  <2>1. EnsureStarted
    BY <1>1 DEF Start, EnsureStarted
  <2> QED
    BY <1>1, <2>1, EnsureStartedPools DEF Start
<1>2. CASE Submit \/ Refuse
  BY <1>2, EnsureStartedPools DEF Submit, Refuse
<1>3. ASSUME NEW c \in Calls, Abandon(c) \/ Handle(c) PROVE PoolInv'
  BY <1>3 DEF Abandon, Handle, poolVars, PoolInv
<1>4. ASSUME NEW w \in Workers, Take(w) PROVE PoolInv'
  BY <1>4 DEF Take, poolVars, PoolInv, TypeOK
<1>5. ASSUME NEW w \in Workers, Complete(w) PROVE PoolInv'
  <2>1. PICK answer \in Answers : Finish(w, answer)
    BY <1>5, CompleteIsFinish
  <2> QED
    BY <2>1 DEF Finish, poolVars, PoolInv, TypeOK
<1>6. ASSUME NEW w \in Workers, Unwind(w) PROVE PoolInv'
  BY <1>6 DEF Unwind, Running, poolVars, PoolInv, TypeOK
<1>7. ASSUME NEW s \in Stops, StopPool(s) PROVE PoolInv'
  BY <1>7 DEF StopPool, CancelPool, NoPool, PoolInv, TypeOK
<1>8. ASSUME NEW s \in Stops, StopDrain(s) PROVE PoolInv'
  BY <1>8 DEF StopDrain, poolVars, PoolInv
<1>9. ASSUME NEW s \in Stops, StopIdle(s) PROVE PoolInv'
  BY <1>9 DEF StopIdle, poolVars, PoolInv
<1>10. CASE UNCHANGED vars
  BY <1>10 DEF vars, PoolInv
<1> QED
  BY <1>1, <1>2, <1>3, <1>4, <1>5, <1>6, <1>7, <1>8, <1>9, <1>10 DEF Next, Stop

\* What stop() does to the futures, the queue and nothing else of a call.
LEMMA StopDrains ==
    ASSUME NEW s \in Stops, StopDrain(s) \/ StopIdle(s)
    PROVE  Drain /\ UNCHANGED << client, started, cancelled, task, job, issued, request >>
BY DEF StopDrain, StopIdle, poolVars

\* Every step keeps what is said of futures and requests.
LEMMA StepCallInv ==
    TypeOK /\ CallInv /\ QueueInv /\ HandInv /\ [Next]_vars => CallInv'
<1> SUFFICES ASSUME TypeOK, CallInv, QueueInv, HandInv, [Next]_vars PROVE CallInv'
  OBVIOUS
<1> USE ClientAssumption DEF CallInv, TypeOK, ClientAssumption
<1>1. CASE Start
  BY <1>1 DEF Start
<1>2. CASE Submit \/ Refuse
  <2>1. /\ issued + 1 \in Calls /\ issued' = issued + 1 /\ UNCHANGED request
        /\ \/ future' = [future EXCEPT ![issued + 1] = "pending"]
           \/ future' = [future EXCEPT ![issued + 1] = "refused"]
    BY <1>2 DEF Submit, Refuse, Calls
  <2>2. \A c \in Calls : c > issued + 1 <=> c > issued /\ c # issued + 1
    BY DEF Calls
  <2>3. request[issued + 1] = "unsent"
    BY <2>1
  <2>4. /\ future'[issued + 1] \in {"pending", "refused"}
        /\ \A c \in Calls : c # issued + 1 => future'[c] = future[c]
    BY <2>1
  <2>5. \A c \in Calls : future'[c] = "none" <=> c > issued'
    BY <2>1, <2>2, <2>4
  <2>6. \A c \in Calls : c > issued' => request'[c] = "unsent"
    BY <2>1, <2>2
  <2>7. /\ \A c \in Calls : future'[c] \in {"unavailable", "refused"}
                                => request'[c] \in {"unsent", "failed"}
        /\ \A c \in Calls : future'[c] = "result" => request'[c] = "handled"
    BY <2>1, <2>3, <2>4
  <2> QED
    BY <2>5, <2>6, <2>7
<1>3. ASSUME NEW c \in Calls, Abandon(c) PROVE CallInv'
  BY <1>3 DEF Abandon
<1>4. ASSUME NEW c \in Calls, Handle(c) PROVE CallInv'
  BY <1>4 DEF Handle
<1>5. ASSUME NEW w \in Workers, Take(w) PROVE CallInv'
  <2>1. Head(queue) = queue[1] /\ 1 \in 1 .. Len(queue) /\ queue[1] \in Calls
    BY <1>5, HeadOfQueue DEF Take
  <2>2. queue[1] <= issued /\ future[queue[1]] \in {"pending", "abandoned"}
    BY <2>1 DEF QueueInv
  <2> QED
    BY <1>5, <2>1, <2>2 DEF Take, Calls
<1>6. ASSUME NEW w \in Workers, Complete(w) PROVE CallInv'
  <2>1. PICK answer \in Answers :
            /\ Finish(w, answer)
            /\ \/ answer # "unavailable" /\ UNCHANGED request
               \/ request' = [request EXCEPT ![job[w]] = "failed"]
            /\ answer = "result" => request[job[w]] = "handled" /\ UNCHANGED request
    BY <1>6, CompleteIsFinish
  <2>2. job[w] \in Calls /\ future[job[w]] \in {"pending", "abandoned"}
        /\ request[job[w]] # "unsent"
    BY <2>1 DEF Finish, HandInv
  <2>3. \/ future' = future /\ future[job[w]] = "abandoned"
        \/ future' = [future EXCEPT ![job[w]] = answer]
    BY <2>1, <2>2 DEF Finish, Settle
  <2>4. issued' = issued /\ job[w] <= issued
    BY <2>1, <2>2 DEF Finish, Calls
  <2>5. \A c \in Calls : (future'[c] = "none" <=> c > issued')
                         /\ (c > issued' => request'[c] = "unsent")
    BY <2>1, <2>2, <2>3, <2>4 DEF Answers, Calls
  <2>6. \A c \in Calls : future'[c] \in {"unavailable", "refused"}
                            => request'[c] \in {"unsent", "failed"}
    BY <2>1, <2>2, <2>3 DEF Answers
  <2>7. \A c \in Calls : future'[c] = "result" => request'[c] = "handled"
    BY <2>1, <2>2, <2>3 DEF Answers
  <2> QED
    BY <2>5, <2>6, <2>7
<1>7. ASSUME NEW w \in Workers, Unwind(w) PROVE CallInv'
  BY <1>7 DEF Unwind
<1>8. ASSUME NEW s \in Stops, StopPool(s) PROVE CallInv'
  BY <1>8 DEF StopPool
<1>9. ASSUME NEW s \in Stops, StopDrain(s) \/ StopIdle(s) PROVE CallInv'
  <2>1. \A c \in Range(queue) : c \in Calls /\ request[c] = "unsent"
    BY QueuePositions DEF QueueInv
  <2> QED
    BY <1>9, <2>1, StopDrains DEF Drain
<1>10. CASE UNCHANGED vars
  BY <1>10 DEF vars
<1> QED
  BY <1>1, <1>2, <1>3, <1>4, <1>5, <1>6, <1>7, <1>8, <1>9, <1>10 DEF Next, Stop

\* Steps that leave the queue alone keep QueueInv when no call is newly
\* posted and no future of a queued call is settled.
LEMMA QueueUntouched ==
    ASSUME TypeOK, QueueInv, UNCHANGED << queue, issued >>,
           \A c \in Calls : request'[c] = "unsent" <=> request[c] = "unsent",
           \A c \in Range(queue) : future'[c] \in {future[c], "abandoned"}
    PROVE  QueueInv'
BY QueuePositions DEF QueueInv

\* Every step keeps what is said of the queue.
LEMMA StepQueueInv ==
    TypeOK /\ CallInv /\ QueueInv /\ HandInv /\ [Next]_vars => QueueInv'
<1> SUFFICES ASSUME TypeOK, CallInv, QueueInv, HandInv, [Next]_vars PROVE QueueInv'
  OBVIOUS
<1> USE ClientAssumption DEF ClientAssumption
<1>1. CASE Start
  BY <1>1, QueueUntouched DEF Start
<1>2. CASE Submit
  <2>1. issued + 1 \in Calls /\ issued \in Nat /\ issued' = issued + 1
        /\ UNCHANGED request
        /\ future' = [future EXCEPT ![issued + 1] = "pending"]
    BY <1>2 DEF Submit, Calls, TypeOK
  <2>2. /\ Len(queue) \in Nat /\ Len(queue') = Len(queue) + 1
        /\ \A i \in 1 .. Len(queue) : queue'[i] = queue[i] /\ queue[i] \in Calls
        /\ queue'[Len(queue) + 1] = issued + 1
    BY <1>2, <2>1, AppendProperties, QueuePositions DEF Submit, Enqueue, TypeOK
  <2>3. future'[issued + 1] = "pending"
        /\ \A i \in 1 .. Len(queue) : future'[queue[i]] = future[queue[i]]
    BY <2>1, <2>2 DEF QueueInv, TypeOK, Calls
  <2>4. request[issued + 1] = "unsent" /\ \A d \in Calls : request[d] # "unsent" => d <= issued
    BY <2>1 DEF CallInv, TypeOK, Calls
  <2>5. \A i \in 1 .. Len(queue') : /\ queue'[i] <= issued'
                                    /\ request'[queue'[i]] = "unsent"
                                    /\ future'[queue'[i]] \in {"pending", "abandoned"}
    BY <2>1, <2>2, <2>3, <2>4 DEF QueueInv, Calls
  <2>6. ASSUME NEW i \in 1 .. Len(queue'), NEW k \in 1 .. Len(queue'), i < k
        PROVE  queue'[i] < queue'[k]
    <3>1. i \in 1 .. Len(queue) /\ queue'[i] = queue[i] /\ queue[i] \in Calls
      BY <2>2, <2>6
    <3>2. CASE k \in 1 .. Len(queue)
      BY <2>2, <2>6, <3>1, <3>2 DEF QueueInv
    <3>3. CASE k = Len(queue) + 1
      BY <2>1, <2>2, <3>1, <3>3 DEF QueueInv, Calls
    <3> QED
      BY <2>2, <3>2, <3>3
  <2>7. \A i \in 1 .. Len(queue'), d \in Calls : request'[d] # "unsent" => d < queue'[i]
    BY <2>1, <2>2, <2>4 DEF QueueInv, Calls
  <2> QED
    BY <2>5, <2>6, <2>7 DEF QueueInv
<1>3. CASE Refuse
  <2>1. issued + 1 \in Calls /\ issued' = issued + 1 /\ UNCHANGED << queue, request >>
        /\ future' = [future EXCEPT ![issued + 1] = "refused"]
    BY <1>3 DEF Refuse, Calls, TypeOK
  <2>2. \A i \in 1 .. Len(queue) : queue[i] \in Calls /\ queue[i] # issued + 1
                                   /\ queue[i] <= issued + 1
    BY QueuePositions DEF QueueInv, Calls, TypeOK
  <2> QED
    BY <2>1, <2>2 DEF QueueInv, TypeOK
<1>4. ASSUME NEW c \in Calls, Abandon(c) PROVE QueueInv'
  BY <1>4, QueueUntouched, QueuePositions DEF Abandon, TypeOK
<1>5. ASSUME NEW c \in Calls, Handle(c) PROVE QueueInv'
  BY <1>5, QueueUntouched DEF Handle, TypeOK
<1>6. ASSUME NEW w \in Workers, Take(w) PROVE QueueInv'
  <2>1. /\ Len(queue) \in Nat /\ 1 \in 1 .. Len(queue) /\ Len(queue') = Len(queue) - 1
        /\ Head(queue) = queue[1] /\ queue[1] \in Calls
        /\ \A i \in 1 .. Len(queue') : queue'[i] = queue[i + 1] /\ i + 1 \in 1 .. Len(queue)
    BY <1>6, HeadOfQueue DEF Take, TypeOK
  <2>2. ASSUME NEW i \in 1 .. Len(queue')
        PROVE  queue[1] < queue'[i] /\ queue'[i] \in Calls /\ queue'[i] # queue[1]
    <3>1. queue'[i] = queue[i + 1] /\ i + 1 \in 1 .. Len(queue) /\ 1 < i + 1
      BY <2>1
    <3>2. queue[i + 1] \in Calls /\ queue[1] < queue[i + 1]
      BY <2>1, <3>1, QueuePositions DEF QueueInv
    <3> QED
      BY <2>1, <3>1, <3>2 DEF Calls
  <2>3. UNCHANGED << issued, future >> /\ request' = [request EXCEPT ![queue[1]] = "out"]
    BY <1>6, <2>1 DEF Take
  <2>4. \A i \in 1 .. Len(queue') : /\ queue'[i] <= issued'
                                    /\ request'[queue'[i]] = "unsent"
                                    /\ future'[queue'[i]] \in {"pending", "abandoned"}
    <3> TAKE i \in 1 .. Len(queue')
    <3>1. queue[i + 1] <= issued /\ request[queue[i + 1]] = "unsent"
          /\ future[queue[i + 1]] \in {"pending", "abandoned"}
      BY <2>1 DEF QueueInv
    <3>2. request'[queue'[i]] = request[queue'[i]]
      BY <2>2, <2>3 DEF TypeOK
    <3> QED
      BY <2>1, <2>3, <3>1, <3>2
  <2>5. \A i, k \in 1 .. Len(queue') : i < k => queue'[i] < queue'[k]
    BY <2>1 DEF QueueInv
  <2>6. \A i \in 1 .. Len(queue'), d \in Calls : request'[d] # "unsent" => d < queue'[i]
    BY <2>1, <2>2, <2>3 DEF QueueInv, TypeOK
  <2> QED
    BY <2>4, <2>5, <2>6 DEF QueueInv
<1>7. ASSUME NEW w \in Workers, Complete(w) PROVE QueueInv'
  <2>1. PICK answer \in Answers :
            /\ Finish(w, answer)
            /\ \/ UNCHANGED request
               \/ request' = [request EXCEPT ![job[w]] = "failed"]
    BY <1>7, CompleteIsFinish
  <2>2. job[w] \in Calls /\ request[job[w]] # "unsent"
    BY <2>1 DEF Finish, HandInv, TypeOK
  <2>3. \A c \in Range(queue) : c \in Calls /\ c # job[w]
    BY <2>2, QueuePositions DEF QueueInv
  <2>4. \A c \in Range(queue) : future'[c] = future[c]
    BY <2>1, <2>2, <2>3 DEF Finish, Settle, TypeOK
  <2> QED
    BY <2>1, <2>2, <2>4, QueueUntouched DEF Finish, TypeOK
<1>8. ASSUME NEW w \in Workers, Unwind(w) PROVE QueueInv'
  BY <1>8, QueueUntouched DEF Unwind
<1>9. ASSUME NEW s \in Stops, StopPool(s) PROVE QueueInv'
  BY <1>9, QueueUntouched DEF StopPool
<1>10. ASSUME NEW s \in Stops, StopDrain(s) \/ StopIdle(s) PROVE QueueInv'
  <2>1. 1 .. Len(queue') = {}
    BY <1>10, StopDrains, EmptySeq DEF Drain
  <2> QED
    BY <2>1 DEF QueueInv
<1>11. CASE UNCHANGED vars
  BY <1>11, QueueUntouched DEF vars
<1> QED
  BY <1>1, <1>2, <1>3, <1>4, <1>5, <1>6, <1>7, <1>8, <1>9, <1>10, <1>11 DEF Next, Stop

\* Steps that leave every worker and its job alone keep HandInv when they
\* at most let the callers of posted calls give up.
LEMMA HandsUntouched ==
    ASSUME TypeOK, HandInv, UNCHANGED job,
           \A w \in Workers : task'[w] = "busy" <=> task[w] = "busy",
           \A c \in Calls : request[c] # "unsent" =>
               request'[c] # "unsent" /\ future'[c] \in {future[c], "abandoned"}
    PROVE  HandInv'
BY DEF HandInv, TypeOK

\* Every step keeps what is said of the jobs in hand.
LEMMA StepHandInv ==
    TypeOK /\ PoolInv /\ CallInv /\ QueueInv /\ HandInv /\ [Next]_vars => HandInv'
<1> SUFFICES ASSUME TypeOK, PoolInv, CallInv, QueueInv, HandInv, [Next]_vars
             PROVE  HandInv'
  OBVIOUS
<1> USE ClientAssumption DEF ClientAssumption
<1>1. CASE Start
  <2>1. EnsureStarted
    BY <1>1 DEF Start, EnsureStarted
  <2> QED
    BY <1>1, <2>1, EnsureStartedPools, HandsUntouched DEF Start
<1>2. CASE Submit \/ Refuse
  <2>1. /\ issued + 1 \in Calls /\ request[issued + 1] = "unsent"
        /\ UNCHANGED << request, job, cancelled >> /\ EnsureStarted
        /\ \/ future' = [future EXCEPT ![issued + 1] = "pending"]
           \/ future' = [future EXCEPT ![issued + 1] = "refused"]
    BY <1>2 DEF Submit, Refuse, CallInv, TypeOK, Calls
  <2>2. \A c \in Calls : c # issued + 1 => future'[c] = future[c]
    BY <2>1 DEF TypeOK
  <2> QED
    BY <2>1, <2>2, EnsureStartedPools, HandsUntouched
<1>3. ASSUME NEW c \in Calls, Abandon(c) PROVE HandInv'
  BY <1>3, HandsUntouched DEF Abandon, TypeOK
<1>4. ASSUME NEW c \in Calls, Handle(c) PROVE HandInv'
  BY <1>4, HandsUntouched DEF Handle, TypeOK
<1>5. ASSUME NEW w \in Workers, Take(w) PROVE HandInv'
  <2>1. 1 \in 1 .. Len(queue) /\ Head(queue) = queue[1] /\ queue[1] \in Calls
    BY <1>5, HeadOfQueue DEF Take, TypeOK
  <2>2. /\ request[queue[1]] = "unsent" /\ queue[1] # NoCall
        /\ future[queue[1]] \in {"pending", "abandoned"}
    BY <2>1 DEF QueueInv, Calls
  <2>3. /\ job' = [job EXCEPT ![w] = queue[1]]
        /\ task' = [task EXCEPT ![w] = "busy"]
        /\ request' = [request EXCEPT ![queue[1]] = "out"]
        /\ UNCHANGED future
    BY <1>5, <2>1 DEF Take
  <2>4. \A x \in Workers : job[x] # NoCall => job[x] \in Calls /\ job[x] # queue[1]
    BY <2>2 DEF HandInv, TypeOK
  <2>5. \A x \in Workers : job'[x] # NoCall <=> task'[x] = "busy"
    BY <2>2, <2>3 DEF HandInv, TypeOK
  <2>6. \A x \in Workers : job'[x] # NoCall
            => /\ request'[job'[x]] # "unsent"
               /\ future'[job'[x]] \in {"pending", "abandoned"}
    BY <2>1, <2>2, <2>3, <2>4 DEF HandInv, TypeOK
  <2>7. \A x, y \in Workers : job'[x] = job'[y] /\ job'[x] # NoCall => x = y
    BY <2>3, <2>4 DEF HandInv, TypeOK
  <2> QED
    BY <2>5, <2>6, <2>7 DEF HandInv
<1>6. ASSUME NEW w \in Workers, Complete(w) PROVE HandInv'
  <2>1. PICK answer \in Answers :
            /\ Finish(w, answer)
            /\ \/ UNCHANGED request
               \/ request' = [request EXCEPT ![job[w]] = "failed"]
    BY <1>6, CompleteIsFinish
  <2>2. /\ job' = [job EXCEPT ![w] = NoCall] /\ task' = [task EXCEPT ![w] = "idle"]
        /\ job[w] \in Calls /\ job[w] # NoCall
    BY <2>1 DEF Finish, HandInv, TypeOK
  <2>3. \A x \in Workers \ {w} : job[x] # NoCall => job[x] \in Calls /\ job[x] # job[w]
    BY <2>2 DEF HandInv, TypeOK
  <2>4. \A c \in Calls \ {job[w]} : future'[c] = future[c] /\ request'[c] = request[c]
    BY <2>1, <2>2 DEF Finish, Settle, TypeOK
  <2> QED
    BY <2>2, <2>3, <2>4 DEF HandInv, TypeOK
<1>7. ASSUME NEW w \in Workers, Unwind(w) PROVE HandInv'
  BY <1>7 DEF Unwind, HandInv, TypeOK
<1>8. ASSUME NEW s \in Stops, StopPool(s) PROVE HandInv'
  BY <1>8, HandsUntouched DEF StopPool
<1>9. ASSUME NEW s \in Stops, StopDrain(s) \/ StopIdle(s) PROVE HandInv'
  <2>1. \A c \in Range(queue) : request[c] = "unsent"
    BY QueuePositions DEF QueueInv
  <2>2. \A c \in Calls : request[c] # "unsent" => future'[c] = future[c]
    BY <1>9, <2>1, StopDrains DEF Drain
  <2> QED
    BY <1>9, <2>2, StopDrains, HandsUntouched
<1>10. CASE UNCHANGED vars
  BY <1>10, HandsUntouched DEF vars
<1> QED
  BY <1>1, <1>2, <1>3, <1>4, <1>5, <1>6, <1>7, <1>8, <1>9, <1>10 DEF Next, Stop

\* IInv holds in every reachable state.
THEOREM Invariance == Spec => []IInv
<1>1. Init => IInv
  BY InitIInv
<1>2. IInv /\ [Next]_vars => IInv'
  BY StepTypeOK, StepPoolInv, StepCallInv, StepQueueInv, StepHandInv DEF IInv
<1> QED
  BY <1>1, <1>2, PTL DEF Spec

(***************************************************************************)
(* The safety properties                                                   *)
(***************************************************************************)

\* The workers that are not cancelled are those of the current pool.
LEMMA IInvWorkersServe == IInv => WorkersServe
<1> SUFFICES ASSUME IInv, NEW w \in Workers PROVE Live(w) <=> w[1] = client
  BY DEF WorkersServe
<1> USE ClientAssumption DEF ClientAssumption, IInv, TypeOK, PoolInv
<1>1. w[1] \in 1 .. MaxStarts
  BY ConcurrencyPositive DEF Workers, Pools
<1>2. ASSUME Live(w) PROVE w[1] = client
  BY <1>1, <1>2 DEF Live, Running
<1>3. ASSUME w[1] = client PROVE Live(w)
  BY <1>1, <1>3 DEF Live, Running
<1> QED
  BY <1>2, <1>3

\* The workers that run are those of the current pool, so that _perform()
\* always finds the httpx client opened with its worker.
THEOREM ServedByCurrentPool == Spec => []WorkersServe
BY Invariance, IInvWorkersServe, PTL

\* As many jobs are worked on as there are workers in the pool.
LEMMA IInvBounded == IInv => BoundedConcurrency
<1> SUFFICES ASSUME IInv PROVE Cardinality(Serving) <= Concurrency
  BY DEF BoundedConcurrency
<1>1. \A w \in Serving : w = << client, w[2] >> /\ w[2] \in 1 .. Concurrency
  BY IInvWorkersServe DEF WorkersServe, Live, Workers, Serving
<1>2. [w \in Serving |-> w[2]] \in Injection(Serving, 1 .. Concurrency)
  BY <1>1 DEF Injection, IsInjective
<1>3. IsFiniteSet(1 .. Concurrency) /\ Cardinality(1 .. Concurrency) = Concurrency
  BY ConcurrencyPositive, FS_Interval
<1>4. Cardinality(Serving) <= Cardinality(1 .. Concurrency)
  BY <1>2, <1>3, FS_Injection
<1> QED
  BY <1>3, <1>4

\* At most max_concurrency requests are worked on at any moment, however
\* often the client is stopped and started again.
THEOREM ConcurrencyBounded == Spec => []BoundedConcurrency
BY Invariance, IInvBounded, PTL

\* What was posted is no longer in the queue, nor is anything before it.
LEMMA IInvPostedOnce == IInv => PostedOnce /\ DispatchInOrder
<1> SUFFICES ASSUME IInv PROVE PostedOnce /\ DispatchInOrder
  OBVIOUS
<1> USE DEF IInv
<1>1. \A i, k \in 1 .. Len(queue) : queue[i] = queue[k] => i = k
  <2> SUFFICES ASSUME NEW i \in 1 .. Len(queue), NEW k \in 1 .. Len(queue), i # k
               PROVE  queue[i] # queue[k]
    OBVIOUS
  <2>1. queue[i] \in Calls /\ queue[k] \in Calls
    BY QueuePositions
  <2> QED
    BY <2>1 DEF QueueInv, Calls
<1>2. \A c \in Calls : Queued(c) => request[c] = "unsent"
  BY QueuePositions DEF QueueInv, Queued
<1>3. \A c, d \in Calls : Queued(c) /\ request[d] # "unsent" => d < c
  BY QueuePositions DEF QueueInv, Queued
<1> QED
  BY <1>1, <1>2, <1>3, QueuePositions DEF PostedOnce, DispatchInOrder, HandInv

\* No command is posted twice: a job is queued once and taken once.
THEOREM NoDuplicatePost == Spec => []PostedOnce
BY Invariance, IInvPostedOnce, PTL

\* Requests leave for the daemon in the order of the submit() calls.
THEOREM FirstInFirstOut == Spec => []DispatchInOrder
BY Invariance, IInvPostedOnce, PTL

\* A call that was answered as not reached was not and will not be.
LEMMA IInvUntouched == IInv => UnavailableMeansUntouched
BY QueuePositions DEF IInv, CallInv, QueueInv, Queued, UnavailableMeansUntouched

\* A caller told that the dog is unavailable, or that the queue is full,
\* may repeat the command: the first one has had no effect.
THEOREM SafeToRepeat == Spec => []UnavailableMeansUntouched
BY Invariance, IInvUntouched, PTL

\* No step leaves a job in a queue that nobody will empty.
LEMMA StepNoStrandedJob == TypeOK /\ NoStrandedJob /\ [Next]_vars => NoStrandedJob'
<1> SUFFICES ASSUME TypeOK, NoStrandedJob, [Next]_vars PROVE NoStrandedJob'
  OBVIOUS
<1> USE DEF NoStrandedJob
<1>1. CASE Start \/ Submit \/ Refuse
  <2>1. EnsureStarted
    BY <1>1 DEF Start, Submit, Refuse, EnsureStarted
  <2> QED
    BY <2>1, EnsureStartedTypes, ClientAssumption DEF NoPool, TypeOK, ClientAssumption
<1>2. ASSUME NEW c \in Calls, Abandon(c) \/ Handle(c) PROVE NoStrandedJob'
  BY <1>2 DEF Abandon, Handle, poolVars, stopVars
<1>3. ASSUME NEW w \in Workers, Take(w) PROVE NoStrandedJob'
  BY <1>3 DEF Take, poolVars, stopVars
<1>4. ASSUME NEW w \in Workers, Complete(w) PROVE NoStrandedJob'
  BY <1>4, CompleteIsFinish DEF Finish, poolVars, stopVars
<1>5. ASSUME NEW w \in Workers, Unwind(w) PROVE NoStrandedJob'
  BY <1>5 DEF Unwind, poolVars, stopVars
<1>6. ASSUME NEW s \in Stops, StopPool(s) PROVE NoStrandedJob'
  BY <1>6 DEF StopPool, TypeOK
<1>7. ASSUME NEW s \in Stops, StopDrain(s) \/ StopIdle(s) PROVE NoStrandedJob'
  BY <1>7, StopDrains DEF Drain
<1>8. CASE UNCHANGED vars
  BY <1>8 DEF vars
<1> QED
  BY <1>1, <1>2, <1>3, <1>4, <1>5, <1>6, <1>7, <1>8 DEF Next, Stop

\* A queued job has workers to serve it or a stop() about to fail it.
THEOREM NobodyStranded == Spec => []NoStrandedJob
<1>1. Init => NoStrandedJob
  BY DEF Init, NoStrandedJob
<1> QED
  BY <1>1, InitTypeOK, StepTypeOK, StepNoStrandedJob, PTL DEF Spec

(***************************************************************************)
(* The action properties                                                   *)
(***************************************************************************)

\* No step settles a future that is settled.
LEMMA StepSettled ==
    IInv /\ [Next]_vars
        => \A c \in Calls : future[c] \in Settled => future'[c] = future[c]
<1> SUFFICES ASSUME IInv, [Next]_vars, NEW c \in Calls, future[c] \in Settled
             PROVE  future'[c] = future[c]
  OBVIOUS
<1> USE ClientAssumption DEF ClientAssumption, IInv, TypeOK, Settled, Answers
<1>1. CASE Start
  BY <1>1 DEF Start
<1>2. CASE Submit \/ Refuse
  <2>1. c # issued + 1
    BY <1>2 DEF Submit, Refuse, CallInv, Calls
  <2> QED
    BY <1>2, <2>1 DEF Submit, Refuse
<1>3. ASSUME NEW d \in Calls, Abandon(d) \/ Handle(d) PROVE future'[c] = future[c]
  BY <1>3 DEF Abandon, Handle
<1>4. ASSUME NEW w \in Workers, Take(w) \/ Unwind(w) PROVE future'[c] = future[c]
  BY <1>4 DEF Take, Unwind
<1>5. ASSUME NEW w \in Workers, Complete(w) PROVE future'[c] = future[c]
  BY <1>5, CompleteIsFinish DEF Finish, Settle
<1>6. ASSUME NEW s \in Stops, StopPool(s) PROVE future'[c] = future[c]
  BY <1>6 DEF StopPool
<1>7. ASSUME NEW s \in Stops, StopDrain(s) \/ StopIdle(s) PROVE future'[c] = future[c]
  BY <1>7, StopDrains DEF Drain
<1>8. CASE UNCHANGED vars
  BY <1>8 DEF vars
<1> QED
  BY <1>1, <1>2, <1>3, <1>4, <1>5, <1>6, <1>7, <1>8 DEF Next, Stop

\* A future is settled once, whatever late answer, drain or cancellation
\* comes after that.
THEOREM FuturesSettleOnce == Spec => SettledForGood
BY Invariance, StepSettled, PTL DEF Spec, SettledForGood

\* A worker that is not cancelled answers the job it lets go of.
LEMMA StepAnswers ==
    IInv /\ [Next]_vars
        => \A w \in Workers :
               Running(w) /\ job[w] # NoCall /\ job'[w] # job[w]
                   => future'[job[w]] \in Settled
<1> SUFFICES ASSUME IInv, [Next]_vars, NEW w \in Workers,
                    Running(w), job[w] # NoCall, job'[w] # job[w]
             PROVE  future'[job[w]] \in Settled
  OBVIOUS
<1> USE DEF IInv, TypeOK
<1>1. CASE Start \/ Submit \/ Refuse
  BY <1>1 DEF Start, Submit, Refuse
<1>2. ASSUME NEW c \in Calls, Abandon(c) \/ Handle(c) PROVE FALSE
  BY <1>2 DEF Abandon, Handle
<1>3. ASSUME NEW x \in Workers, Take(x) PROVE FALSE
  BY <1>3 DEF Take, HandInv
<1>4. ASSUME NEW x \in Workers, Complete(x) PROVE future'[job[w]] \in Settled
  <2>1. PICK answer \in Answers : Finish(x, answer)
    BY <1>4, CompleteIsFinish
  <2>2. x = w
    BY <2>1 DEF Finish
  <2> QED
    BY <2>1, <2>2 DEF Finish, Settle, HandInv, Settled
<1>5. ASSUME NEW x \in Workers, Unwind(x) PROVE FALSE
  BY <1>5 DEF Unwind
<1>6. ASSUME NEW s \in Stops, StopPool(s) PROVE FALSE
  BY <1>6 DEF StopPool
<1>7. ASSUME NEW s \in Stops, StopDrain(s) \/ StopIdle(s) PROVE FALSE
  BY <1>7, StopDrains
<1>8. CASE UNCHANGED vars
  BY <1>8 DEF vars
<1> QED
  BY <1>1, <1>2, <1>3, <1>4, <1>5, <1>6, <1>7, <1>8 DEF Next, Stop

\* A worker that stop() has not cancelled never drops a job unanswered.
THEOREM WorkersAlwaysAnswer == Spec => WorkersAnswer
BY Invariance, StepAnswers, PTL DEF Spec, WorkersAnswer

(***************************************************************************)
(* How far a call can overtake earlier ones                                *)
(***************************************************************************)

\* Once a call has its result, a worker of the current pool has nothing
\* earlier in hand: the one that worked on it, or one of a later pool.
FreeHand ==
    \A d \in Calls : future[d] = "result"
        => \/ client = NoPool
           \/ \E w \in Workers : w[1] = client /\ ~(task[w] = "busy" /\ job[w] < d)

\* Every step keeps a hand for the calls that are answered.
LEMMA StepFreeHand == IInv /\ FreeHand /\ [Next]_vars => FreeHand'
<1> SUFFICES ASSUME IInv, FreeHand, [Next]_vars, NEW d \in Calls,
                    future'[d] = "result", client' # NoPool
             PROVE  \E w \in Workers : w[1] = client' /\ ~(task'[w] = "busy" /\ job'[w] < d)
  BY DEF FreeHand
<1> USE ClientAssumption DEF ClientAssumption, IInv, TypeOK
<1> DEFINE Goal == \E w \in Workers : w[1] = client' /\ ~(task'[w] = "busy" /\ job'[w] < d)
\* Where d has its result already and no worker of the pool takes a job.
<1>0. ASSUME future[d] = "result", client' = client,
             \A w \in Workers : task'[w] = "busy" => task[w] = "busy" /\ job'[w] = job[w]
      PROVE  Goal
  BY <1>0 DEF FreeHand
<1>1. CASE Start \/ Submit \/ Refuse
  <2>1. future[d] = "result" /\ job' = job
    BY <1>1 DEF Start, Submit, Refuse
  <2>2. CASE OpenPool
    <3> DEFINE w == << started + 1, 1 >>
    <3>1. w \in Workers /\ w[1] = started + 1
      BY <2>2, ConcurrencyPositive DEF OpenPool, Workers, Pools
    <3>2. client' = started + 1 /\ task'[w] = "idle"
      BY <2>2, <3>1 DEF OpenPool
    <3> QED
      BY <3>1, <3>2
  <2>3. CASE UNCHANGED << client, started, task >>
    BY <1>0, <2>1, <2>3
  <2> QED
    BY <1>1, <2>2, <2>3 DEF Start, Submit, Refuse, EnsureStarted
<1>2. ASSUME NEW e \in Calls, Abandon(e) \/ Handle(e) PROVE Goal
  BY <1>0, <1>2 DEF Abandon, Handle, poolVars
<1>3. ASSUME NEW x \in Workers, Take(x) PROVE Goal
  <2>1. future[d] = "result" /\ client' = client
    BY <1>3 DEF Take, poolVars
  <2>2. d < Head(queue) /\ Head(queue) \in Calls
    BY <1>3, <2>1, HeadOfQueue DEF Take, CallInv, QueueInv
  <2>3. job' = [job EXCEPT ![x] = Head(queue)] /\ task' = [task EXCEPT ![x] = "busy"]
    BY <1>3 DEF Take
  <2>4. PICK w \in Workers : w[1] = client /\ ~(task[w] = "busy" /\ job[w] < d)
    BY <2>1 DEF FreeHand
  <2>5. CASE w = x
    BY <2>1, <2>2, <2>3, <2>4, <2>5 DEF Calls
  <2>6. CASE w # x
    BY <2>1, <2>3, <2>4, <2>6
  <2> QED
    BY <2>5, <2>6
<1>4. ASSUME NEW x \in Workers, Complete(x) PROVE Goal
  <2>1. PICK answer \in Answers : Finish(x, answer)
    BY <1>4, CompleteIsFinish
  <2>2. client' = client /\ task' = [task EXCEPT ![x] = "idle"]
        /\ job' = [job EXCEPT ![x] = NoCall]
    BY <2>1 DEF Finish, poolVars
  <2>3. CASE future[d] = "result"
    BY <1>0, <2>2, <2>3
  <2>4. CASE future[d] # "result"
    <3>1. x[1] = client
      BY <2>1, IInvWorkersServe DEF Finish, WorkersServe, Live
    <3> QED
      BY <2>2, <3>1
  <2> QED
    BY <2>3, <2>4
<1>5. ASSUME NEW x \in Workers, Unwind(x) PROVE Goal
  BY <1>0, <1>5 DEF Unwind, poolVars
<1>6. ASSUME NEW s \in Stops, StopPool(s) PROVE Goal
  BY <1>6 DEF StopPool
<1>7. ASSUME NEW s \in Stops, StopDrain(s) \/ StopIdle(s) PROVE Goal
  <2>1. UNCHANGED << client, task, job >>
    BY <1>7 DEF StopDrain, StopIdle, poolVars
  <2>2. future[d] = "result"
    BY <1>7, StopDrains DEF Drain
  <2> QED
    BY <1>0, <2>1, <2>2
<1>8. CASE UNCHANGED vars
  BY <1>0, <1>8 DEF vars
<1> QED
  BY <1>1, <1>2, <1>3, <1>4, <1>5, <1>6, <1>7, <1>8 DEF Next, Stop

\* With a hand for each of them, the calls overtaken are fewer than the workers.
LEMMA FreeHandBounds == IInv /\ FreeHand => BoundedOvertaking
<1> SUFFICES ASSUME IInv, FreeHand, NEW d \in Calls, future[d] = "result"
             PROVE  /\ \A c \in Calls : c < d => ~Queued(c)
                    /\ Cardinality({w \in Serving : job[w] < d}) < Concurrency
  BY DEF BoundedOvertaking
<1> DEFINE Earlier == {w \in Serving : job[w] < d}
<1>1. \A c \in Calls : c < d => ~Queued(c)
  <2>1. request[d] # "unsent"
    BY DEF IInv, CallInv
  <2> QED
    BY <2>1, IInvPostedOnce DEF DispatchInOrder, Calls
<1>2. \A w \in Earlier : w = << client, w[2] >> /\ w[2] \in 1 .. Concurrency
  BY IInvWorkersServe DEF WorkersServe, Live, Workers, Serving
<1>3. \E i \in 1 .. Concurrency : \A w \in Earlier : w[2] # i
  <2>1. CASE client = NoPool
    <3>1. Earlier = {}
      BY <1>2, <2>1, ClientAssumption DEF Serving, Workers, Pools, NoPool, ClientAssumption
    <3> QED
      BY <3>1, ConcurrencyPositive
  <2>2. ASSUME NEW v \in Workers, v[1] = client, ~(task[v] = "busy" /\ job[v] < d)
        PROVE  \E i \in 1 .. Concurrency : \A w \in Earlier : w[2] # i
    <3>1. v = << client, v[2] >> /\ v[2] \in 1 .. Concurrency
      BY <2>2 DEF Workers
    <3>2. v \notin Earlier
      BY <2>2 DEF Serving
    <3>3. \A w \in Earlier : w[2] # v[2]
      BY <1>2, <3>1, <3>2
    <3> QED
      BY <3>1, <3>3
  <2> QED
    BY <2>1, <2>2 DEF FreeHand
<1>4. PICK i \in 1 .. Concurrency : \A w \in Earlier : w[2] # i
  BY <1>3
<1> DEFINE Others == (1 .. Concurrency) \ {i}
<1>5. [w \in Earlier |-> w[2]] \in Injection(Earlier, Others)
  BY <1>2, <1>4 DEF Injection, IsInjective
<1>6. IsFiniteSet(Others) /\ Cardinality(Others) = Concurrency - 1
  <2>1. IsFiniteSet(1 .. Concurrency) /\ Cardinality(1 .. Concurrency) = Concurrency
    BY ConcurrencyPositive, FS_Interval
  <2> QED
    BY <2>1, FS_RemoveElement
<1>7. Cardinality(Earlier) <= Cardinality(Others) /\ Cardinality(Earlier) \in Nat
  BY <1>5, <1>6, FS_Injection, FS_CardinalityType
<1> QED
  BY <1>1, <1>6, <1>7, ConcurrencyPositive

\* When a call has its result, nothing earlier is queued and fewer than
\* max_concurrency workers are still busy with earlier calls.
THEOREM OvertakingBounded == Spec => []BoundedOvertaking
<1>1. Init => FreeHand
  BY DEF Init, FreeHand
<1>2. IInv /\ FreeHand /\ [Next]_vars => FreeHand'
  BY StepFreeHand
<1> QED
  BY <1>1, <1>2, Invariance, FreeHandBounds, PTL DEF Spec

(***************************************************************************)
(* Liveness, step by step                                                  *)
(*                                                                         *)
(* The prover has no rule for ENABLED.  What the theorems need of it is    *)
(* their hypothesis GuardsSuffice: an action whose guard holds can be      *)
(* taken.  That is so by the shape of the actions, each of which gives     *)
(* every variable a value once its guard holds.                            *)
(***************************************************************************)

\* The guards of the steps of a worker.
WorkerGoesOn(w) ==
    /\ Running(w) /\ task[w] = "idle" /\ queue # << >> => ENABLED << Take(w) >>_vars
    /\ Running(w) /\ task[w] = "busy" => ENABLED << Complete(w) >>_vars
    /\ ~Running(w) /\ task[w] \in {"idle", "busy"} => ENABLED << Unwind(w) >>_vars

\* The guard of the second half of stop().
StopGoesOn(s) == stopping[s] = "joining" /\ Joined(s) => ENABLED << StopDrain(s) >>_vars

GuardsSuffice ==
    /\ \A w \in Workers : WorkerGoesOn(w)
    /\ \A s \in Stops : StopGoesOn(s)

\* A cancelled worker has begun, and was cancelled for good.
LEMMA StepCancelled ==
    ASSUME IInv, [Next]_vars, NEW w \in Workers, ~Running(w)
    PROVE  /\ ~Running(w)'
           /\ task[w] \in {"idle", "busy", "ended"}
           /\ task[w] = "ended" => task'[w] = "ended"
<1> USE ClientAssumption DEF ClientAssumption, IInv, TypeOK
<1>1. w[1] \in cancelled /\ w[1] \in 1 .. started /\ started \in Nat
  <2>1. w[1] \in cancelled
    BY DEF Running
  <2>2. cancelled \subseteq 1 .. started /\ started \in 0 .. MaxStarts
    OBVIOUS
  <2>3. started \in Nat
    BY <2>2
  <2>4. w[1] \in 1 .. started
    BY <2>1, <2>2
  <2> QED
    BY <2>1, <2>3, <2>4
<1>2. task[w] \in {"idle", "busy", "ended"}
  BY <1>1 DEF PoolInv
<1>3. cancelled \subseteq cancelled'
  BY StopDrains DEF Next, Start, Submit, Refuse, Abandon, Handle, Take, Complete, Respond,
        ConnectError, Timeout, OtherError, Finish, Unwind, Stop, StopPool, CancelPool,
        StopDrain, StopIdle, poolVars, vars
<1>4. w[1] # started + 1
  BY <1>1
<1>5. task[w] = "ended" => task'[w] = "ended"
  <2> SUFFICES ASSUME task[w] = "ended" PROVE task'[w] = "ended"
    OBVIOUS
  <2>1. CASE Start \/ Submit \/ Refuse
    BY <1>4, <2>1 DEF Start, Submit, Refuse, EnsureStarted, OpenPool
  <2>2. ASSUME NEW x \in Workers, Take(x) \/ Unwind(x) PROVE task'[w] = "ended"
    BY <2>2 DEF Take, Unwind
  <2>3. ASSUME NEW x \in Workers, Complete(x) PROVE task'[w] = "ended"
    BY <2>3, CompleteIsFinish DEF Finish
  <2> QED
    BY <2>1, <2>2, <2>3, StopDrains DEF Next, Abandon, Handle, Stop, StopPool, vars
<1> QED
  BY <1>1, <1>2, <1>3, <1>5 DEF Running

\* A cancelled worker unwinds.
LEMMA WorkerEnds ==
    ASSUME NEW w \in Workers
    PROVE  Spec /\ FairWorker(w) /\ []WorkerGoesOn(w)
               => (~Running(w) ~> [](task[w] = "ended"))
<1>1. IInv /\ [Next]_vars /\ ~Running(w) => ~Running(w)'
  BY StepCancelled
<1>2. IInv /\ [Next]_vars /\ ~Running(w) /\ task[w] = "ended" => (task[w] = "ended")'
  BY StepCancelled
<1>3. IInv /\ << Unwind(w) >>_vars => (task[w] = "ended")'
  BY DEF IInv, TypeOK, Unwind
<1>4. IInv /\ [Next]_vars /\ ~Running(w) => task[w] \in {"idle", "busy"} \/ task[w] = "ended"
  BY StepCancelled
<1>5. WorkerGoesOn(w) /\ ~Running(w) /\ task[w] \in {"idle", "busy"}
          => ENABLED << Unwind(w) >>_vars
  BY DEF WorkerGoesOn
<1>6. FairWorker(w) => WF_vars(Unwind(w))
  BY PTL DEF FairWorker
<1> QED
  BY <1>1, <1>2, <1>3, <1>4, <1>5, <1>6, Invariance, PTL DEF Spec

\* A stop() stays where it is until it goes on, and so do the workers it awaits.
LEMMA StepJoined ==
    ASSUME IInv, [Next]_vars, NEW s \in Stops, stopping[s] = "joining", Joined(s)
    PROVE  \/ stopping'[s] = "joining" /\ Joined(s)'
           \/ stopping'[s] = "done"
<1> USE ClientAssumption DEF ClientAssumption, IInv, TypeOK
<1>1. ASSUME joining'[s] = joining[s] PROVE Joined(s)'
  <2> SUFFICES ASSUME NEW w \in Workers, w[1] = joining[s] PROVE task'[w] = "ended"
    BY <1>1 DEF Joined
  <2>1. task[w] = "ended"
    BY DEF Joined
  <2>2. ~Running(w)
    BY <2>1 DEF PoolInv, Running
  <2> QED
    BY <2>1, <2>2, StepCancelled
<1>2. ASSUME NEW x \in Stops, Stop(x)
      PROVE  \/ stopping'[s] = "joining" /\ joining'[s] = joining[s]
             \/ stopping'[s] = "done"
  BY <1>2 DEF Stop, StopPool, StopDrain, StopIdle
<1>3. (\E x \in Stops : Stop(x)) \/ (stopping' = stopping /\ joining' = joining)
  BY DEF Next, Start, Submit, Refuse, Abandon, Handle, Take, Complete, Respond,
         ConnectError, Timeout, OtherError, Finish, Unwind, stopVars, vars
<1> QED
  BY <1>1, <1>2, <1>3

\* A stop() whose workers have ended returns.
LEMMA JoinedReturns ==
    ASSUME NEW s \in Stops
    PROVE  Spec /\ FairStop(s) /\ []StopGoesOn(s)
               => (stopping[s] = "joining" /\ Joined(s) ~> stopping[s] = "done")
<1>1. IInv /\ [Next]_vars /\ stopping[s] = "joining" /\ Joined(s)
          => (stopping[s] = "joining" /\ Joined(s))' \/ (stopping[s] = "done")'
  BY StepJoined
<1>2. IInv /\ << StopDrain(s) >>_vars => (stopping[s] = "done")'
  BY DEF IInv, TypeOK, StopDrain
<1>3. StopGoesOn(s) /\ stopping[s] = "joining" /\ Joined(s) => ENABLED << StopDrain(s) >>_vars
  BY DEF StopGoesOn
<1>4. FairStop(s) => WF_vars(StopDrain(s))
  BY PTL DEF FairStop
<1> QED
  BY <1>1, <1>2, <1>3, <1>4, Invariance, PTL DEF Spec

\* A stop() cannot hang on one of its workers: each ends whatever request it
\* is in the middle of, none begins again, and then stop() drains the queue.
THEOREM StopsMove == FairSpec /\ []GuardsSuffice => StopsMoveOn
<1>1. ASSUME NEW w \in Workers
      PROVE  FairSpec /\ []GuardsSuffice => (~Running(w) ~> [](task[w] = "ended"))
  <2>1. Fairness => FairWorker(w)
    BY DEF Fairness
  <2>2. GuardsSuffice => WorkerGoesOn(w)
    BY DEF GuardsSuffice
  <2> QED
    BY <2>1, <2>2, WorkerEnds, PTL DEF FairSpec
<1>2. ASSUME NEW s \in Stops
      PROVE  FairSpec /\ []GuardsSuffice
                 => (stopping[s] = "joining" /\ Joined(s) ~> stopping[s] = "done")
  <2>1. Fairness => FairStop(s)
    BY DEF Fairness
  <2>2. GuardsSuffice => StopGoesOn(s)
    BY DEF GuardsSuffice
  <2> QED
    BY <2>1, <2>2, JoinedReturns, PTL DEF FairSpec
<1> QED
  BY <1>1, <1>2 DEF StopsMoveOn

\* A worker that is not cancelled keeps its job until that is answered.
LEMMA JobAnswered ==
    ASSUME NEW c \in Calls, NEW w \in Workers
    PROVE  Spec /\ FairWorker(w) /\ []WorkerGoesOn(w)
               => (job[w] = c ~> future[c] \in Settled \/ ~Running(w))
<1>1. c # NoCall
  BY ClientAssumption DEF ClientAssumption, Calls
<1>2. IInv /\ [Next]_vars /\ job[w] = c /\ Running(w)
          => (job[w] = c)' \/ (future[c] \in Settled)'
  BY <1>1, StepAnswers
<1>3. IInv /\ job[w] = c /\ << Complete(w) >>_vars => (future[c] \in Settled)'
  BY <1>1, CompleteIsFinish DEF IInv, TypeOK, HandInv, Finish, Settle, Settled
<1>4. IInv /\ WorkerGoesOn(w) /\ job[w] = c /\ Running(w) => ENABLED << Complete(w) >>_vars
  BY <1>1 DEF IInv, HandInv, WorkerGoesOn
<1>5. FairWorker(w) => WF_vars(Complete(w))
  BY PTL DEF FairWorker
<1> QED
  BY <1>2, <1>3, <1>4, <1>5, Invariance, PTL DEF Spec

\* Queued call c has moved up from the i-th place, or left the queue, or the
\* pool p that was to serve it is not the current one any more.
Moved(c, i, p) == Place(c, i - 1) \/ ~Queued(c) \/ client # p

\* Taking the first call off the queue moves the others up.
LEMMA TakeMovesUp ==
    ASSUME IInv, NEW w \in Workers, Take(w), NEW c \in Calls, NEW i \in Calls, Place(c, i)
    PROVE  Place(c, i - 1)' \/ ~Queued(c)'
<1> USE DEF IInv
<1>1. /\ Len(queue) \in Nat /\ Len(queue') = Len(queue) - 1
      /\ \A n \in 1 .. Len(queue') : queue'[n] = queue[n + 1] /\ n + 1 \in 1 .. Len(queue)
  BY HeadOfQueue DEF Take, TypeOK
<1>2. i \in 1 .. Len(queue) /\ queue[i] = c /\ DOMAIN queue = 1 .. Len(queue)
  BY QueuePositions DEF Place
<1>3. TypeOK'
  BY StepTypeOK DEF Next
<1>4. DOMAIN queue' = 1 .. Len(queue')
  BY <1>3 DEF TypeOK
<1>5. CASE i = 1
  <2>1. ASSUME NEW n \in 1 .. Len(queue') PROVE queue'[n] # c
    <3>1. queue'[n] = queue[n + 1] /\ n + 1 \in 1 .. Len(queue) /\ 1 < n + 1
      BY <1>1
    <3>2. queue[1] \in Calls /\ queue[n + 1] \in Calls /\ queue[1] < queue[n + 1]
      BY <1>2, <1>5, <3>1, QueuePositions DEF QueueInv
    <3> QED
      BY <1>2, <1>5, <3>1, <3>2 DEF Calls
  <2>2. c \notin Range(queue')
    BY <1>4, <2>1 DEF Range
  <2> QED
    BY <2>2 DEF Queued
<1>6. CASE i # 1
  <2>1. i - 1 \in 1 .. Len(queue') /\ (i - 1) + 1 = i
    BY <1>1, <1>2, <1>6
  <2> QED
    BY <1>1, <1>2, <1>4, <2>1 DEF Place
<1> QED
  BY <1>5, <1>6

\* A queued call stays at its place or moves up; nothing gets ahead of it.
LEMMA StepPlace ==
    ASSUME IInv, [Next]_vars, NEW c \in Calls, NEW i \in Calls, NEW p \in Pools,
           client = p, Place(c, i)
    PROVE  (client = p /\ Place(c, i))' \/ Moved(c, i, p)'
<1> USE DEF IInv
<1>1. i \in 1 .. Len(queue) /\ queue[i] = c /\ Len(queue) \in Nat
  BY QueuePositions DEF Place
<1>2. CASE queue' = queue
  BY <1>2 DEF Place, Moved
<1>3. ASSUME NEW w \in Workers, Take(w) PROVE Moved(c, i, p)'
  BY <1>3, TakeMovesUp DEF Moved
<1>4. CASE Submit
  <2>1. issued + 1 \in Calls /\ queue' = Append(queue, issued + 1)
    BY <1>4, ClientAssumption DEF ClientAssumption, Submit, Enqueue, Calls, TypeOK
  <2>2. /\ DOMAIN queue' = 1 .. Len(queue) + 1
        /\ \A n \in 1 .. Len(queue) : queue'[n] = queue[n]
    BY <2>1, AppendProperties DEF TypeOK
  <2>3. i \in 1 .. Len(queue) + 1
    BY <1>1
  <2> QED
    BY <1>1, <2>2, <2>3 DEF Place, Moved
<1>5. ASSUME NEW s \in Stops, StopDrain(s) \/ StopIdle(s) PROVE Moved(c, i, p)'
  <2>1. queue' = << >>
    BY <1>5, StopDrains DEF Drain
  <2>2. c \notin Range(queue')
    BY <2>1 DEF Range
  <2> QED
    BY <2>2 DEF Moved, Queued
<1> QED
  BY <1>2, <1>3, <1>4, <1>5 DEF Next, Start, Refuse, Abandon, Handle, Complete, Respond,
     ConnectError, Timeout, OtherError, Finish, Unwind, Stop, StopPool, vars

\* An idle worker of the current pool stays idle until it takes a job.
LEMMA StepIdle ==
    ASSUME IInv, [Next]_vars, NEW w \in Workers, w[1] = client, task[w] = "idle"
    PROVE  task'[w] = "idle" \/ Take(w)
<1> USE DEF IInv, TypeOK
<1>1. Running(w)
  BY IInvWorkersServe DEF WorkersServe, Live
<1>2. CASE Start \/ Submit \/ Refuse
  BY <1>2 DEF Start, Submit, Refuse, EnsureStarted, OpenPool
<1>3. ASSUME NEW x \in Workers, Take(x) \/ Unwind(x) PROVE task'[w] = "idle" \/ Take(w)
  BY <1>1, <1>3 DEF Take, Unwind
<1>4. ASSUME NEW x \in Workers, Complete(x) PROVE task'[w] = "idle"
  BY <1>4, CompleteIsFinish DEF Finish
<1> QED
  BY <1>2, <1>3, <1>4, StopDrains DEF Next, Abandon, Handle, Stop, StopPool, vars

\* As long as the pool p is open, each of its workers moves the queue on.
LEMMA CallMovesUp ==
    ASSUME NEW c \in Calls, NEW i \in Calls, NEW p \in Pools, NEW w \in Workers, w[1] = p
    PROVE  Spec /\ FairWorker(w) /\ []WorkerGoesOn(w)
               => (client = p /\ Place(c, i) ~> Moved(c, i, p))
<1>1. IInv /\ [Next]_vars /\ client = p /\ Place(c, i)
          => (client = p /\ Place(c, i))' \/ Moved(c, i, p)'
  BY StepPlace
<1>2. IInv /\ [Next]_vars /\ client = p /\ Place(c, i) /\ task[w] = "idle"
          => (task[w] = "idle")' \/ Moved(c, i, p)'
  BY StepIdle, TakeMovesUp DEF Moved
<1>3. IInv /\ client = p /\ Place(c, i) /\ << Take(w) >>_vars => Moved(c, i, p)'
  BY TakeMovesUp DEF Moved
<1>4. IInv /\ << Complete(w) >>_vars => (task[w] = "idle")'
  BY CompleteIsFinish DEF IInv, TypeOK, Finish
<1>5. IInv /\ client = p => Running(w) /\ (task[w] = "idle" \/ task[w] = "busy")
  BY IInvWorkersServe DEF WorkersServe, Live
<1>6. Place(c, i) => queue # << >>
  BY DEF Place
<1>7. /\ WorkerGoesOn(w) /\ Running(w) /\ Place(c, i) /\ task[w] = "idle"
             => ENABLED << Take(w) >>_vars
      /\ WorkerGoesOn(w) /\ Running(w) /\ task[w] = "busy" => ENABLED << Complete(w) >>_vars
  BY <1>6 DEF WorkerGoesOn
<1>8. FairWorker(w) => WF_vars(Take(w)) /\ WF_vars(Complete(w))
  BY PTL DEF FairWorker
<1> QED
  BY <1>1, <1>2, <1>3, <1>4, <1>5, <1>7, <1>8, Invariance, PTL DEF Spec

\* While its pool is open a call goes through the queue to a worker and to
\* its answer, however slow the daemon is and whoever calls meanwhile.
THEOREM CallsMove == FairSpec /\ []GuardsSuffice => CallsMoveOn
<1>1. ASSUME NEW c \in Calls, NEW w \in Workers
      PROVE  FairSpec /\ []GuardsSuffice
                 => (job[w] = c ~> future[c] \in Settled \/ ~Running(w))
  <2>1. Fairness => FairWorker(w)
    BY DEF Fairness
  <2>2. GuardsSuffice => WorkerGoesOn(w)
    BY DEF GuardsSuffice
  <2> QED
    BY <2>1, <2>2, JobAnswered, PTL DEF FairSpec
<1>2. ASSUME NEW c \in Calls, NEW p \in Pools, NEW i \in Calls
      PROVE  FairSpec /\ []GuardsSuffice => (client = p /\ Place(c, i) ~> Moved(c, i, p))
  <2>1. \E w \in Workers : w[1] = p
    <3>1. 1 \in 1 .. Concurrency
      BY ConcurrencyPositive
    <3>2. << p, 1 >> \in Workers /\ << p, 1 >>[1] = p
      BY <3>1 DEF Workers
    <3> QED
      BY <3>2
  <2> SUFFICES ASSUME NEW w \in Workers, w[1] = p
               PROVE  FairSpec /\ []GuardsSuffice
                          => (client = p /\ Place(c, i) ~> Moved(c, i, p))
    BY <2>1
  <2>2. Fairness => FairWorker(w)
    BY DEF Fairness
  <2>3. GuardsSuffice => WorkerGoesOn(w)
    BY DEF GuardsSuffice
  <2> QED
    BY <2>2, <2>3, CallMovesUp, PTL DEF FairSpec
<1> QED
  BY <1>1, <1>2 DEF CallsMoveOn, Moved

=============================================================================
