--------------------------- MODULE GatewayProofs ---------------------------
(***************************************************************************)
(* Proofs about Gateway, for any samplers, commands, endpoints, workers    *)
(* and any size of the queue.                                              *)
(***************************************************************************)
EXTENDS Gateway, FiniteSetTheorems, SequenceTheorems, TLAPS

\* What Take(w) leaves of the queue.
LEMMA Remaining ==
    ASSUME NEW S, NEW q \in Seq(S), q # << >>,
           NEW rest, rest = SubSeq(q, 1, NextUp - 1) \o SubSeq(q, NextUp + 1, Len(q))
    PROVE  /\ rest \in Seq(S)
           /\ Len(rest) = Len(q) - 1
           /\ \A i \in 1 .. Len(rest) : rest[i] = q[i + 1]
<1>1. SubSeq(q, 1, NextUp - 1) = << >>
  BY SubSeqEmpty DEF NextUp
<1>2. SubSeq(q, NextUp + 1, Len(q)) = Tail(q)
  BY TailIsSubSeq DEF NextUp
<1>3. Tail(q) \in Seq(S) /\ << >> \o Tail(q) = Tail(q)
  BY HeadTailProperties, ConcatEmptySeq
<1>4. SubSeq(q, 1, NextUp - 1) \o SubSeq(q, NextUp + 1, Len(q)) = Tail(q)
  BY <1>1, <1>2, <1>3
<1>5. /\ Len(Tail(q)) = Len(q) - 1
      /\ \A i \in 1 .. Len(Tail(q)) : Tail(q)[i] = q[i + 1]
  BY HeadTailProperties
<1> QED
  BY <1>3, <1>4, <1>5, Zenon

\* What the queue is when one job has been put into it.
LEMMA OneMore ==
    ASSUME NEW q \in Seq(Jobs), NEW j \in Jobs
    PROVE  /\ Append(q, j) \in Seq(Jobs)
           /\ Len(Append(q, j)) = Len(q) + 1
           /\ \A i \in 1 .. Len(q) : Append(q, j)[i] = q[i]
           /\ Append(q, j)[Len(q) + 1] = j
BY AppendProperties

\* The same of two jobs.
LEMMA TwoMore ==
    ASSUME NEW q \in Seq(Jobs), NEW j \in Jobs, NEW k \in Jobs
    PROVE  LET r == q \o << j, k >>
           IN  /\ r \in Seq(Jobs)
               /\ Len(r) = Len(q) + 2
               /\ \A i \in 1 .. Len(q) : r[i] = q[i]
               /\ r[Len(q) + 1] = j /\ r[Len(q) + 2] = k
<1> DEFINE t == << j, k >>
<1>1. t \in Seq(Jobs) /\ Len(t) = 2 /\ t[1] = j /\ t[2] = k
  OBVIOUS
<1>2. Len(q) \in Nat
  BY LenProperties
<1> HIDE DEF t
<1>3. /\ q \o t \in Seq(Jobs)
      /\ Len(q \o t) = Len(q) + Len(t)
      /\ \A i \in 1 .. Len(q) + Len(t) :
             (q \o t)[i] = IF i <= Len(q) THEN q[i] ELSE t[i - Len(q)]
  BY <1>1, ConcatProperties, Zenon
<1>4. \A i \in 1 .. Len(q) : (q \o t)[i] = q[i]
  BY <1>1, <1>2, <1>3
<1>5. (q \o t)[Len(q) + 1] = t[1] /\ (q \o t)[Len(q) + 2] = t[2]
  BY <1>1, <1>2, <1>3
<1> QED
  BY <1>1, <1>3, <1>4, <1>5 DEF t

\* The jobs of a sample and a command are jobs.
LEMMA JobTypes ==
    ASSUME TypeOK, endpoint # 0
    PROVE  /\ \A s \in Samplers, k \in Kinds : PollJob(s, k) \in Jobs
           /\ \A c \in Commands :
                  [by |-> c, kind |-> "command", to |-> endpoint] \in Jobs
BY GatewayAssumption DEF GatewayAssumption, TypeOK, PollJob, Jobs, Polls, Orders, Dogs

\* The types hold initially.
LEMMA InitTypeOK == Init => TypeOK
<1> SUFFICES ASSUME Init PROVE TypeOK
  OBVIOUS
<1>1. endpoint \in 0 .. MaxDogs
  BY GatewayAssumption DEF GatewayAssumption, Init
<1>2. queue \in Seq(Jobs) /\ (Capacity > 0 => Len(queue) <= Capacity)
  BY GatewayAssumption DEF GatewayAssumption, Init
<1>3. serves \in [Dogs -> SUBSET Kinds]
  BY DEF Init
<1> QED
  BY <1>1, <1>2, <1>3 DEF Init, TypeOK, Idle

\* Every step keeps the types.
LEMMA StepTypeOK == TypeOK /\ [Next]_vars => TypeOK'
<1> SUFFICES ASSUME TypeOK, [Next]_vars PROVE TypeOK'
  OBVIOUS
<1> USE GatewayAssumption DEF GatewayAssumption
<1>1. ASSUME NEW s \in Samplers, Sample(s) PROVE TypeOK'
  <2>1. CASE endpoint = 0
    BY <1>1, <2>1 DEF Sample, TypeOK
  <2>2. CASE endpoint # 0
    <3>1. PollJob(s, "battery") \in Jobs /\ PollJob(s, "state") \in Jobs
      BY <2>2, JobTypes DEF Kinds
    <3>2. AskDog(s)
      BY <1>1, <2>2 DEF Sample
    <3>3. queue' \in Seq(Jobs) /\ (Capacity > 0 => Len(queue') <= Capacity)
      <4>1. queue \in Seq(Jobs) /\ Len(queue) \in Nat
            /\ (Capacity > 0 => Len(queue) <= Capacity)
        BY DEF TypeOK
      <4>2. CASE queue' = queue
        BY <4>1, <4>2
      <4>3. CASE Room(1) /\ queue' = Append(queue, PollJob(s, "battery"))
        BY <3>1, <4>1, <4>3, OneMore DEF Room
      <4>4. CASE /\ Room(2)
                 /\ queue' = queue \o << PollJob(s, "battery"), PollJob(s, "state") >>
        BY <3>1, <4>1, <4>4, TwoMore DEF Room
      <4> QED
        BY <3>2, <4>2, <4>3, <4>4 DEF AskDog
    <3>4. poll' \in [Samplers -> [Kinds -> {"none", "out", "full", "empty"}]]
      BY <3>2 DEF AskDog, TypeOK, Kinds
    <3> QED
      BY <1>1, <2>2, <3>3, <3>4 DEF Sample, TypeOK
  <2> QED
    BY <2>1, <2>2
<1>2. ASSUME NEW s \in Samplers, SampleDone(s) PROVE TypeOK'
  BY <1>2 DEF SampleDone, Responds, Idle, TypeOK
<1>3. ASSUME NEW c \in Commands, Command(c) PROVE TypeOK'
  <2>1. endpoint # 0 => [by |-> c, kind |-> "command", to |-> endpoint] \in Jobs
    BY JobTypes
  <2>2. queue' \in Seq(Jobs) /\ (Capacity > 0 => Len(queue') <= Capacity)
    <3>1. queue \in Seq(Jobs) /\ Len(queue) \in Nat /\ (Capacity > 0 => Len(queue) <= Capacity)
      BY DEF TypeOK
    <3>2. CASE queue' = queue
      BY <3>1, <3>2
    <3>3. CASE /\ endpoint # 0 /\ Room(1)
               /\ queue' = Append(queue, [by |-> c, kind |-> "command", to |-> endpoint])
      BY <2>1, <3>1, <3>3, OneMore DEF Room
    <3> QED
      BY <1>3, <3>2, <3>3 DEF Command
  <2> QED
    BY <1>3, <2>2 DEF Command, TypeOK
<1>4. CASE UpdateConfig
  BY <1>4 DEF UpdateConfig, TypeOK
<1>5. ASSUME NEW w \in Workers, Take(w) PROVE TypeOK'
  <2>1. /\ queue' \in Seq(Jobs)
        /\ Len(queue') = Len(queue) - 1
    BY <1>5, Remaining DEF Take, TypeOK
  <2>2. queue[NextUp] \in Jobs
    BY <1>5 DEF Take, TypeOK, NextUp
  <2> QED
    BY <1>5, <2>1, <2>2 DEF Take, TypeOK
<1>6. ASSUME NEW w \in Workers, FinishPoll(w) PROVE TypeOK'
  <2>1. hand[w].by \in Samplers /\ hand[w].kind \in Kinds
    BY <1>6 DEF FinishPoll, Polls
  <2> QED
    BY <1>6, <2>1 DEF FinishPoll, TypeOK
<1>7. ASSUME NEW w \in Workers, FinishCommand(w) PROVE TypeOK'
  <2>1. hand[w].by \in Commands
    BY <1>7 DEF FinishCommand, Orders
  <2> QED
    BY <1>7, <2>1 DEF FinishCommand, TypeOK
<1>8. ASSUME NEW d \in Dogs, DaemonChanges(d) PROVE TypeOK'
  BY <1>8 DEF DaemonChanges, TypeOK
<1>9. CASE UNCHANGED vars
  BY <1>9 DEF vars, TypeOK
<1> QED
  BY <1>1, <1>2, <1>3, <1>4, <1>5, <1>6, <1>7, <1>8, <1>9 DEF Next

\* Jobs have known callers and endpoints, the queue never overflows.
THEOREM TypeCorrect == Spec => []TypeOK
BY InitTypeOK, StepTypeOK, PTL DEF Spec

(***************************************************************************)
(* The order of the PiDogs                                                 *)
(***************************************************************************)

\* The queue is sorted by endpoint and ends at the current one.
Sorted ==
    /\ \A i \in 1 .. Len(queue) : queue[i].to <= endpoint
    /\ \A i, j \in 1 .. Len(queue) : i < j => queue[i].to <= queue[j].to
    /\ \A w \in Workers : hand[w] # NoJob => hand[w].to <= endpoint
    /\ \A w \in Workers, i \in 1 .. Len(queue) :
           hand[w] # NoJob => queue[i].to >= hand[w].to

\* A job has an endpoint that is a number.
LEMMA Endpoints ==
    ASSUME TypeOK
    PROVE  /\ \A i \in 1 .. Len(queue) : queue[i] \in Jobs /\ queue[i].to \in Nat
           /\ \A w \in Workers : hand[w] # NoJob => hand[w] \in Jobs /\ hand[w].to \in Nat
           /\ endpoint \in Nat
BY DEF TypeOK, Jobs, Polls, Orders, Dogs

\* Every step keeps the order.
LEMMA StepSorted == TypeOK /\ Sorted /\ [Next]_vars => Sorted'
<1> SUFFICES ASSUME TypeOK, Sorted, [Next]_vars PROVE Sorted'
  OBVIOUS
<1> USE GatewayAssumption, Endpoints DEF GatewayAssumption
<1>1. ASSUME NEW s \in Samplers, Sample(s) PROVE Sorted'
  <2>1. CASE queue' = queue
    BY <1>1, <2>1 DEF Sample, Sorted
  <2>2. CASE queue' = Append(queue, PollJob(s, "battery"))
    BY <1>1, <2>2 DEF Sample, Sorted, PollJob, TypeOK
  <2>3. CASE queue' = queue \o << PollJob(s, "battery"), PollJob(s, "state") >>
    <3>1. /\ queue \in Seq(Jobs) /\ Len(queue) \in Nat
          /\ UNCHANGED << endpoint, hand >> /\ endpoint # 0
      BY <1>1, <2>3 DEF Sample, TypeOK
    <3>2. PollJob(s, "battery") \in Jobs /\ PollJob(s, "state") \in Jobs
      BY <3>1, JobTypes DEF Kinds
    <3>3. /\ Len(queue') = Len(queue) + 2
          /\ \A i \in 1 .. Len(queue) : queue'[i] = queue[i]
          /\ queue'[Len(queue) + 1].to = endpoint
          /\ queue'[Len(queue) + 2].to = endpoint
      BY <2>3, <3>1, <3>2, TwoMore DEF PollJob
    <3>4. \A i \in 1 .. Len(queue') :
             \/ i \in 1 .. Len(queue) /\ queue'[i] = queue[i]
             \/ i > Len(queue) /\ queue'[i].to = endpoint
      BY <3>1, <3>3
    <3>5. /\ \A i \in 1 .. Len(queue) : queue[i].to \in Nat
          /\ \A w \in Workers : hand[w] # NoJob => hand[w].to \in Nat
          /\ endpoint \in Nat
      OBVIOUS
    <3>6. \A i \in 1 .. Len(queue') : queue'[i].to <= endpoint'
      BY <3>1, <3>4, <3>5 DEF Sorted
    <3>7. \A i, j \in 1 .. Len(queue') : i < j => queue'[i].to <= queue'[j].to
      <4> SUFFICES ASSUME NEW i \in 1 .. Len(queue'), NEW j \in 1 .. Len(queue'), i < j
                   PROVE  queue'[i].to <= queue'[j].to
        OBVIOUS
      <4>1. CASE j \in 1 .. Len(queue) /\ queue'[j] = queue[j]
        BY <3>1, <3>3, <4>1 DEF Sorted
      <4>2. CASE queue'[j].to = endpoint
        BY <3>1, <3>6, <4>2
      <4> QED
        BY <3>4, <4>1, <4>2
    <3>8. \A w \in Workers, i \in 1 .. Len(queue') :
              hand'[w] # NoJob => queue'[i].to >= hand'[w].to
      BY <3>1, <3>4, <3>5 DEF Sorted
    <3> QED
      BY <3>1, <3>6, <3>7, <3>8 DEF Sorted
  <2> QED
    BY <1>1, <2>1, <2>2, <2>3 DEF Sample, AskDog
<1>2. ASSUME NEW s \in Samplers, SampleDone(s) PROVE Sorted'
  BY <1>2 DEF SampleDone, Sorted
<1>3. ASSUME NEW c \in Commands, Command(c) PROVE Sorted'
  <2>1. CASE queue' = queue
    BY <1>3, <2>1 DEF Command, Sorted
  <2>2. CASE queue' = Append(queue, [by |-> c, kind |-> "command", to |-> endpoint])
    BY <1>3, <2>2 DEF Command, Sorted, TypeOK
  <2> QED
    BY <1>3, <2>1, <2>2 DEF Command
<1>4. CASE UpdateConfig
  BY <1>4 DEF UpdateConfig, Sorted
<1>5. ASSUME NEW w \in Workers, Take(w) PROVE Sorted'
  <2>1. /\ Len(queue') = Len(queue) - 1
        /\ \A i \in 1 .. Len(queue') : queue'[i] = queue[i + 1]
        /\ Len(queue) \in Nat /\ Len(queue) > 0
    <3>1. queue \in Seq(Jobs) /\ queue # << >>
      BY <1>5 DEF Take, TypeOK
    <3>2. queue' = SubSeq(queue, 1, NextUp - 1) \o SubSeq(queue, NextUp + 1, Len(queue))
      BY <1>5 DEF Take
    <3> HIDE Endpoints
    <3>3. Len(queue) \in Nat \ {0}
      BY <3>1, EmptySeq
    <3>4. /\ Len(queue') = Len(queue) - 1
          /\ \A i \in 1 .. Len(queue') : queue'[i] = queue[i + 1]
      BY <3>1, <3>2, Remaining, Zenon
    <3> QED
      BY <3>3, <3>4
  <2>2. /\ hand' = [hand EXCEPT ![w] = queue[1]]
        /\ endpoint' = endpoint
        /\ hand \in [Workers -> Jobs \cup {NoJob}]
    BY <1>5 DEF Take, NextUp, TypeOK
  <2>3. \A i \in 1 .. Len(queue') : i + 1 \in 1 .. Len(queue)
    BY <2>1
  <2>4. \A v \in Workers : hand'[v] = hand[v] \/ (v = w /\ hand'[v] = queue[1])
    BY <2>2
  <2>5. /\ \A i \in 1 .. Len(queue') : queue'[i].to <= endpoint'
        /\ \A i, j \in 1 .. Len(queue') : i < j => queue'[i].to <= queue'[j].to
    <3>1. \A i \in 1 .. Len(queue') : queue'[i] = queue[i + 1] /\ i \in Nat
      BY <2>1
    <3>2. \A i \in 1 .. Len(queue) : queue[i].to <= endpoint
      BY DEF Sorted
    <3>3. \A i, j \in 1 .. Len(queue) : i < j => queue[i].to <= queue[j].to
      BY DEF Sorted
    <3>4. \A i \in 1 .. Len(queue') : queue'[i].to <= endpoint'
      BY <2>2, <2>3, <3>1, <3>2
    <3>5. \A i, j \in 1 .. Len(queue') : i < j => queue'[i].to <= queue'[j].to
      <4> SUFFICES ASSUME NEW i \in 1 .. Len(queue'), NEW j \in 1 .. Len(queue'), i < j
                   PROVE  queue'[i].to <= queue'[j].to
        OBVIOUS
      <4>1. i + 1 < j + 1
        BY <3>1
      <4> QED
        BY <4>1, <2>3, <3>1, <3>3
    <3> QED
      BY <3>4, <3>5
  <2>6. \A v \in Workers : hand'[v] # NoJob => hand'[v].to <= endpoint'
    BY <2>1, <2>2, <2>4 DEF Sorted
  <2>7. \A v \in Workers, i \in 1 .. Len(queue') :
            hand'[v] # NoJob => queue'[i].to >= hand'[v].to
    <3> SUFFICES ASSUME NEW v \in Workers, NEW i \in 1 .. Len(queue'), hand'[v] # NoJob
                 PROVE  queue'[i].to >= hand'[v].to
      OBVIOUS
    <3>1. queue'[i] = queue[i + 1] /\ i + 1 \in 1 .. Len(queue) /\ 1 \in 1 .. Len(queue)
      BY <2>1, <2>3
    <3>2. queue[1].to <= queue[i + 1].to
      BY <2>1, <3>1 DEF Sorted
    <3> QED
      BY <2>4, <3>1, <3>2 DEF Sorted
  <2> QED
    BY <2>5, <2>6, <2>7 DEF Sorted
<1>6. ASSUME NEW w \in Workers, FinishPoll(w) \/ FinishCommand(w) PROVE Sorted'
  <2>1. /\ hand' = [hand EXCEPT ![w] = NoJob]
        /\ UNCHANGED << endpoint, queue >>
        /\ hand \in [Workers -> Jobs \cup {NoJob}]
    BY <1>6 DEF FinishPoll, FinishCommand, TypeOK
  <2> QED
    BY <2>1 DEF Sorted
<1>7. ASSUME NEW d \in Dogs, DaemonChanges(d) PROVE Sorted'
  BY <1>7 DEF DaemonChanges, Sorted
<1>8. CASE UNCHANGED vars
  BY <1>8 DEF vars, Sorted
<1> QED
  BY <1>1, <1>2, <1>3, <1>4, <1>5, <1>6, <1>7, <1>8 DEF Next

\* After an update of the configuration what was queued for the old PiDog
\* is sent before anything goes to the new one, and nothing after that.
THEOREM OldDogFirst == Spec => []OldFirst
<1>1. Init => TypeOK /\ Sorted
  BY InitTypeOK DEF Init, Sorted
<1>2. TypeOK /\ Sorted /\ [Next]_vars => (TypeOK /\ Sorted)'
  BY StepTypeOK, StepSorted
<1>3. TypeOK /\ Sorted => OldFirst
  BY DEF TypeOK, Sorted, OldFirst
<1> QED
  BY <1>1, <1>2, <1>3, PTL DEF Spec

(***************************************************************************)
(* The jobs of a caller                                                    *)
(***************************************************************************)

Name(j) == << j.by, j.kind >>

\* Its caller waits for job j.
Pending(j) ==
    /\ j.by \in Samplers => poll[j.by][j.kind] = "out"
    /\ j.by \in Commands => command[j.by] = "out"

\* No job is twice in the queue or in the hands of the workers, and each is
\* awaited by its caller.
OneEach ==
    /\ \A i, j \in 1 .. Len(queue) : Name(queue[i]) = Name(queue[j]) => i = j
    /\ \A w \in Workers, i \in 1 .. Len(queue) :
           hand[w] # NoJob => Name(hand[w]) # Name(queue[i])
    /\ \A v, w \in Workers :
           hand[v] # NoJob /\ hand[w] # NoJob /\ Name(hand[v]) = Name(hand[w]) => v = w
    /\ \A i \in 1 .. Len(queue) : Pending(queue[i])
    /\ \A w \in Workers : hand[w] # NoJob => Pending(hand[w])

\* Who asks for a job and for what.
LEMMA Callers ==
    ASSUME NEW j \in Jobs
    PROVE  \/ j \in Polls /\ j.by \in Samplers /\ j.by \notin Commands /\ j.kind \in Kinds
           \/ j \in Orders /\ j.by \in Commands /\ j.by \notin Samplers /\ j.kind = "command"
BY GatewayAssumption DEF GatewayAssumption, Jobs, Polls, Orders

\* A step that puts jobs nobody waited for at the end of the queue, or none.
LEMMA Enqueue ==
    ASSUME TypeOK, OneEach, hand' = hand,
           Len(queue') \in Nat, Len(queue') >= Len(queue),
           \A i \in 1 .. Len(queue) : queue'[i] = queue[i],
           \A i \in Len(queue) + 1 .. Len(queue') :
               queue'[i] \in Jobs /\ ~Pending(queue'[i]) /\ Pending(queue[i])',
           \A i, j \in Len(queue) + 1 .. Len(queue') :
               Name(queue'[i]) = Name(queue'[j]) => i = j,
           \A j \in Jobs : Pending(j) => Pending(j)'
    PROVE  OneEach'
<1> DEFINE Old == 1 .. Len(queue)
           New == Len(queue) + 1 .. Len(queue')
           All == 1 .. Len(queue')
<1>1. /\ Len(queue) \in Nat
      /\ \A i \in Old : queue[i] \in Jobs
      /\ \A w \in Workers : hand[w] # NoJob => hand[w] \in Jobs
  BY Endpoints DEF TypeOK
<1>2. \A i \in All : i \in Old \/ i \in New
  BY <1>1
<1>3. \A j, n \in Jobs : Pending(j) /\ ~Pending(n) => Name(j) # Name(n)
  BY DEF Pending, Name
<1>4. \A i \in Old, j \in New : Name(queue[i]) # Name(queue'[j])
  BY <1>1, <1>3 DEF OneEach
<1>5. \A w \in Workers, j \in New : hand[w] # NoJob => Name(hand[w]) # Name(queue'[j])
  BY <1>1, <1>3 DEF OneEach
<1>6. \A i \in Old : queue'[i] = queue[i] /\ Pending(queue[i]) /\ Pending(queue[i])'
  <2> SUFFICES ASSUME NEW i \in Old PROVE Pending(queue[i]) /\ Pending(queue[i])'
    OBVIOUS
  <2>1. queue[i] \in Jobs /\ Pending(queue[i])
    BY <1>1 DEF OneEach
  <2>2. PICK j \in Jobs : j = queue[i]
    BY <2>1
  <2>3. Pending(j)'
    BY <2>1, <2>2
  <2> QED
    BY <2>1, <2>2, <2>3 DEF Pending
<1>7. \A w \in Workers : hand[w] # NoJob => Pending(hand[w])'
  <2> SUFFICES ASSUME NEW w \in Workers, hand[w] # NoJob PROVE Pending(hand[w])'
    OBVIOUS
  <2>1. hand[w] \in Jobs /\ Pending(hand[w])
    BY <1>1 DEF OneEach
  <2>2. PICK j \in Jobs : j = hand[w]
    BY <2>1
  <2>3. Pending(j)'
    BY <2>1, <2>2
  <2> QED
    BY <2>2, <2>3 DEF Pending
<1> HIDE DEF Old, New, All
<1>8. \A i, j \in All : Name(queue'[i]) = Name(queue'[j]) => i = j
  <2> SUFFICES ASSUME NEW i \in All, NEW j \in All, Name(queue'[i]) = Name(queue'[j])
               PROVE  i = j
    OBVIOUS
  <2>1. CASE i \in Old /\ j \in Old
    BY <2>1, <1>6 DEF OneEach, Old, Name
  <2>2. CASE i \in New /\ j \in New
    BY <2>2 DEF New
  <2>3. CASE i \in Old /\ j \in New
    BY <2>3, <1>4, <1>6
  <2>4. CASE i \in New /\ j \in Old
    BY <2>4, <1>4, <1>6
  <2> QED
    BY <1>2, <2>1, <2>2, <2>3, <2>4
<1>9. \A w \in Workers, i \in All :
          hand[w] # NoJob => Name(hand[w]) # Name(queue'[i])
  <2>1. \A w \in Workers, i \in Old :
            hand[w] # NoJob => Name(hand[w]) # Name(queue'[i])
    BY <1>6 DEF OneEach, Old
  <2> QED
    BY <2>1, <1>2, <1>5
<1>10. \A i \in All : Pending(queue[i])'
  BY <1>2, <1>6 DEF New
<1> QED
  BY <1>7, <1>8, <1>9, <1>10 DEF OneEach, Name, All

\* The start of a sample puts at most its two polls into the queue.
LEMMA SampleOneEach ==
    ASSUME TypeOK, OneEach, NEW s \in Samplers, Sample(s)
    PROVE  OneEach'
<1>1. queue \in Seq(Jobs) /\ Len(queue) \in Nat
  BY DEF TypeOK
<1>2. /\ hand' = hand /\ command' = command
      /\ \A k \in Kinds : poll[s][k] = "none"
      /\ poll \in [Samplers -> [Kinds -> {"none", "out", "full", "empty"}]]
  BY DEF Sample, Rests, Idle, TypeOK
<1>3. \A x \in Samplers : x # s => poll'[x] = poll[x]
  BY <1>2 DEF Sample, AskDog
<1>4. \A j \in Jobs : Pending(j) => Pending(j)'
  BY <1>2, <1>3, Callers DEF Pending
<1>5. CASE queue' = queue
  BY <1>1, <1>2, <1>4, <1>5, Enqueue
<1>6. ASSUME endpoint # 0, NEW k \in Kinds
      PROVE  /\ PollJob(s, k) \in Jobs /\ ~Pending(PollJob(s, k))
             /\ PollJob(s, k).by = s /\ PollJob(s, k).kind = k /\ s \notin Commands
  BY <1>2, <1>6, JobTypes, GatewayAssumption DEF GatewayAssumption, Pending, PollJob
<1>7. CASE /\ endpoint # 0
           /\ queue' = Append(queue, PollJob(s, "battery"))
           /\ poll' = [poll EXCEPT ![s] = [battery |-> "out", state |-> "empty"]]
  <2> DEFINE b == PollJob(s, "battery")
  <2>1. b \in Jobs /\ ~Pending(b) /\ b.by = s /\ b.kind = "battery" /\ s \notin Commands
    BY <1>6, <1>7 DEF Kinds
  <2>2. poll'[s]["battery"] = "out"
    BY <1>2, <1>7
  <2> HIDE DEF b
  <2>3. queue' = Append(queue, b)
    BY <1>7 DEF b
  <2>4. /\ Len(queue') = Len(queue) + 1
        /\ \A i \in 1 .. Len(queue) : queue'[i] = queue[i]
        /\ queue'[Len(queue) + 1] = b
    BY <1>1, <2>1, <2>3, OneMore
  <2>5. \A i \in Len(queue) + 1 .. Len(queue') : i = Len(queue) + 1 /\ queue'[i] = b
    BY <1>1, <2>4
  <2>6. \A i \in Len(queue) + 1 .. Len(queue') :
            queue'[i] \in Jobs /\ ~Pending(queue'[i]) /\ Pending(queue[i])'
    BY <2>1, <2>2, <2>5 DEF Pending
  <2>7. Len(queue') \in Nat /\ Len(queue') >= Len(queue)
    BY <1>1, <2>4
  <2> QED
    BY <1>2, <1>4, <2>4, <2>5, <2>6, <2>7, Enqueue
<1>8. CASE /\ endpoint # 0
           /\ queue' = queue \o << PollJob(s, "battery"), PollJob(s, "state") >>
           /\ poll' = [poll EXCEPT ![s] = [k \in Kinds |-> "out"]]
  <2> DEFINE b == PollJob(s, "battery")
             t == PollJob(s, "state")
  <2>1. /\ b \in Jobs /\ ~Pending(b) /\ b.by = s /\ b.kind = "battery" /\ s \notin Commands
        /\ t \in Jobs /\ ~Pending(t) /\ t.by = s /\ t.kind = "state"
    BY <1>6, <1>8 DEF Kinds
  <2>2. poll'[s]["battery"] = "out" /\ poll'[s]["state"] = "out"
    BY <1>2, <1>8 DEF Kinds
  <2> HIDE DEF b, t
  <2>3. queue' = queue \o << b, t >>
    BY <1>8 DEF b, t
  <2>4. /\ Len(queue') = Len(queue) + 2
        /\ \A i \in 1 .. Len(queue) : queue'[i] = queue[i]
        /\ queue'[Len(queue) + 1] = b /\ queue'[Len(queue) + 2] = t
    BY <1>1, <2>1, <2>3, TwoMore
  <2>5. \A i \in Len(queue) + 1 .. Len(queue') :
            \/ i = Len(queue) + 1 /\ queue'[i] = b
            \/ i = Len(queue) + 2 /\ queue'[i] = t
    BY <1>1, <2>4
  <2>6. \A i \in Len(queue) + 1 .. Len(queue') :
            queue'[i] \in Jobs /\ ~Pending(queue'[i]) /\ Pending(queue[i])'
    BY <2>1, <2>2, <2>5 DEF Pending
  <2>7. Len(queue') \in Nat /\ Len(queue') >= Len(queue)
    BY <1>1, <2>4
  <2>8. Name(b) # Name(t)
    BY <2>1 DEF Name
  <2>9. \A i, j \in Len(queue) + 1 .. Len(queue') :
            Name(queue'[i]) = Name(queue'[j]) => i = j
    BY <2>5, <2>8
  <2> QED
    BY <1>2, <1>4, <2>4, <2>6, <2>7, <2>9, Enqueue
<1> QED
  BY <1>5, <1>7, <1>8 DEF Sample, AskDog

\* A worker takes the first job of the queue.
LEMMA TakeOneEach ==
    ASSUME TypeOK, OneEach, NEW w \in Workers, Take(w)
    PROVE  OneEach'
<1>1. queue \in Seq(Jobs) /\ queue # << >> /\ Len(queue) \in Nat \ {0}
  BY EmptySeq DEF Take, TypeOK
<1>2. queue' = SubSeq(queue, 1, NextUp - 1) \o SubSeq(queue, NextUp + 1, Len(queue))
  BY DEF Take
<1>3. /\ Len(queue') = Len(queue) - 1
      /\ \A i \in 1 .. Len(queue') : queue'[i] = queue[i + 1]
  BY <1>1, <1>2, Remaining, Zenon
<1>4. /\ hand' = [hand EXCEPT ![w] = queue[1]] /\ hand[w] = NoJob
      /\ hand \in [Workers -> Jobs \cup {NoJob}]
      /\ poll' = poll /\ command' = command
  BY DEF Take, NextUp, TypeOK
<1>5. \A i \in 1 .. Len(queue') : /\ queue'[i] = queue[i + 1]
                                 /\ i + 1 \in 1 .. Len(queue) /\ i + 1 # 1 /\ i \in Nat
  BY <1>1, <1>3
<1>6. \A v \in Workers :
          (v # w /\ hand'[v] = hand[v]) \/ (v = w /\ hand'[v] = queue[1])
  BY <1>4
<1>7. 1 \in 1 .. Len(queue)
  BY <1>1
<1>8. \A i, j \in 1 .. Len(queue') : Name(queue'[i]) = Name(queue'[j]) => i = j
  <2> SUFFICES ASSUME NEW i \in 1 .. Len(queue'), NEW j \in 1 .. Len(queue'),
                      Name(queue'[i]) = Name(queue'[j])
               PROVE  i = j
    OBVIOUS
  <2>1. i + 1 = j + 1
    BY <1>5 DEF OneEach
  <2> QED
    BY <2>1, <1>5
<1>9. \A v \in Workers, i \in 1 .. Len(queue') :
          hand'[v] # NoJob => Name(hand'[v]) # Name(queue'[i])
  BY <1>5, <1>6, <1>7 DEF OneEach
<1>10. \A u, v \in Workers :
           hand'[u] # NoJob /\ hand'[v] # NoJob /\ Name(hand'[u]) = Name(hand'[v]) => u = v
  BY <1>6, <1>7 DEF OneEach
<1>11. \A i \in 1 .. Len(queue') : Pending(queue[i])'
  BY <1>4, <1>5 DEF OneEach, Pending
<1>12. \A v \in Workers : hand'[v] # NoJob => Pending(hand[v])'
  BY <1>4, <1>6, <1>7 DEF OneEach, Pending
<1> QED
  BY <1>8, <1>9, <1>10, <1>11, <1>12 DEF OneEach, Name

\* A worker settles the future of the job in its hand, and of no other.
LEMMA FinishOneEach ==
    ASSUME TypeOK, OneEach, NEW w \in Workers, FinishPoll(w) \/ FinishCommand(w)
    PROVE  OneEach'
<1>1. /\ hand' = [hand EXCEPT ![w] = NoJob] /\ queue' = queue
      /\ hand \in [Workers -> Jobs \cup {NoJob}]
      /\ hand[w] \in Jobs /\ hand[w] # NoJob
  BY NoJobAssumption DEF FinishPoll, FinishCommand, TypeOK, Jobs
<1>2. /\ \A i \in 1 .. Len(queue) : queue[i] \in Jobs
      /\ \A v \in Workers : hand[v] # NoJob => hand[v] \in Jobs
  BY Endpoints
<1>3. \A j \in Jobs : Pending(j) /\ Name(j) # Name(hand[w]) => Pending(j)'
  <2> SUFFICES ASSUME NEW j \in Jobs, Pending(j), Name(j) # Name(hand[w]) PROVE Pending(j)'
    OBVIOUS
  <2>1. j.by # hand[w].by \/ j.kind # hand[w].kind
    BY DEF Name
  <2>2. CASE FinishPoll(w)
    <3>1. hand[w].by \in Samplers /\ hand[w].kind \in Kinds
      BY <2>2 DEF FinishPoll, Polls
    <3>2. command' = command
      BY <2>2 DEF FinishPoll
    <3>3. ASSUME j.by \in Samplers PROVE poll'[j.by][j.kind] = poll[j.by][j.kind]
      <4>1. j.kind \in Kinds
        BY <3>3, Callers
      <4> QED
        BY <2>1, <2>2, <3>1, <3>3, <4>1 DEF FinishPoll, TypeOK
    <3> QED
      BY <3>2, <3>3 DEF Pending
  <2>3. CASE FinishCommand(w)
    <3>1. hand[w].by \in Commands /\ hand[w].kind = "command"
      BY <2>3 DEF FinishCommand, Orders
    <3>2. poll' = poll
      BY <2>3 DEF FinishCommand
    <3>3. ASSUME j.by \in Commands PROVE command'[j.by] = command[j.by]
      <4>1. j.kind = "command"
        BY <3>3, Callers
      <4> QED
        BY <2>1, <2>3, <3>1, <3>3, <4>1 DEF FinishCommand, TypeOK
    <3> QED
      BY <3>2, <3>3 DEF Pending
  <2> QED
    BY <2>2, <2>3
<1>4. \A v \in Workers : hand'[v] # NoJob => v # w /\ hand'[v] = hand[v]
  BY <1>1
<1>5. \A i \in 1 .. Len(queue') : Pending(queue[i])'
  <2> SUFFICES ASSUME NEW i \in 1 .. Len(queue') PROVE Pending(queue[i])'
    OBVIOUS
  <2>1. /\ queue[i] \in Jobs /\ Pending(queue[i]) /\ Name(queue[i]) # Name(hand[w])
        /\ queue'[i] = queue[i]
    BY <1>1, <1>2 DEF OneEach
  <2>2. PICK j \in Jobs : j = queue[i]
    BY <2>1
  <2>3. Pending(j)'
    BY <1>3, <2>1, <2>2
  <2> QED
    BY <2>1, <2>2, <2>3 DEF Pending
<1>6. \A v \in Workers : hand'[v] # NoJob => Pending(hand[v])'
  <2> SUFFICES ASSUME NEW v \in Workers, hand'[v] # NoJob PROVE Pending(hand[v])'
    OBVIOUS
  <2>1. hand'[v] = hand[v] /\ v # w /\ hand[v] \in Jobs
    BY <1>2, <1>4
  <2>2. Pending(hand[v]) /\ Name(hand[v]) # Name(hand[w])
    BY <1>1, <2>1 DEF OneEach
  <2>3. PICK j \in Jobs : j = hand[v]
    BY <2>1
  <2>4. Pending(j)'
    BY <1>3, <2>2, <2>3
  <2> QED
    BY <2>1, <2>3, <2>4 DEF Pending
<1> QED
  BY <1>1, <1>4, <1>5, <1>6 DEF OneEach, Name

\* Every step keeps the jobs apart.
LEMMA StepOneEach == TypeOK /\ OneEach /\ [Next]_vars => OneEach'
<1> SUFFICES ASSUME TypeOK, OneEach, [Next]_vars PROVE OneEach'
  OBVIOUS
<1>1. queue \in Seq(Jobs) /\ Len(queue) \in Nat
  BY DEF TypeOK
<1>2. ASSUME NEW s \in Samplers, SampleDone(s) PROVE OneEach'
  <2>1. queue' = queue /\ hand' = hand /\ command' = command
    BY <1>2 DEF SampleDone
  <2>2. /\ \A x \in Samplers : x # s => poll'[x] = poll[x]
        /\ \A k \in Kinds : poll[s][k] # "out"
    BY <1>2 DEF SampleDone, TypeOK
  <2>3. \A j \in Jobs : Pending(j) => Pending(j)'
    BY <2>1, <2>2, Callers DEF Pending
  <2> QED
    BY <1>1, <2>1, <2>3, Enqueue
<1>3. ASSUME NEW c \in Commands, Command(c) PROVE OneEach'
  <2> DEFINE n == [by |-> c, kind |-> "command", to |-> endpoint]
  <2>1. hand' = hand /\ poll' = poll /\ command[c] = "none"
    BY <1>3 DEF Command
  <2>2. \A d \in Commands : d # c => command'[d] = command[d]
    BY <1>3 DEF Command, TypeOK
  <2>3. \A j \in Jobs : Pending(j) => Pending(j)'
    BY <2>1, <2>2, Callers DEF Pending
  <2>4. CASE queue' = queue
    BY <1>1, <2>1, <2>3, <2>4, Enqueue
  <2>5. CASE endpoint # 0 /\ command' = [command EXCEPT ![c] = "out"] /\ queue' = Append(queue, n)
    <3>1. n \in Jobs /\ n.by = c /\ c \notin Samplers
      BY <2>5, JobTypes, GatewayAssumption DEF GatewayAssumption
    <3>2. command'[c] = "out"
      BY <2>5 DEF TypeOK
    <3> HIDE DEF n
    <3>3. /\ Len(queue') = Len(queue) + 1
          /\ \A i \in 1 .. Len(queue) : queue'[i] = queue[i]
          /\ queue'[Len(queue) + 1] = n
      BY <1>1, <2>5, <3>1, OneMore
    <3>4. \A i \in Len(queue) + 1 .. Len(queue') : i = Len(queue) + 1 /\ queue'[i] = n
      BY <1>1, <3>3
    <3>5. \A i \in Len(queue) + 1 .. Len(queue') :
              queue'[i] \in Jobs /\ ~Pending(queue'[i]) /\ Pending(queue[i])'
      BY <2>1, <3>1, <3>2, <3>4 DEF Pending
    <3>6. Len(queue') \in Nat /\ Len(queue') >= Len(queue)
      BY <1>1, <3>3
    <3> QED
      BY <2>1, <2>3, <3>3, <3>4, <3>5, <3>6, Enqueue
  <2> QED
    BY <1>3, <2>4, <2>5 DEF Command
<1>4. CASE UNCHANGED << queue, hand, poll, command >>
  BY <1>1, <1>4, Enqueue DEF Pending
<1>5. (UpdateConfig \/ (\E d \in Dogs : DaemonChanges(d)) \/ UNCHANGED vars)
        => UNCHANGED << queue, hand, poll, command >>
  BY DEF UpdateConfig, DaemonChanges, vars
<1> QED
  BY <1>2, <1>3, <1>4, <1>5, SampleOneEach, TakeOneEach, FinishOneEach DEF Next

\* No caller has two jobs of one kind.
LEMMA OneEachInvariance == Spec => [](TypeOK /\ OneEach)
<1>1. Init => TypeOK /\ OneEach
  BY InitTypeOK DEF Init, OneEach
<1>2. TypeOK /\ OneEach /\ [Next]_vars => (TypeOK /\ OneEach)'
  BY StepTypeOK, StepOneEach
<1> QED
  BY <1>1, <1>2, PTL DEF Spec

\* A sample takes two polls.
LEMMA TwoKinds == IsFiniteSet(Kinds) /\ Cardinality(Kinds) = 2
<1>1. Kinds = {"battery"} \cup {"state"} /\ "state" \notin {"battery"}
  BY DEF Kinds
<1>2. IsFiniteSet({"battery"}) /\ Cardinality({"battery"}) = 1
  BY FS_Singleton
<1> QED
  BY <1>1, <1>2, FS_AddElement

\* The queue has two jobs of each sampler that has jobs there, and one of
\* each command that waits in it, at most.
LEMMA QueueIsShort ==
    ASSUME TypeOK, OneEach, NEW P \in SUBSET Samplers,
           \A i \in 1 .. Len(queue) : queue[i].by \in Samplers => queue[i].by \in P
    PROVE  Len(queue) <= Cardinality({d \in Commands : Waiting(d)}) + 2 * Cardinality(P)
<1> DEFINE W     == {d \in Commands : Waiting(d)}
           Polled  == P \X Kinds
           Ordered == W \X {"command"}
           f     == [i \in 1 .. Len(queue) |-> Name(queue[i])]
<1>1. queue \in Seq(Jobs) /\ Len(queue) \in Nat /\ DOMAIN queue = 1 .. Len(queue)
  BY DEF TypeOK
<1>2. ASSUME NEW i \in 1 .. Len(queue) PROVE Name(queue[i]) \in Polled \cup Ordered
  <2>1. queue[i] \in Jobs
    BY <1>1
  <2>2. CASE queue[i].by \in Samplers /\ queue[i].kind \in Kinds
    BY <2>2 DEF Name
  <2>3. CASE queue[i].by \in Commands /\ queue[i].kind = "command"
    <3>1. Waiting(queue[i].by)
      BY <1>1 DEF Waiting
    <3> QED
      BY <2>3, <3>1 DEF Name
  <2> QED
    BY <2>1, <2>2, <2>3, Callers
<1>3. f \in Injection(1 .. Len(queue), Polled \cup Ordered)
  <2>1. f \in [1 .. Len(queue) -> Polled \cup Ordered]
    BY <1>2
  <2>2. \A i, j \in 1 .. Len(queue) : f[i] = f[j] => i = j
    BY DEF OneEach
  <2> QED
    BY <2>1, <2>2 DEF Injection, IsInjective
<1>4. IsFiniteSet(Kinds) /\ Cardinality(Kinds) = 2
  BY TwoKinds
<1>5. IsFiniteSet(W) /\ IsFiniteSet(P)
  BY FS_Subset, GatewayAssumption DEF GatewayAssumption
<1>6. /\ IsFiniteSet(Polled)
      /\ Cardinality(Polled) = Cardinality(P) * 2
  BY <1>4, <1>5, FS_Product
<1>7. IsFiniteSet(Ordered) /\ Cardinality(Ordered) = Cardinality(W) * 1
  <2>1. IsFiniteSet({"command"}) /\ Cardinality({"command"}) = 1
    BY FS_Singleton
  <2> HIDE DEF W
  <2> QED
    BY <1>5, <2>1, FS_Product
<1> HIDE DEF W, Polled, Ordered, f
<1>8. /\ IsFiniteSet(Polled \cup Ordered)
      /\ Cardinality(Polled \cup Ordered)
            = Cardinality(Polled) + Cardinality(Ordered) - Cardinality(Polled \cap Ordered)
  BY <1>6, <1>7, FS_Union
<1>9. Cardinality(1 .. Len(queue)) <= Cardinality(Polled \cup Ordered)
  BY <1>3, <1>8, FS_Injection
<1>10. Cardinality(1 .. Len(queue)) = Len(queue)
  BY <1>1, FS_Interval
<1>11. IsFiniteSet(Polled \cap Ordered)
  BY <1>6, FS_Subset
<1>12. /\ Cardinality(Polled \cap Ordered) \in Nat
       /\ Cardinality(W) \in Nat /\ Cardinality(P) \in Nat
  BY <1>5, <1>11, FS_CardinalityType
<1>13. Len(queue) <= Cardinality(W) + 2 * Cardinality(P)
  BY <1>1, <1>6, <1>7, <1>8, <1>9, <1>10, <1>12
<1> QED
  BY <1>13 DEF W

\* What Crowd bounds: the queue, and what it becomes with two polls more of
\* a sampler that takes its next sample.
LEMMA QueueInCrowd ==
    ASSUME TypeOK, OneEach
    PROVE  /\ Crowd \in Nat
           /\ Len(queue) <= Crowd
           /\ \A s \in Samplers : poll[s] = Idle => Len(queue) + 2 <= Crowd
<1> DEFINE W == {d \in Commands : Waiting(d)}
<1>1. queue \in Seq(Jobs) /\ Len(queue) \in Nat
  BY DEF TypeOK
<1>2. IsFiniteSet(W) /\ IsFiniteSet(Samplers)
  BY FS_Subset, GatewayAssumption DEF GatewayAssumption
<1>3. Cardinality(W) \in Nat /\ Cardinality(Samplers) \in Nat
  BY <1>2, FS_CardinalityType
<1>4. Crowd = Cardinality(W) + 2 * Cardinality(Samplers)
  BY DEF Crowd
<1> HIDE DEF W
<1>5. Len(queue) <= Cardinality(W) + 2 * Cardinality(Samplers)
  BY QueueIsShort DEF W
<1>6. ASSUME NEW s \in Samplers, poll[s] = Idle PROVE Len(queue) + 2 <= Crowd
  <2> DEFINE P == Samplers \ {s}
  <2>1. \A i \in 1 .. Len(queue) : queue[i].by # s
    <3> SUFFICES ASSUME NEW i \in 1 .. Len(queue), queue[i].by = s PROVE FALSE
      OBVIOUS
    <3>1. queue[i] \in Jobs /\ Pending(queue[i])
      BY <1>1 DEF OneEach
    <3>2. queue[i].kind \in Kinds
      BY <3>1, Callers
    <3> QED
      BY <1>6, <3>1, <3>2 DEF Pending, Idle
  <2>2. Cardinality(P) = Cardinality(Samplers) - 1
    BY <1>2, FS_RemoveElement
  <2>3. Len(queue) <= Cardinality(W) + 2 * Cardinality(P)
    BY <2>1, QueueIsShort DEF W
  <2> HIDE DEF P
  <2> QED
    BY <1>1, <1>3, <1>4, <2>2, <2>3
<1> QED
  BY <1>3, <1>4, <1>5, <1>6

\* A command that is refused finds the queue full.
LEMMA RefusedCommand ==
    ASSUME TypeOK, [Next]_vars, NEW c \in Commands,
           command'[c] = "refused", command[c] # "refused"
    PROVE  ~Room(1)
<1>1. \A d \in Commands : Command(d) /\ d # c => command'[c] = command[c]
  <2> SUFFICES ASSUME NEW d \in Commands, Command(d), d # c
               PROVE  command'[c] = command[c]
    OBVIOUS
  <2>1. PICK now : command' = [command EXCEPT ![d] = now]
    BY DEF Command
  <2> QED
    BY <2>1 DEF TypeOK
<1>2. \A w \in Workers : FinishCommand(w) => command'[c] \in {command[c], "answered"}
  BY DEF FinishCommand, TypeOK
<1>3. Command(c)
  BY <1>1, <1>2 DEF Next, Sample, SampleDone, UpdateConfig, Take, FinishPoll,
                    DaemonChanges, vars
<1> QED
  BY <1>3 DEF Command, TypeOK

\* A poll that is refused finds no room for both polls of its sample.
LEMMA RefusedPoll ==
    ASSUME TypeOK, OneEach, [Next]_vars, NEW s \in Samplers, NEW k \in Kinds,
           poll'[s][k] = "empty", poll[s][k] = "none"
    PROVE  poll[s] = Idle /\ ~Room(2)
<1>1. ASSUME NEW x \in Samplers, Sample(x) PROVE poll[s] = Idle /\ ~Room(2)
  <2>1. AskDog(x)
    BY <1>1 DEF Sample
  <2>2. x = s
    BY <2>1 DEF AskDog, TypeOK
  <2>3. ~Room(2)
    <3> SUFFICES ASSUME Room(2) PROVE FALSE
      OBVIOUS
    <3>1. Room(1)
      BY GatewayAssumption DEF GatewayAssumption, Room, TypeOK
    <3>2. poll' = [poll EXCEPT ![s] = [m \in Kinds |-> "out"]]
      BY <2>1, <2>2, <3>1 DEF AskDog
    <3> QED
      BY <3>2 DEF TypeOK
  <2> QED
    BY <1>1, <2>2, <2>3 DEF Sample, Rests
<1>2. ASSUME NEW x \in Samplers, SampleDone(x) PROVE FALSE
  BY <1>2 DEF SampleDone, Idle, TypeOK
<1>3. ASSUME NEW w \in Workers, FinishPoll(w) PROVE FALSE
  <2>1. /\ hand[w] \in Jobs /\ hand[w] # NoJob /\ hand[w] \in Polls
        /\ hand[w].by \in Samplers /\ hand[w].kind \in Kinds
    BY <1>3, NoJobAssumption DEF FinishPoll, Polls, Jobs
  <2>2. poll[hand[w].by][hand[w].kind] = "out"
    BY <2>1 DEF OneEach, Pending
  <2> QED
    BY <1>3, <2>1, <2>2 DEF FinishPoll, TypeOK
<1> QED
  BY <1>1, <1>2, <1>3 DEF Next, Command, UpdateConfig, Take, FinishCommand,
                          DaemonChanges, vars

\* A command is refused only by a queue that is no longer than the commands
\* in it and two polls of each loop, and a poll by one that is shorter.
THEOREM TelemetryLeavesRoom == Spec => RefusedByCommands
<1> DEFINE Crowded ==
        /\ \A c \in Commands :
               command'[c] = "refused" /\ command[c] # "refused" => Crowd >= Capacity
        /\ \A s \in Samplers, k \in Kinds :
               poll'[s][k] = "empty" /\ poll[s][k] = "none" => Crowd > Capacity
<1>1. ASSUME TypeOK, OneEach, [Next]_vars PROVE [Crowded]_<< command, poll >>
  <2>1. Crowd \in Nat /\ Len(queue) \in Nat /\ Capacity \in Nat
    BY <1>1, QueueInCrowd, GatewayAssumption DEF GatewayAssumption, TypeOK
  <2>2. ASSUME NEW c \in Commands, command'[c] = "refused", command[c] # "refused"
        PROVE  Crowd >= Capacity
    <3>1. ~Room(1)
      BY <1>1, <2>2, RefusedCommand
    <3>2. Len(queue) >= Capacity
      BY <2>1, <3>1 DEF Room
    <3> QED
      BY <1>1, <2>1, <3>2, QueueInCrowd
  <2>3. ASSUME NEW s \in Samplers, NEW k \in Kinds,
               poll'[s][k] = "empty", poll[s][k] = "none"
        PROVE  Crowd > Capacity
    <3>1. poll[s] = Idle /\ ~Room(2)
      BY <1>1, <2>3, RefusedPoll
    <3>2. Len(queue) + 2 > Capacity
      BY <2>1, <3>1 DEF Room
    <3> QED
      BY <1>1, <2>1, <3>1, <3>2, QueueInCrowd
  <2> QED
    BY <2>2, <2>3
<1>2. Spec => [](TypeOK /\ OneEach)
  BY OneEachInvariance
<1> QED
  BY <1>1, <1>2, PTL DEF Spec, RefusedByCommands

(***************************************************************************)
(* Nobody is forgotten                                                     *)
(***************************************************************************)

\* The client has a job of that name.
Has(n) ==
    \/ \E i \in 1 .. Len(queue) : Name(queue[i]) = n
    \/ \E w \in Workers : hand[w] # NoJob /\ Name(hand[w]) = n

\* A step that puts jobs at the end of the queue, or none, loses none.
LEMMA EnqueueKeeps ==
    ASSUME TypeOK, hand' = hand, Len(queue') \in Nat, Len(queue') >= Len(queue),
           \A i \in 1 .. Len(queue) : queue'[i] = queue[i],
           NEW n, Has(n)
    PROVE  Has(n)'
<1>1. Len(queue) \in Nat
  BY DEF TypeOK
<1>2. 1 .. Len(queue) \subseteq 1 .. Len(queue')
  BY <1>1
<1> QED
  BY <1>2 DEF Has, Name

\* The job that a worker takes is in its hand afterwards.
LEMMA TakeKeeps ==
    ASSUME TypeOK, NEW w \in Workers, Take(w), NEW n, Has(n)
    PROVE  Has(n)'
<1>1. queue \in Seq(Jobs) /\ queue # << >> /\ Len(queue) \in Nat \ {0}
  BY EmptySeq DEF Take, TypeOK
<1>2. queue' = SubSeq(queue, 1, NextUp - 1) \o SubSeq(queue, NextUp + 1, Len(queue))
  BY DEF Take
<1>3. /\ Len(queue') = Len(queue) - 1
      /\ \A i \in 1 .. Len(queue') : queue'[i] = queue[i + 1]
  BY <1>1, <1>2, Remaining, Zenon
<1>4. /\ hand'[w] = queue[1] /\ hand[w] = NoJob
      /\ \A v \in Workers : v # w => hand'[v] = hand[v]
      /\ queue[1] \in Jobs /\ queue[1] # NoJob
  BY <1>1, NoJobAssumption DEF Take, NextUp, TypeOK
<1>5. ASSUME NEW i \in 1 .. Len(queue), Name(queue[i]) = n PROVE Has(n)'
  <2>1. CASE i = 1
    BY <1>4, <1>5, <2>1 DEF Has, Name
  <2>2. CASE i # 1
    <3>1. i - 1 \in 1 .. Len(queue') /\ (i - 1) + 1 = i
      BY <1>1, <1>3, <2>2
    <3>2. queue'[i - 1] = queue[i]
      BY <1>3, <3>1
    <3> QED
      BY <1>5, <3>1, <3>2 DEF Has, Name
  <2> QED
    BY <2>1, <2>2
<1>6. ASSUME NEW v \in Workers, hand[v] # NoJob, Name(hand[v]) = n PROVE Has(n)'
  BY <1>4, <1>6 DEF Has, Name
<1> QED
  BY <1>5, <1>6 DEF Has

\* A worker that is through drops the job in its hand, and no other.
LEMMA FinishKeeps ==
    ASSUME TypeOK, NEW w \in Workers, FinishPoll(w) \/ FinishCommand(w),
           NEW n, n # Name(hand[w]), Has(n)
    PROVE  Has(n)'
<1>1. /\ queue' = queue
      /\ \A v \in Workers : v # w => hand'[v] = hand[v]
  BY DEF FinishPoll, FinishCommand, TypeOK
<1> QED
  BY <1>1 DEF Has, Name

\* What NobodyForgotten says, with names.
Remembered ==
    /\ \A s \in Samplers, k \in Kinds : poll[s][k] = "out" => Has(<< s, k >>)
    /\ \A c \in Commands : command[c] = "out" => Has(<< c, "command" >>)

\* The start of a sample: each poll that goes out has entered the queue.
LEMMA SampleRemembered ==
    ASSUME TypeOK, Remembered, NEW s \in Samplers, Sample(s)
    PROVE  Remembered'
<1>1. queue \in Seq(Jobs) /\ Len(queue) \in Nat
  BY DEF TypeOK
<1>2. /\ hand' = hand /\ command' = command
      /\ poll \in [Samplers -> [Kinds -> {"none", "out", "full", "empty"}]]
  BY DEF Sample, TypeOK
<1>3. ASSUME NEW k \in Kinds, endpoint # 0
      PROVE  PollJob(s, k) \in Jobs /\ Name(PollJob(s, k)) = << s, k >>
  BY <1>3, JobTypes DEF PollJob, Name
<1>4. /\ Len(queue') \in Nat /\ Len(queue') >= Len(queue)
      /\ \A i \in 1 .. Len(queue) : queue'[i] = queue[i]
      /\ \A k \in Kinds : poll'[s][k] = "out" /\ poll[s][k] # "out" =>
             \E i \in 1 .. Len(queue') : Name(queue'[i]) = << s, k >>
      /\ \A x \in Samplers : x # s => poll'[x] = poll[x]
  <2>1. CASE queue' = queue /\ \A k \in Kinds : poll'[s][k] # "out" \/ poll' = poll
    BY <1>1, <1>2, <2>1 DEF Sample, AskDog
  <2>2. CASE /\ endpoint # 0
             /\ queue' = Append(queue, PollJob(s, "battery"))
             /\ poll' = [poll EXCEPT ![s] = [battery |-> "out", state |-> "empty"]]
    <3> DEFINE b == PollJob(s, "battery")
    <3>1. b \in Jobs /\ Name(b) = << s, "battery" >>
      BY <1>3, <2>2 DEF Kinds
    <3> HIDE DEF b
    <3>2. queue' = Append(queue, b)
      BY <2>2 DEF b
    <3>3. /\ Len(queue') = Len(queue) + 1
          /\ \A i \in 1 .. Len(queue) : queue'[i] = queue[i]
          /\ queue'[Len(queue) + 1] = b
      BY <1>1, <3>1, <3>2, OneMore
    <3>4. Len(queue) + 1 \in 1 .. Len(queue')
      BY <1>1, <3>3
    <3>5. \E i \in 1 .. Len(queue') : Name(queue'[i]) = << s, "battery" >>
      BY <3>1, <3>3, <3>4
    <3>6. poll'[s]["state"] = "empty" /\ \A x \in Samplers : x # s => poll'[x] = poll[x]
      BY <1>2, <2>2
    <3> QED
      BY <1>1, <3>3, <3>5, <3>6 DEF Kinds
  <2>3. CASE /\ endpoint # 0
             /\ queue' = queue \o << PollJob(s, "battery"), PollJob(s, "state") >>
             /\ poll' = [poll EXCEPT ![s] = [k \in Kinds |-> "out"]]
    <3> DEFINE b == PollJob(s, "battery")
               t == PollJob(s, "state")
    <3>1. /\ b \in Jobs /\ Name(b) = << s, "battery" >>
          /\ t \in Jobs /\ Name(t) = << s, "state" >>
      BY <1>3, <2>3 DEF Kinds
    <3> HIDE DEF b, t
    <3>2. queue' = queue \o << b, t >>
      BY <2>3 DEF b, t
    <3>3. /\ Len(queue') = Len(queue) + 2
          /\ \A i \in 1 .. Len(queue) : queue'[i] = queue[i]
          /\ queue'[Len(queue) + 1] = b /\ queue'[Len(queue) + 2] = t
      BY <1>1, <3>1, <3>2, TwoMore
    <3>4. Len(queue) + 1 \in 1 .. Len(queue') /\ Len(queue) + 2 \in 1 .. Len(queue')
      BY <1>1, <3>3
    <3>5. \A k \in Kinds : \E i \in 1 .. Len(queue') : Name(queue'[i]) = << s, k >>
      BY <3>1, <3>3, <3>4 DEF Kinds
    <3>6. \A x \in Samplers : x # s => poll'[x] = poll[x]
      BY <1>2, <2>3
    <3> QED
      BY <1>1, <3>3, <3>5, <3>6
  <2>4. CASE queue' = queue /\ poll' = [poll EXCEPT ![s] = [k \in Kinds |-> "empty"]]
    <3>1. /\ \A k \in Kinds : poll'[s][k] # "out"
          /\ \A x \in Samplers : x # s => poll'[x] = poll[x]
      BY <1>2, <2>4
    <3> QED
      BY <1>1, <2>4, <3>1
  <2>5. CASE queue' = queue /\ poll' = poll
    BY <1>1, <2>5
  <2> QED
    BY <2>2, <2>3, <2>4, <2>5 DEF Sample, AskDog
<1>5. \A n : Has(n) => Has(n)'
  BY <1>2, <1>4, EnqueueKeeps
<1>6. ASSUME NEW x \in Samplers, NEW k \in Kinds, poll'[x][k] = "out"
      PROVE  Has(<< x, k >>)'
  <2>1. CASE poll[x][k] = "out"
    BY <1>5, <2>1 DEF Remembered
  <2>2. CASE poll[x][k] # "out"
    <3>1. x = s
      BY <1>4, <1>6, <2>2
    <3> QED
      BY <1>4, <1>6, <2>2, <3>1 DEF Has, Name
  <2> QED
    BY <2>1, <2>2
<1>7. ASSUME NEW c \in Commands, command'[c] = "out" PROVE Has(<< c, "command" >>)'
  BY <1>2, <1>5, <1>7 DEF Remembered
<1> QED
  BY <1>6, <1>7 DEF Remembered, Has, Name

\* Every step remembers who waits.
LEMMA StepRemembered == TypeOK /\ Remembered /\ [Next]_vars => Remembered'
<1> SUFFICES ASSUME TypeOK, Remembered, [Next]_vars PROVE Remembered'
  OBVIOUS
<1>1. queue \in Seq(Jobs) /\ Len(queue) \in Nat
  BY DEF TypeOK
<1>2. ASSUME NEW s \in Samplers, SampleDone(s) PROVE Remembered'
  <2>1. queue' = queue /\ hand' = hand /\ command' = command
    BY <1>2 DEF SampleDone
  <2>2. \A x \in Samplers, k \in Kinds : poll'[x][k] = "out" => poll[x][k] = "out"
    BY <1>2 DEF SampleDone, Idle, TypeOK
  <2> QED
    BY <2>1, <2>2 DEF Remembered, Has, Name
<1>3. ASSUME NEW c \in Commands, Command(c) PROVE Remembered'
  <2> DEFINE n == [by |-> c, kind |-> "command", to |-> endpoint]
  <2>1. hand' = hand /\ poll' = poll
    BY <1>3 DEF Command
  <2>2. CASE queue' = queue /\ \A d \in Commands : command'[d] = "out" => command[d] = "out"
    BY <2>1, <2>2 DEF Remembered, Has, Name
  <2>3. CASE endpoint # 0 /\ command' = [command EXCEPT ![c] = "out"] /\ queue' = Append(queue, n)
    <3>1. n \in Jobs /\ Name(n) = << c, "command" >>
      BY <2>3, JobTypes DEF Name
    <3>2. \A d \in Commands : d # c => command'[d] = command[d]
      BY <2>3 DEF TypeOK
    <3> HIDE DEF n
    <3>3. /\ Len(queue') = Len(queue) + 1
          /\ \A i \in 1 .. Len(queue) : queue'[i] = queue[i]
          /\ queue'[Len(queue) + 1] = n
      BY <1>1, <2>3, <3>1, OneMore
    <3>4. Len(queue) + 1 \in 1 .. Len(queue') /\ Len(queue') \in Nat /\ Len(queue') >= Len(queue)
      BY <1>1, <3>3
    <3>5. \A m : Has(m) => Has(m)'
      BY <2>1, <3>3, <3>4, EnqueueKeeps
    <3>6. Has(<< c, "command" >>)'
      BY <3>1, <3>3, <3>4 DEF Has, Name
    <3>7. \A s \in Samplers, k \in Kinds : poll'[s][k] = "out" => Has(<< s, k >>)'
      BY <2>1, <3>5 DEF Remembered
    <3>8. \A d \in Commands : command'[d] = "out" => Has(<< d, "command" >>)'
      BY <3>2, <3>5, <3>6 DEF Remembered
    <3> QED
      BY <3>7, <3>8 DEF Remembered, Has, Name
  <2>4. CASE queue' = queue /\ \E now \in {"answered", "refused"} :
                                   command' = [command EXCEPT ![c] = now]
    <3>1. \A d \in Commands : command'[d] = "out" => command[d] = "out"
      BY <2>4 DEF TypeOK
    <3> QED
      BY <2>2, <2>4, <3>1
  <2> QED
    BY <1>3, <2>3, <2>4 DEF Command
<1>4. ASSUME NEW w \in Workers, Take(w) PROVE Remembered'
  <2>1. poll' = poll /\ command' = command
    BY <1>4 DEF Take
  <2>2. \A n : Has(n) => Has(n)'
    BY <1>4, TakeKeeps
  <2>3. /\ \A s \in Samplers, k \in Kinds : poll'[s][k] = "out" => Has(<< s, k >>)'
        /\ \A c \in Commands : command'[c] = "out" => Has(<< c, "command" >>)'
    BY <2>1, <2>2 DEF Remembered
  <2> QED
    BY <2>3 DEF Remembered, Has, Name
<1>5. ASSUME NEW w \in Workers, FinishPoll(w) PROVE Remembered'
  <2>1. /\ hand[w].by \in Samplers /\ hand[w].by \notin Commands
        /\ hand[w].kind \in Kinds /\ command' = command
    BY <1>5, GatewayAssumption DEF GatewayAssumption, FinishPoll, Polls
  <2>2. \A n : n # Name(hand[w]) /\ Has(n) => Has(n)'
    BY <1>5, FinishKeeps
  <2>3. ASSUME NEW s \in Samplers, NEW k \in Kinds, poll'[s][k] = "out"
        PROVE  poll[s][k] = "out" /\ << s, k >> # Name(hand[w])
    BY <1>5, <2>1, <2>3 DEF FinishPoll, Name, TypeOK
  <2>4. \A s \in Samplers, k \in Kinds : poll'[s][k] = "out" => Has(<< s, k >>)'
    BY <2>2, <2>3 DEF Remembered
  <2>5. \A c \in Commands : << c, "command" >> # Name(hand[w])
    BY <2>1 DEF Name
  <2>6. \A c \in Commands : command'[c] = "out" => Has(<< c, "command" >>)'
    BY <2>1, <2>2, <2>5 DEF Remembered
  <2> QED
    BY <2>4, <2>6 DEF Remembered, Has, Name
<1>6. ASSUME NEW w \in Workers, FinishCommand(w) PROVE Remembered'
  <2>1. hand[w].by \in Commands /\ hand[w].by \notin Samplers /\ poll' = poll
    BY <1>6, GatewayAssumption DEF GatewayAssumption, FinishCommand, Orders
  <2>2. \A n : n # Name(hand[w]) /\ Has(n) => Has(n)'
    BY <1>6, FinishKeeps
  <2>3. ASSUME NEW c \in Commands, command'[c] = "out"
        PROVE  command[c] = "out" /\ << c, "command" >> # Name(hand[w])
    BY <1>6, <2>1, <2>3 DEF FinishCommand, Name, TypeOK
  <2>4. \A c \in Commands : command'[c] = "out" => Has(<< c, "command" >>)'
    BY <2>2, <2>3 DEF Remembered
  <2>5. \A s \in Samplers, k \in Kinds : << s, k >> # Name(hand[w])
    BY <2>1 DEF Name
  <2>6. \A s \in Samplers, k \in Kinds : poll'[s][k] = "out" => Has(<< s, k >>)'
    BY <2>1, <2>2, <2>5 DEF Remembered
  <2> QED
    BY <2>4, <2>6 DEF Remembered, Has, Name
<1>7. CASE UNCHANGED << queue, hand, poll, command >>
  BY <1>7 DEF Remembered, Has, Name
<1>8. (UpdateConfig \/ (\E d \in Dogs : DaemonChanges(d)) \/ UNCHANGED vars)
        => UNCHANGED << queue, hand, poll, command >>
  BY DEF UpdateConfig, DaemonChanges, vars
<1> QED
  BY <1>2, <1>3, <1>4, <1>5, <1>6, <1>7, <1>8, SampleRemembered DEF Next

\* Whoever waits for the client has a job in it, through refusals, failing
\* requests, daemons that come and go and updates of the configuration.
THEOREM AllRemembered == Spec => []NobodyForgotten
<1>1. Init => TypeOK /\ Remembered
  <2>1. Init => Remembered
    BY DEF Init, Idle, Remembered
  <2> QED
    BY <2>1, InitTypeOK
<1>2. TypeOK /\ Remembered /\ [Next]_vars => (TypeOK /\ Remembered)'
  BY StepTypeOK, StepRemembered
<1>3. TypeOK /\ Remembered => NobodyForgotten
  BY DEF TypeOK, Remembered, Has, Name, NobodyForgotten, InClient
<1> QED
  BY <1>1, <1>2, <1>3, PTL DEF Spec

(***************************************************************************)
(* The liveness flag                                                       *)
(***************************************************************************)

\* A job that was not in the queue before is for the current endpoint.
LEMMA NewJobs ==
    ASSUME TypeOK, [Next]_vars, NEW i \in 1 .. Len(queue'),
           ~ \E w \in Workers : Take(w)
    PROVE  \/ i \in 1 .. Len(queue) /\ queue'[i] = queue[i]
           \/ queue'[i].to = endpoint
<1>1. queue \in Seq(Jobs) /\ Len(queue) \in Nat
  BY DEF TypeOK
<1>2. CASE queue' = queue
  BY <1>2
<1>3. ASSUME endpoint # 0, NEW j \in Jobs, j.to = endpoint, queue' = Append(queue, j)
      PROVE  \/ i \in 1 .. Len(queue) /\ queue'[i] = queue[i]
             \/ queue'[i].to = endpoint
  BY <1>1, <1>3, OneMore
<1>4. CASE \E s \in Samplers : Sample(s)
  <2>1. PICK s \in Samplers : Sample(s)
    BY <1>4
  <2>2. ASSUME endpoint # 0, NEW k \in Kinds
        PROVE  PollJob(s, k) \in Jobs /\ PollJob(s, k).to = endpoint
    BY <2>2, JobTypes DEF PollJob
  <2>3. CASE endpoint # 0 /\ queue' = Append(queue, PollJob(s, "battery"))
    BY <1>3, <2>2, <2>3 DEF Kinds
  <2>4. CASE /\ endpoint # 0
             /\ queue' = queue \o << PollJob(s, "battery"), PollJob(s, "state") >>
    <3> DEFINE b == PollJob(s, "battery")
               t == PollJob(s, "state")
    <3>1. b \in Jobs /\ t \in Jobs /\ b.to = endpoint /\ t.to = endpoint
      BY <2>2, <2>4 DEF Kinds
    <3> HIDE DEF b, t
    <3>2. queue' = queue \o << b, t >>
      BY <2>4 DEF b, t
    <3>3. /\ Len(queue') = Len(queue) + 2
          /\ \A n \in 1 .. Len(queue) : queue'[n] = queue[n]
          /\ queue'[Len(queue) + 1] = b /\ queue'[Len(queue) + 2] = t
      BY <1>1, <3>1, <3>2, TwoMore
    <3>4. i \in 1 .. Len(queue) \/ i = Len(queue) + 1 \/ i = Len(queue) + 2
      BY <1>1, <3>3
    <3> QED
      BY <3>1, <3>3, <3>4
  <2> QED
    BY <1>2, <2>1, <2>3, <2>4 DEF Sample, AskDog
<1>5. CASE \E c \in Commands : Command(c)
  <2>1. PICK c \in Commands : Command(c)
    BY <1>5
  <2> DEFINE j == [by |-> c, kind |-> "command", to |-> endpoint]
  <2>2. CASE endpoint # 0 /\ queue' = Append(queue, j)
    <3>1. j \in Jobs /\ j.to = endpoint
      BY <2>2, JobTypes
    <3> HIDE DEF j
    <3> QED
      BY <1>3, <2>2, <3>1
  <2> QED
    BY <1>2, <2>1, <2>2 DEF Command
<1> QED
  BY <1>2, <1>4, <1>5 DEF Next, SampleDone, UpdateConfig, FinishPoll, FinishCommand,
                          DaemonChanges, vars

\* A worker holds what it held, nothing, or the first job of the queue.
LEMMA NewHands ==
    ASSUME TypeOK, [Next]_vars, NEW w \in Workers
    PROVE  \/ hand'[w] = hand[w] \/ hand'[w] = NoJob
           \/ 1 \in 1 .. Len(queue) /\ hand'[w] = queue[1]
<1>1. ASSUME NEW v \in Workers, Take(v) PROVE hand'[w] = hand[w] \/ hand'[w] = queue[1]
  BY <1>1 DEF Take, NextUp, TypeOK
<1>2. ASSUME NEW v \in Workers, Take(v) PROVE 1 \in 1 .. Len(queue)
  BY <1>2, EmptySeq DEF Take, TypeOK
<1>3. ASSUME NEW v \in Workers, FinishPoll(v) \/ FinishCommand(v)
      PROVE  hand'[w] = hand[w] \/ hand'[w] = NoJob
  BY <1>3 DEF FinishPoll, FinishCommand, TypeOK
<1> QED
  BY <1>1, <1>2, <1>3 DEF Next, Sample, SampleDone, Command, UpdateConfig, DaemonChanges, vars

\* Once all polls ask the configured PiDog, they go on asking it.
LEMMA StepAsksOnly ==
    ASSUME TypeOK, [Next]_vars, NEW d \in Dogs, AsksOnly(d), endpoint' = d
    PROVE  AsksOnly(d)'
<1>1. /\ DOMAIN queue = 1 .. Len(queue)
      /\ queue \in Seq(Jobs) /\ Len(queue) \in Nat
  BY DEF TypeOK
<1>2. TypeOK'
  BY StepTypeOK
<1>3. DOMAIN queue' = 1 .. Len(queue')
  BY <1>2 DEF TypeOK
<1>4. ASSUME NEW i \in 1 .. Len(queue'), queue'[i] \in Polls PROVE queue'[i].to = d
  <2>1. CASE \E w \in Workers : Take(w)
    <3>1. PICK w \in Workers : Take(w)
      BY <2>1
    <3>2. /\ queue # << >>
          /\ queue' = SubSeq(queue, 1, NextUp - 1) \o SubSeq(queue, NextUp + 1, Len(queue))
      BY <3>1 DEF Take
    <3>3. /\ Len(queue') = Len(queue) - 1
          /\ \A n \in 1 .. Len(queue') : queue'[n] = queue[n + 1]
      BY <1>1, <3>2, Remaining, Zenon
    <3>4. queue'[i] = queue[i + 1] /\ i + 1 \in 1 .. Len(queue)
      BY <1>1, <3>3
    <3> QED
      BY <1>1, <1>4, <3>4 DEF AsksOnly
  <2>2. CASE ~ \E w \in Workers : Take(w)
    BY <1>1, <1>4, <2>2, NewJobs DEF AsksOnly
  <2> QED
    BY <2>1, <2>2
<1>5. ASSUME NEW w \in Workers, hand'[w] \in Polls PROVE hand'[w].to = d
  <2>1. hand'[w] # NoJob
    BY <1>5, NoJobAssumption DEF Jobs
  <2> QED
    BY <1>1, <1>5, <2>1, NewHands DEF AsksOnly
<1> QED
  BY <1>3, <1>4, <1>5 DEF AsksOnly

\* What becomes of the poll k of a sampler.
LEMMA StepPoll ==
    ASSUME TypeOK, [Next]_vars, NEW s \in Samplers, NEW k \in Kinds
    PROVE  \/ poll'[s][k] = poll[s][k]
           \/ poll[s][k] = "none" /\ poll'[s][k] \in {"out", "empty"}
           \/ poll'[s][k] = "none"
           \/ /\ poll'[s] # Idle
              /\ \E w \in Workers : /\ hand[w] \in Polls
                                    /\ hand[w].kind = k /\ hand[w].to \in Dogs
                                    /\ poll'[s][k] = IF k \in serves[hand[w].to] THEN "full"
                                                     ELSE "empty"
<1>1. ASSUME NEW x \in Samplers, Sample(x)
      PROVE  \/ poll'[s][k] = poll[s][k]
             \/ poll[s][k] = "none" /\ poll'[s][k] \in {"out", "empty"}
  BY <1>1 DEF Sample, Rests, Idle, AskDog, TypeOK, Kinds
<1>2. ASSUME NEW x \in Samplers, SampleDone(x)
      PROVE  poll'[s][k] = poll[s][k] \/ poll'[s][k] = "none"
  BY <1>2 DEF SampleDone, Idle, TypeOK
<1>3. ASSUME NEW w \in Workers, FinishPoll(w), poll'[s][k] # poll[s][k]
      PROVE  /\ poll'[s] # Idle
             /\ hand[w] \in Polls
             /\ hand[w].kind = k /\ hand[w].to \in Dogs
             /\ poll'[s][k] = IF k \in serves[hand[w].to] THEN "full" ELSE "empty"
  <2>1. /\ hand[w] \in Polls /\ hand[w].by \in Samplers
        /\ hand[w].kind \in Kinds /\ hand[w].to \in Dogs
    BY <1>3 DEF FinishPoll, Polls
  <2>2. hand[w].by = s /\ hand[w].kind = k
    BY <1>3, <2>1 DEF FinishPoll, TypeOK
  <2>3. poll'[s][k] = IF k \in serves[hand[w].to] THEN "full" ELSE "empty"
    BY <1>3, <2>1, <2>2 DEF FinishPoll, TypeOK
  <2> QED
    BY <2>1, <2>2, <2>3 DEF Idle
<1> QED
  BY <1>1, <1>2, <1>3 DEF Next, Command, UpdateConfig, Take, FinishCommand,
                          DaemonChanges, vars

\* While a PiDog is configured only the end of a sample writes the flag.
LEMMA StepAlive ==
    ASSUME TypeOK, [Next]_vars, endpoint # 0
    PROVE  \/ alive' = alive /\ ~SampleEnds
           \/ \E s \in Samplers : SampleDone(s) /\ alive' = Responds(s)
<1>1. ASSUME NEW s \in Samplers, Sample(s) PROVE alive' = alive /\ ~SampleEnds
  <2>1. alive' = alive /\ poll[s] = Idle
    BY <1>1 DEF Sample, Rests
  <2>2. \A x \in Samplers : x # s => poll'[x] = poll[x]
    BY <1>1 DEF Sample, AskDog, TypeOK
  <2> QED
    BY <2>1, <2>2 DEF SampleEnds
<1>2. ASSUME NEW w \in Workers, FinishPoll(w) PROVE alive' = alive /\ ~SampleEnds
  <2>1. /\ alive' = alive /\ hand[w] \in Polls
        /\ hand[w].by \in Samplers /\ hand[w].kind \in Kinds
    BY <1>2 DEF FinishPoll, Polls
  <2>2. \A x \in Samplers : x # hand[w].by => poll'[x] = poll[x]
    BY <1>2 DEF FinishPoll, TypeOK
  <2>3. poll'[hand[w].by][hand[w].kind] # "none"
    BY <1>2, <2>1 DEF FinishPoll, TypeOK
  <2>4. poll'[hand[w].by] # Idle
    BY <2>1, <2>3 DEF Idle
  <2> QED
    BY <2>1, <2>2, <2>4 DEF SampleEnds
<1>3. CASE alive' = alive /\ poll' = poll
  BY <1>3 DEF SampleEnds
<1>4. ASSUME NEW s \in Samplers, SampleDone(s) PROVE alive' = Responds(s)
  BY <1>4 DEF SampleDone
<1> QED
  BY <1>1, <1>2, <1>3, <1>4 DEF Next, Command, UpdateConfig, Take, FinishCommand,
                                DaemonChanges, vars

\* Samples that see the PiDog up go on seeing it up.
LEMMA StepSeenUp ==
    ASSUME TypeOK, OneEach, [Next]_vars, NEW d \in Dogs, NEW k \in Kinds,
           SeenUp(d, k), endpoint' = d, k \in serves'[d],
           Capacity = 0 \/ Crowd <= Capacity
    PROVE  SeenUp(d, k)' /\ (alive \/ SampleEnds => alive')
<1>1. AsksOnly(d) /\ AsksOnly(d)' /\ endpoint # 0
  BY StepAsksOnly DEF SeenUp, AsksOnly, Dogs
<1>2. ASSUME NEW s \in Samplers PROVE poll'[s][k] # "empty"
  <2>1. poll[s][k] # "empty"
    BY DEF SeenUp
  <2>2. poll[s][k] = "none" => poll'[s][k] # "empty"
    <3> SUFFICES ASSUME poll[s][k] = "none", poll'[s][k] = "empty" PROVE FALSE
      OBVIOUS
    <3>1. poll[s] = Idle /\ ~Room(2)
      BY RefusedPoll
    <3>2. /\ Len(queue) + 2 <= Crowd
          /\ Crowd \in Nat /\ Len(queue) \in Nat /\ Capacity \in Nat
      BY <3>1, QueueInCrowd, GatewayAssumption DEF GatewayAssumption, TypeOK
    <3> QED
      BY <3>1, <3>2 DEF Room
  <2>3. \A w \in Workers : hand[w] \in Polls => k \in serves[hand[w].to]
    BY <1>1 DEF AsksOnly, SeenUp
  <2> QED
    BY <2>1, <2>2, <2>3, StepPoll
<1>3. alive \/ SampleEnds => alive'
  <2>1. ASSUME NEW s \in Samplers, SampleDone(s) PROVE Responds(s)
    BY <2>1 DEF SampleDone, Responds, SeenUp
  <2> QED
    BY <1>1, <2>1, StepAlive
<1> QED
  BY <1>1, <1>2, <1>3 DEF SeenUp

\* The same of samples that see it down.
LEMMA StepSeenDown ==
    ASSUME TypeOK, [Next]_vars, NEW d \in Dogs,
           SeenDown(d), endpoint' = d, serves'[d] = {}
    PROVE  SeenDown(d)' /\ (~alive \/ SampleEnds => ~alive')
<1>1. AsksOnly(d) /\ AsksOnly(d)' /\ endpoint # 0
  BY StepAsksOnly DEF SeenDown, AsksOnly, Dogs
<1>2. ASSUME NEW s \in Samplers, NEW k \in Kinds PROVE poll'[s][k] # "full"
  <2>1. poll[s][k] # "full"
    BY DEF SeenDown
  <2>2. \A w \in Workers : hand[w] \in Polls => k \notin serves[hand[w].to]
    BY <1>1 DEF AsksOnly, SeenDown
  <2> QED
    BY <2>1, <2>2, StepPoll
<1>3. ~alive \/ SampleEnds => ~alive'
  <2>1. ASSUME NEW s \in Samplers PROVE ~Responds(s)
    BY DEF Responds, SeenDown
  <2> QED
    BY <1>1, <2>1, StepAlive
<1> QED
  BY <1>1, <1>2, <1>3 DEF SeenDown

\* The two loops that write the liveness flag do not undo each other: late
\* samples of either find what the earlier ones found.
THEOREM FlagStays == Spec => FlagIsSteady
<1> DEFINE Steady ==
        \A d \in Dogs :
            /\ \A k \in Kinds :
                 SeenUp(d, k) /\ endpoint' = d /\ k \in serves'[d]
                     /\ (Capacity = 0 \/ Crowd <= Capacity)
                   => SeenUp(d, k)' /\ (alive \/ SampleEnds => alive')
            /\ SeenDown(d) /\ endpoint' = d /\ serves'[d] = {}
                   => SeenDown(d)' /\ (~alive \/ SampleEnds => ~alive')
<1>1. TypeOK /\ OneEach /\ [Next]_vars => Steady
  BY StepSeenUp, StepSeenDown
<1>2. TypeOK /\ OneEach /\ [Next]_vars => [Steady]_vars
  BY <1>1
<1> HIDE DEF Steady
<1>3. Spec => [][Steady]_vars
  BY <1>2, OneEachInvariance, PTL DEF Spec
<1> QED
  BY <1>3 DEF Steady, FlagIsSteady

\* What DownIsNoticed and UpIsNoticed rest on: when a PiDog stays configured
\* and as it is, some moment at which all samples see it so is enough for the
\* flag, since samples go on ending.  For a flag that is up, commands must not
\* crowd out polls.
THEOREM FlagSettles ==
    ASSUME NEW d \in Dogs, NEW k \in Kinds
    PROVE  /\ Spec /\ []<><< SampleEnds >>_vars
                   /\ <>(SeenDown(d) /\ [](endpoint = d /\ serves[d] = {}))
               => <>[]~alive
           /\ Spec /\ []<><< SampleEnds >>_vars
                   /\ [](Capacity = 0 \/ Crowd <= Capacity)
                   /\ <>(SeenUp(d, k) /\ [](endpoint = d /\ k \in serves[d]))
               => <>[]alive
<1> DEFINE Dead  == endpoint = d /\ serves[d] = {}
           Lives == endpoint = d /\ k \in serves[d]
           Roomy == Capacity = 0 \/ Crowd <= Capacity
           Hold  == /\ SeenDown(d) /\ Dead' => SeenDown(d)' /\ (~alive => ~alive')
                    /\ SeenUp(d, k) /\ Roomy /\ Lives' => SeenUp(d, k)' /\ (alive => alive')
           Ends  == /\ SeenDown(d) /\ Dead' /\ SampleEnds => ~alive'
                    /\ SeenUp(d, k) /\ Roomy /\ Lives' /\ SampleEnds => alive'
<1>1. TypeOK /\ OneEach /\ [Next]_vars => Hold /\ Ends
  BY StepSeenDown, StepSeenUp
<1>2. TypeOK /\ OneEach /\ [Next]_vars
        => /\ SeenDown(d) /\ Dead' => SeenDown(d)'
           /\ SeenDown(d) /\ Dead' /\ ~alive => (~alive)'
           /\ SeenDown(d) /\ Dead' /\ << SampleEnds >>_vars => (~alive)'
           /\ SeenUp(d, k) /\ Roomy /\ Lives' => SeenUp(d, k)'
           /\ SeenUp(d, k) /\ Roomy /\ Lives' /\ alive => alive'
           /\ SeenUp(d, k) /\ Roomy /\ Lives' /\ << SampleEnds >>_vars => alive'
  BY <1>1
<1> HIDE DEF Dead, Lives, Roomy, Hold, Ends
<1>3. Spec /\ []<><< SampleEnds >>_vars /\ <>(SeenDown(d) /\ []Dead) => <>[]~alive
  BY <1>2, OneEachInvariance, PTL DEF Spec
<1>4. Spec /\ []<><< SampleEnds >>_vars /\ []Roomy /\ <>(SeenUp(d, k) /\ []Lives)
        => <>[]alive
  BY <1>2, OneEachInvariance, PTL DEF Spec
<1> QED
  BY <1>3, <1>4 DEF Dead, Lives, Roomy

(***************************************************************************)
(* The way of a command through the queue                                  *)
(*                                                                         *)
(* The prover has no rule for ENABLED.  What the theorem needs of it is     *)
(* its hypothesis GuardsSuffice: an action whose guard holds can be       *)
(* taken.  That is so by the shape of the actions, each of which gives     *)
(* every variable a value once its guard holds.                            *)
(***************************************************************************)

\* A worker has a step to take when it has a job, or finds one in the queue.
WorkerGoesOn(w) ==
    hand[w] \in Jobs \/ (hand[w] = NoJob /\ queue # << >>)
        => ENABLED << WorkerStep(w) >>_vars

GuardsSuffice == \A w \in Workers : WorkerGoesOn(w)

\* What Take(w) does to the queue and to the hands.
LEMMA TakeMoves ==
    ASSUME TypeOK, NEW w \in Workers, Take(w)
    PROVE  /\ Len(queue') = Len(queue) - 1
           /\ \A i \in 1 .. Len(queue') : queue'[i] = queue[i + 1]
           /\ hand'[w] = queue[1] /\ hand[w] = NoJob
           /\ \A v \in Workers : v # w => hand'[v] = hand[v]
<1>1. /\ queue \in Seq(Jobs) /\ queue # << >>
      /\ queue' = SubSeq(queue, 1, NextUp - 1) \o SubSeq(queue, NextUp + 1, Len(queue))
  BY DEF Take, TypeOK
<1>2. /\ Len(queue') = Len(queue) - 1
      /\ \A i \in 1 .. Len(queue') : queue'[i] = queue[i + 1]
  BY <1>1, Remaining, Zenon
<1> QED
  BY <1>2 DEF Take, NextUp, TypeOK

\* Other steps leave the jobs in the queue where they are.
LEMMA QueueStays ==
    ASSUME TypeOK, [Next]_vars, NEW i \in 1 .. Len(queue),
           ~ \E w \in Workers : Take(w)
    PROVE  i \in 1 .. Len(queue') /\ queue'[i] = queue[i]
<1>1. queue \in Seq(Jobs) /\ Len(queue) \in Nat
  BY DEF TypeOK
<1>2. CASE queue' = queue
  BY <1>2
<1>3. ASSUME NEW j \in Jobs, queue' = Append(queue, j)
      PROVE  i \in 1 .. Len(queue') /\ queue'[i] = queue[i]
  BY <1>1, <1>3, OneMore
<1>4. CASE \E s \in Samplers : Sample(s)
  <2>1. PICK s \in Samplers : Sample(s)
    BY <1>4
  <2>2. ASSUME endpoint # 0 PROVE PollJob(s, "battery") \in Jobs /\ PollJob(s, "state") \in Jobs
    BY <2>2, JobTypes DEF Kinds
  <2>3. CASE endpoint # 0 /\ queue' = Append(queue, PollJob(s, "battery"))
    BY <1>3, <2>2, <2>3
  <2>4. CASE /\ endpoint # 0
             /\ queue' = queue \o << PollJob(s, "battery"), PollJob(s, "state") >>
    <3>1. Len(queue') = Len(queue) + 2 /\ queue'[i] = queue[i]
      BY <1>1, <2>2, <2>4, TwoMore
    <3> QED
      BY <1>1, <3>1
  <2> QED
    BY <1>2, <2>1, <2>3, <2>4 DEF Sample, AskDog
<1>5. CASE \E c \in Commands : Command(c)
  <2>1. PICK c \in Commands : Command(c)
    BY <1>5
  <2> DEFINE j == [by |-> c, kind |-> "command", to |-> endpoint]
  <2>2. CASE endpoint # 0 /\ queue' = Append(queue, j)
    <3>1. j \in Jobs
      BY <2>2, JobTypes
    <3> HIDE DEF j
    <3> QED
      BY <1>3, <2>2, <3>1
  <2> QED
    BY <1>2, <2>1, <2>2 DEF Command
<1> QED
  BY <1>2, <1>4, <1>5 DEF Next, SampleDone, UpdateConfig, FinishPoll, FinishCommand,
                          DaemonChanges, vars

\* A command stays where it is in the queue until it moves up by one place.
LEMMA StepPlace ==
    ASSUME TypeOK, [Next]_vars, NEW c \in Commands, NEW i \in Nat \ {0}, Place(c, i)
    PROVE  IF \E w \in Workers : Take(w) THEN Place(c, i - 1)' ELSE Place(c, i)'
<1>1. /\ i \in 1 .. Len(queue) /\ queue[i].by = c
      /\ queue \in Seq(Jobs) /\ queue[i] \in Jobs /\ Len(queue) \in Nat
  BY DEF Place, TypeOK
<1>2. DOMAIN queue' = 1 .. Len(queue')
  BY StepTypeOK DEF TypeOK
<1>3. ASSUME NEW w \in Workers, Take(w) PROVE Place(c, i - 1)'
  <2>1. /\ Len(queue') = Len(queue) - 1
        /\ \A n \in 1 .. Len(queue') : queue'[n] = queue[n + 1]
        /\ hand'[w] = queue[1]
    BY <1>3, TakeMoves
  <2>2. CASE i = 1
    <3>1. hand'[w] # NoJob /\ hand'[w].by = c
      BY <1>1, <2>1, <2>2, NoJobAssumption
    <3> QED
      BY <2>2, <3>1 DEF Place
  <2>3. CASE i # 1
    <3>1. i - 1 \in 1 .. Len(queue') /\ (i - 1) + 1 = i /\ i - 1 # 0
      BY <1>1, <2>1, <2>3
    <3>2. queue'[i - 1].by = c
      BY <1>1, <2>1, <3>1
    <3> QED
      BY <1>2, <3>1, <3>2 DEF Place
  <2> QED
    BY <2>2, <2>3
<1>4. ASSUME ~ \E w \in Workers : Take(w) PROVE Place(c, i)'
  <2>1. i \in 1 .. Len(queue') /\ queue'[i] = queue[i]
    BY <1>1, <1>4, QueueStays
  <2> QED
    BY <1>1, <1>2, <2>1 DEF Place
<1> QED
  BY <1>3, <1>4

\* The worker waits in queue.get().
Free(w) == hand[w] = NoJob

\* An idle worker waits until there is a job for it.
LEMMA StepIdle ==
    ASSUME TypeOK, [Next]_vars, NEW w \in Workers, hand[w] = NoJob
    PROVE  hand'[w] = NoJob \/ \E v \in Workers : Take(v)
<1>1. ASSUME NEW v \in Workers, FinishPoll(v) \/ FinishCommand(v) PROVE hand'[w] = NoJob
  BY <1>1 DEF FinishPoll, FinishCommand, TypeOK
<1> QED
  BY <1>1 DEF Next, Sample, SampleDone, Command, UpdateConfig, DaemonChanges, vars

\* Worker w takes a job when it is idle, and is idle when it was not.
LEMMA WorkerAlternates ==
    ASSUME TypeOK, NEW w \in Workers, WorkerStep(w)
    PROVE  IF hand[w] = NoJob THEN Take(w)
           ELSE hand'[w] = NoJob /\ ~ \E v \in Workers : Take(v)
<1>1. ASSUME FinishPoll(w) \/ FinishCommand(w)
      PROVE  hand[w] # NoJob /\ hand'[w] = NoJob /\ hand[w] # hand'[w] /\ queue' = queue
  BY <1>1, NoJobAssumption DEF FinishPoll, FinishCommand, TypeOK, Jobs
<1>2. ASSUME NEW v \in Workers, Take(v), queue' = queue PROVE FALSE
  <2>1. Len(queue) \in Nat /\ Len(queue) = Len(queue) - 1
    BY <1>2, TakeMoves DEF TypeOK
  <2> QED
    BY <2>1
<1>3. CASE Take(w)
  BY <1>3 DEF Take
<1>4. CASE FinishPoll(w) \/ FinishCommand(w)
  BY <1>1, <1>2, <1>4
<1> QED
  BY <1>3, <1>4 DEF WorkerStep

\* A command that waits in the queue moves up: worker w, should no other take
\* a job, is done with the one it has, and takes the first.
LEMMA MovesUp ==
    ASSUME NEW c \in Commands, NEW i \in Nat \ {0}, NEW w \in Workers
    PROVE  Spec /\ FairWorker(w) /\ []WorkerGoesOn(w) => (Place(c, i) ~> Place(c, i - 1))
<1>1. TypeOK /\ [Next]_vars /\ Place(c, i) => Place(c, i)' \/ Place(c, i - 1)'
  BY StepPlace
<1>2. TypeOK /\ [Next]_vars /\ Place(c, i) /\ Free(w) => Free(w)' \/ Place(c, i - 1)'
  BY StepPlace, StepIdle DEF Free
<1>3. TypeOK /\ [Next]_vars /\ Place(c, i) /\ ~Free(w) /\ << WorkerStep(w) >>_vars => Free(w)'
  BY WorkerAlternates DEF Free
<1>4. TypeOK /\ [Next]_vars /\ Place(c, i) /\ Free(w) /\ << WorkerStep(w) >>_vars
          => Place(c, i - 1)'
  BY StepPlace, WorkerAlternates DEF Free
<1>5. Place(c, i) => queue # << >>
  BY DEF Place
<1>6. TypeOK /\ WorkerGoesOn(w) /\ Place(c, i) => ENABLED << WorkerStep(w) >>_vars
  BY <1>5 DEF WorkerGoesOn, TypeOK
<1>7. FairWorker(w) => WF_vars(WorkerStep(w))
  BY PTL DEF FairWorker
<1> QED
  BY <1>1, <1>2, <1>3, <1>4, <1>6, <1>7, TypeCorrect, PTL DEF Spec

\* Worker w performs the request of command c.
Performs(w, c) == hand[w] # NoJob /\ hand[w].by = c

\* A worker goes on with a command until it is answered.
LEMMA StepPerforms ==
    ASSUME TypeOK, [Next]_vars, NEW c \in Commands, NEW w \in Workers, Performs(w, c)
    PROVE  /\ Performs(w, c)' \/ command'[c] = "answered"
           /\ WorkerStep(w) => command'[c] = "answered"
<1>1. /\ hand[w] \in Orders /\ hand[w] \notin Polls /\ hand[w].by = c
      /\ c \in Commands /\ hand[w] # NoJob
  <2>1. hand[w] \in Jobs
    BY DEF TypeOK, Performs
  <2> QED
    BY <2>1, Callers DEF Performs, Polls
<1>2. WorkerStep(w) => command'[c] = "answered"
  BY <1>1 DEF WorkerStep, Take, FinishPoll, FinishCommand, TypeOK
<1>3. ASSUME NEW v \in Workers, v # w, Take(v) \/ FinishPoll(v) \/ FinishCommand(v)
      PROVE  hand'[w] = hand[w]
  BY <1>3 DEF Take, FinishPoll, FinishCommand, TypeOK
<1>4. hand'[w] = hand[w] \/ WorkerStep(w)
  BY <1>3 DEF Next, WorkerStep, Sample, SampleDone, Command, UpdateConfig,
              DaemonChanges, vars
<1> QED
  BY <1>2, <1>4 DEF Performs

\* Once a worker has a command in its hand, the command is answered.
LEMMA Answers ==
    ASSUME NEW c \in Commands, NEW w \in Workers
    PROVE  Spec /\ FairWorker(w) /\ []WorkerGoesOn(w)
               => (Performs(w, c) ~> command[c] = "answered")
<1>1. TypeOK /\ [Next]_vars /\ Performs(w, c) => Performs(w, c)' \/ (command[c] = "answered")'
  BY StepPerforms
<1>2. TypeOK /\ [Next]_vars /\ Performs(w, c) /\ << WorkerStep(w) >>_vars
          => (command[c] = "answered")'
  BY StepPerforms
<1>3. TypeOK /\ WorkerGoesOn(w) /\ Performs(w, c) => ENABLED << WorkerStep(w) >>_vars
  BY DEF WorkerGoesOn, Performs, TypeOK
<1>4. FairWorker(w) => WF_vars(WorkerStep(w))
  BY PTL DEF FairWorker
<1> QED
  BY <1>1, <1>2, <1>3, <1>4, TypeCorrect, PTL DEF Spec

\* Whichever worker it is.
LEMMA SomeWorkerAnswers ==
    ASSUME NEW c \in Commands
    PROVE  FairSpec /\ []GuardsSuffice => (Place(c, 0) ~> command[c] = "answered")
<1>1. ASSUME NEW w \in Workers
      PROVE  FairSpec /\ []GuardsSuffice => [](Performs(w, c) => <>(command[c] = "answered"))
  <2>1. Fairness => FairWorker(w)
    BY DEF Fairness
  <2>2. GuardsSuffice => WorkerGoesOn(w)
    BY DEF GuardsSuffice
  <2> QED
    BY <2>1, <2>2, Answers, PTL DEF FairSpec
<1>2. FairSpec /\ []GuardsSuffice
          => \A w \in Workers : [](Performs(w, c) => <>(command[c] = "answered"))
  BY <1>1
<1>3. (\A w \in Workers : [](Performs(w, c) => <>(command[c] = "answered")))
          => [](\A w \in Workers : Performs(w, c) => <>(command[c] = "answered"))
  OBVIOUS
<1>4. (\A w \in Workers : Performs(w, c) => <>(command[c] = "answered"))
          => ((\E w \in Workers : Performs(w, c)) => <>(command[c] = "answered"))
  OBVIOUS
<1>5. Place(c, 0) => \E w \in Workers : Performs(w, c)
  BY DEF Place, Performs
<1> QED
  BY <1>2, <1>3, <1>4, <1>5, PTL

\* What is sent to the daemon goes in the order of the calls, however many
\* polls the loops put in: a command that waits in the queue moves up, place
\* by place into the hand of a worker, and is answered there.
THEOREM CommandsMove == FairSpec /\ []GuardsSuffice => CommandsMoveUp
<1> DEFINE N == Cardinality(Commands) + 2 * Cardinality(Samplers)
<1>1. 1 \in Workers /\ N \in Nat
  BY FS_CardinalityType, GatewayAssumption DEF GatewayAssumption, Workers
<1>2. ASSUME NEW c \in Commands, NEW i \in 1 .. N
      PROVE  FairSpec /\ []GuardsSuffice => (Place(c, i) ~> Place(c, i - 1))
  <2>1. i \in Nat \ {0}
    BY <1>1
  <2> SUFFICES ASSUME NEW w \in Workers
               PROVE  FairSpec /\ []GuardsSuffice => (Place(c, i) ~> Place(c, i - 1))
    BY <1>1
  <2>2. Fairness => FairWorker(w)
    BY DEF Fairness
  <2>3. GuardsSuffice => WorkerGoesOn(w)
    BY DEF GuardsSuffice
  <2>4. Spec /\ FairWorker(w) /\ []WorkerGoesOn(w) => (Place(c, i) ~> Place(c, i - 1))
    BY <2>1, MovesUp
  <2> QED
    BY <2>2, <2>3, <2>4, PTL DEF FairSpec
<1> HIDE DEF N
<1>3. FairSpec /\ []GuardsSuffice
          => \A c \in Commands : /\ \A i \in 1 .. N : Place(c, i) ~> Place(c, i - 1)
                                 /\ Place(c, 0) ~> command[c] = "answered"
  BY <1>2, SomeWorkerAnswers
<1> QED
  BY <1>3 DEF N, CommandsMoveUp

\* Every command that its caller waits for has such a place.
Placed ==
    \A c \in Commands :
        command[c] = "out" =>
            \E i \in 0 .. Cardinality(Commands) + 2 * Cardinality(Samplers) : Place(c, i)

\* The way of a command is no longer than all commands and two polls of each
\* loop: as many steps as CommandsMoveUp takes it through.
THEOREM CommandsHavePlace == Spec => []Placed
<1>1. ASSUME TypeOK, OneEach, NobodyForgotten, NEW c \in Commands, command[c] = "out"
      PROVE  \E i \in 0 .. Cardinality(Commands) + 2 * Cardinality(Samplers) : Place(c, i)
  <2>1. /\ Cardinality(Commands) \in Nat /\ Cardinality(Samplers) \in Nat
        /\ Cardinality({d \in Commands : Waiting(d)}) \in Nat
        /\ Cardinality({d \in Commands : Waiting(d)}) <= Cardinality(Commands)
    BY FS_CardinalityType, FS_Subset, GatewayAssumption DEF GatewayAssumption
  <2>2. DOMAIN queue = 1 .. Len(queue) /\ Len(queue) \in Nat
    BY <1>1 DEF TypeOK
  <2>3. Len(queue) <= Cardinality(Commands) + 2 * Cardinality(Samplers)
    BY <1>1, <2>1, <2>2, QueueInCrowd DEF Crowd
  <2>4. CASE \E i \in DOMAIN queue : queue[i].by = c
    <3>1. PICK i \in 1 .. Len(queue) : queue[i].by = c
      BY <2>2, <2>4
    <3>2. /\ i \in 0 .. Cardinality(Commands) + 2 * Cardinality(Samplers)
          /\ i # 0
      BY <2>1, <2>2, <2>3
    <3>3. Place(c, i)
      BY <2>2, <3>1, <3>2 DEF Place
    <3> QED
      BY <3>2, <3>3
  <2>5. CASE \E w \in Workers : hand[w] # NoJob /\ hand[w].by = c
    <3>1. 0 \in 0 .. Cardinality(Commands) + 2 * Cardinality(Samplers)
      BY <2>1
    <3>2. Place(c, 0)
      BY <2>5 DEF Place
    <3> QED
      BY <3>1, <3>2
  <2> QED
    BY <1>1, <2>4, <2>5 DEF NobodyForgotten, InClient
<1>2. TypeOK /\ OneEach /\ NobodyForgotten => Placed
  BY <1>1 DEF Placed
<1> QED
  BY <1>2, OneEachInvariance, AllRemembered, PTL

=============================================================================
