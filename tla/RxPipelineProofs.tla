--------------------------- MODULE RxPipelineProofs ---------------------------
(***************************************************************************)
(* Proofs about RxPipeline for any queue lengths, with one decoder or two: *)
(* its type invariant, that every candidate is in exactly one place, that  *)
(* a refused result is a wall for everything behind it, and that the end   *)
(* leaves no candidate unanswered.                                         *)
(***************************************************************************)
EXTENDS RxPipeline, SequenceTheorems, TLAPS

Distinct(q) == \A k, l \in 1 .. Len(q) : k # l => q[k] # q[l]

\* A queue, or both of them, hold no candidate twice; a decoder has one at most.
QueuesInv ==
  /\ \A d \in Decoders : Distinct(queue[d])
  /\ InQueue(0) \intersect InQueue(1) = {}
  /\ decoding[0] \intersect decoding[1] = {}
  /\ \A d \in Decoders : \A a, b \in decoding[d] : a = b

\* EveryJobInOnePlace, place by place.
PlacesInv ==
  /\ \A job \in Jobs :
       job < sequence <=> \/ job \in Queued \/ job \in Busy \/ job \in RecordedJobs
                          \/ job < nextJob \/ job \in refused
  /\ \A job \in Queued : /\ job \notin Busy /\ job \notin RecordedJobs
                         /\ job \notin refused /\ nextJob <= job
  /\ \A job \in Busy : /\ job \notin RecordedJobs
                       /\ job \notin refused /\ nextJob <= job
  /\ \A job \in RecordedJobs : job \notin refused /\ nextJob <= job
  /\ \A job \in refused : nextJob <= job
  /\ \A a, b \in recorded : a.job = b.job => a = b

IInv ==
  /\ TypeOK
  /\ mainPc = "drop" => sequence < MaxJobs
  /\ \A k \in 1 .. Len(handedOut) : handedOut[k] < nextJob
  /\ QueuesInv
  /\ PlacesInv
-----------------------------------------------------------------------------
(* Queues as sets of candidates. *)

Elements(q) == {q[k] : k \in 1 .. Len(q)}

\* A candidate that is not yet in a queue is one more in it.
LEMMA QueueAppend ==
  ASSUME NEW S, NEW q \in Seq(S), NEW x \in S, Distinct(q), x \notin Elements(q)
  PROVE  /\ Append(q, x) \in Seq(S) /\ Len(Append(q, x)) = Len(q) + 1
         /\ Distinct(Append(q, x))
         /\ Elements(Append(q, x)) = Elements(q) \union {x}
<1>1. /\ Append(q, x) \in Seq(S) /\ Len(Append(q, x)) = Len(q) + 1 /\ Len(q) \in Nat
      /\ \A k \in 1 .. Len(q) : Append(q, x)[k] = q[k]
      /\ Append(q, x)[Len(q) + 1] = x
  BY AppendProperties
<1>2. \A k \in 1 .. Len(q) + 1 : k \in 1 .. Len(q) \/ k = Len(q) + 1
  BY <1>1
<1>3. Distinct(Append(q, x))
  BY <1>1, <1>2 DEF Distinct, Elements
<1>4. Elements(Append(q, x)) = Elements(q) \union {x}
  BY <1>1, <1>2 DEF Elements
<1>5. QED
  BY <1>1, <1>3, <1>4

\* The oldest candidate leaves a queue, and only it.
LEMMA QueueTail ==
  ASSUME NEW S, NEW q \in Seq(S), q # << >>, Distinct(q)
  PROVE  /\ Tail(q) \in Seq(S) /\ Len(Tail(q)) = Len(q) - 1 /\ Head(q) \in S
         /\ Distinct(Tail(q)) /\ Head(q) \in Elements(q)
         /\ Elements(Tail(q)) = Elements(q) \ {Head(q)}
<1>1. /\ Tail(q) \in Seq(S) /\ Len(Tail(q)) = Len(q) - 1 /\ Len(q) \in Nat \ {0}
      /\ Head(q) = q[1] /\ Head(q) \in S
      /\ \A k \in 1 .. Len(q) - 1 : Tail(q)[k] = q[k + 1] /\ k + 1 \in 1 .. Len(q)
  OBVIOUS
<1>2. \A k \in 1 .. Len(q) : k = 1 \/ k - 1 \in 1 .. Len(q) - 1
  BY <1>1
<1>3. Distinct(Tail(q))
  BY <1>1 DEF Distinct
<1>4. ASSUME NEW x
      PROVE  x \in Elements(Tail(q)) <=> x \in Elements(q) /\ x # Head(q)
  <2>1. ASSUME x \in Elements(Tail(q))
        PROVE  x \in Elements(q) /\ x # Head(q)
    <3>1. PICK k \in 1 .. Len(q) - 1 : x = q[k + 1]
      BY <1>1, <2>1 DEF Elements
    <3>2. k + 1 \in 1 .. Len(q) /\ k + 1 # 1 /\ 1 \in 1 .. Len(q)
      BY <1>1
    <3>3. QED
      BY <1>1, <3>1, <3>2 DEF Distinct, Elements
  <2>2. ASSUME x \in Elements(q), x # Head(q)
        PROVE  x \in Elements(Tail(q))
    <3>1. PICK k \in 1 .. Len(q) : x = q[k]
      BY <2>2 DEF Elements
    <3>2. k - 1 \in 1 .. Len(q) - 1 /\ Tail(q)[k - 1] = q[k]
      BY <1>1, <1>2, <2>2, <3>1
    <3>3. QED
      BY <1>1, <3>1, <3>2 DEF Elements
  <2>3. QED
    BY <2>1, <2>2
<1>5. Head(q) \in Elements(q)
  BY <1>1 DEF Elements
<1>6. QED
  BY <1>1, <1>3, <1>4, <1>5

\* What a call of rtnc_completion_submit does.
LEMMA SubmitEnds ==
  ASSUME NEW job, NEW success, Submit(job, success)
  PROVE  /\ nextJob' = nextJob
         /\ \/ /\ recorded' = recorded \union {[job |-> job, success |-> success]}
               /\ RecordedJobs' = RecordedJobs \union {job} /\ refused' = refused
            \/ /\ recorded' = recorded /\ RecordedJobs' = RecordedJobs
               /\ refused' = refused \union {job}
<1>1. CASE recorded' = recorded \union {[job |-> job, success |-> success]}
  <2>1. \A x : x \in RecordedJobs' <=> x \in RecordedJobs \/ x = job
    <3> DEFINE new == [job |-> job, success |-> success]
    <3>1. new.job = job
      OBVIOUS
    <3>2. \A x : x \in RecordedJobs' <=> \E result \in recorded \union {new} : x = result.job
      BY <1>1 DEF RecordedJobs
    <3>3. \A x : x \in RecordedJobs <=> \E result \in recorded : x = result.job
      BY DEF RecordedJobs
    <3> HIDE DEF new
    <3>4. QED
      BY <3>1, <3>2, <3>3
  <2>2. CASE job - nextJob < WindowCapacity
    BY <1>1, <2>1, <2>2 DEF Submit
  <2>3. CASE ~(job - nextJob < WindowCapacity)
    BY <2>3 DEF Submit, RecordedJobs
  <2>4. QED
    BY <2>2, <2>3
<1>2. CASE ~(job - nextJob < WindowCapacity)
  BY <1>2 DEF Submit, RecordedJobs
<1>3. QED
  BY <1>1, <1>2 DEF Submit

-----------------------------------------------------------------------------
(* The inductive invariant. *)

\* Nothing is anywhere at the start.
LEMMA InitInvariant == Init => IInv
<1> SUFFICES ASSUME Init PROVE IInv
  OBVIOUS
<1> USE DEF Init, Decoders
<1>1. \A d \in Decoders : QueueCapacity(d) \in Nat
  BY CapacityAssumption DEF QueueCapacity
<1>2. TypeOK
  BY <1>1, MaxJobsAssumption DEF TypeOK, Jobs, Started, NoJobYet
<1>3. Queued = {} /\ Busy = {} /\ RecordedJobs = {}
  BY DEF Queued, InQueue, Busy, RecordedJobs, NoJobYet
<1>4. QueuesInv
  BY DEF QueuesInv, Distinct, InQueue, NoJobYet
<1>5. PlacesInv
  BY <1>3, MaxJobsAssumption DEF PlacesInv, Jobs
<1>6. QED
  BY <1>2, <1>4, <1>5 DEF IInv

\* The step leaves the queues and the decoders alone.
LEMMA QueuesStay ==
  ASSUME QueuesInv, queue' = queue, decoding' = decoding
  PROVE  QueuesInv'
<1>1. \A d \in Decoders : Distinct(queue'[d])
  BY DEF QueuesInv
<1>2. InQueue(0)' = InQueue(0) /\ InQueue(1)' = InQueue(1)
  BY DEF InQueue
<1>3. QED
  BY <1>1, <1>2 DEF QueuesInv, Distinct

\* The step leaves every candidate where it is.
StaysPut == UNCHANGED <<sequence, queue, decoding, coordinator, handedOut>>

LEMMA PlacesStay ==
  ASSUME IInv, StaysPut
  PROVE  /\ QueuesInv' /\ PlacesInv'
         /\ \A k \in 1 .. Len(handedOut') : handedOut'[k] < nextJob'
BY DEF IInv, StaysPut, QueuesInv, PlacesInv, InQueue, Queued, Busy, RecordedJobs,
       Distinct, coordinator

\* A new candidate goes to the end of a queue.
LEMMA CandidateQueuedInvariant == IInv /\ CandidateQueued => IInv'
<1> SUFFICES ASSUME IInv, CandidateQueued PROVE IInv'
  OBVIOUS
<1> DEFINE d == TargetDecoder(sequence)
<1>0. d \in Decoders
  BY ParallelAssumption, MaxJobsAssumption
     DEF IInv, TypeOK, Jobs, TargetDecoder, Decoders
<1>1. /\ queue \in [Decoders -> Seq(Jobs)] /\ sequence \in Jobs /\ sequence \in Nat
      /\ sequence + 1 \in Jobs /\ Distinct(queue[d]) /\ nextJob \in Nat
  BY <1>0, MaxJobsAssumption DEF IInv, TypeOK, Jobs, QueuesInv, CandidateQueued
<1>2. /\ sequence \notin Queued /\ sequence \notin Busy /\ sequence \notin RecordedJobs
      /\ sequence \notin refused /\ nextJob <= sequence
  BY <1>1 DEF IInv, PlacesInv
<1>3. /\ queue' = [queue EXCEPT ![d] = Append(@, sequence)]
      /\ sequence' = sequence + 1 /\ Len(queue[d]) < QueueCapacity(d)
      /\ UNCHANGED <<decoding, running, exited, coordinator, handedOut, rxIdle>>
      /\ mainPc' = "pop"
  BY DEF CandidateQueued
<1>4. sequence \notin Elements(queue[d])
  BY <1>0, <1>2 DEF Queued, InQueue, Elements, Decoders
<1> HIDE DEF d
<1>5. /\ queue'[d] = Append(queue[d], sequence)
      /\ \A e \in Decoders \ {d} : queue'[e] = queue[e]
      /\ queue' \in [Decoders -> Seq(Jobs)] /\ Len(queue'[d]) = Len(queue[d]) + 1
      /\ Distinct(queue'[d])
      /\ Elements(queue'[d]) = Elements(queue[d]) \union {sequence}
  BY <1>0, <1>1, <1>3, <1>4, QueueAppend
<1>6. TypeOK'
  <2>1. \A e \in Decoders : Len(queue'[e]) <= QueueCapacity(e)
    BY <1>0, <1>1, <1>3, <1>5, CapacityAssumption
       DEF IInv, TypeOK, QueueCapacity, Decoders
  <2>2. QED
    BY <1>1, <1>3, <1>5, <2>1 DEF IInv, TypeOK, coordinator
<1>7. Queued' = Queued \union {sequence} /\ Busy' = Busy /\ RecordedJobs' = RecordedJobs
  <2>1. Queued = Elements(queue[0]) \union Elements(queue[1])
        /\ Queued' = Elements(queue'[0]) \union Elements(queue'[1])
    BY DEF Queued, InQueue, Elements
  <2>2. QED
    BY <1>0, <1>3, <1>5, <2>1 DEF Busy, RecordedJobs, coordinator, Decoders
<1>8. QueuesInv'
  <2>1. InQueue(0)' = Elements(queue'[0]) /\ InQueue(1)' = Elements(queue'[1])
        /\ InQueue(0) = Elements(queue[0]) /\ InQueue(1) = Elements(queue[1])
    BY DEF InQueue, Elements
  <2>2. \A e \in Decoders : Distinct(queue'[e])
    BY <1>5 DEF IInv, QueuesInv
  <2>3. (InQueue(0) \intersect InQueue(1))' = {}
    <3>1. InQueue(0) \intersect InQueue(1) = {}
          /\ sequence \notin InQueue(0) /\ sequence \notin InQueue(1)
      BY <1>2 DEF IInv, QueuesInv, Queued
    <3>2. CASE d = 0
      <4>1. queue'[1] = queue[1]
        BY <1>5, <3>2 DEF Decoders
      <4>2. InQueue(1)' = InQueue(1) /\ InQueue(0)' = InQueue(0) \union {sequence}
        BY <1>5, <2>1, <3>2, <4>1
      <4>3. QED
        BY <3>1, <4>2
    <3>3. CASE d = 1
      <4>1. queue'[0] = queue[0]
        BY <1>5, <3>3 DEF Decoders
      <4>2. InQueue(0)' = InQueue(0) /\ InQueue(1)' = InQueue(1) \union {sequence}
        BY <1>5, <2>1, <3>3, <4>1
      <4>3. QED
        BY <3>1, <4>2
    <3>4. QED
      BY <1>0, <3>2, <3>3 DEF Decoders
  <2>4. QED
    BY <1>3, <2>2, <2>3 DEF IInv, QueuesInv, Distinct
<1>9. PlacesInv'
  BY <1>1, <1>2, <1>3, <1>7 DEF IInv, PlacesInv, coordinator, Jobs
<1>10. QED
  BY <1>3, <1>6, <1>8, <1>9 DEF IInv, coordinator

\* A candidate that was dropped is answered, and nothing else.
LEMMA DropInvariant == IInv /\ DropSubmitted => IInv'
<1> SUFFICES ASSUME IInv, DropSubmitted PROVE IInv'
  OBVIOUS
<1>1. /\ sequence \in Nat /\ sequence \in Jobs /\ sequence + 1 \in Jobs /\ nextJob \in Nat
  BY MaxJobsAssumption DEF IInv, TypeOK, Jobs, DropSubmitted
<1>2. /\ sequence \notin Queued /\ sequence \notin Busy /\ sequence \notin RecordedJobs
      /\ sequence \notin refused /\ nextJob <= sequence
  BY <1>1 DEF IInv, PlacesInv
<1>3. /\ sequence' = sequence + 1 /\ mainPc' = "pop"
      /\ UNCHANGED <<queue, decoding, running, exited, handedOut, rxIdle>>
      /\ Submit(sequence, FALSE)
  BY DEF DropSubmitted, decoders
<1>4. /\ nextJob' = nextJob
      /\ \/ /\ recorded' = recorded \union {[job |-> sequence, success |-> FALSE]}
            /\ RecordedJobs' = RecordedJobs \union {sequence} /\ refused' = refused
         \/ /\ recorded' = recorded /\ RecordedJobs' = RecordedJobs
            /\ refused' = refused \union {sequence}
  BY <1>3, SubmitEnds
<1>5. TypeOK'
  <2>1. recorded' \subseteq [job : Jobs, success : BOOLEAN]
    <3>1. [job |-> sequence, success |-> FALSE] \in [job : Jobs, success : BOOLEAN]
      BY <1>1
    <3>2. recorded \subseteq [job : Jobs, success : BOOLEAN]
      BY DEF IInv, TypeOK
    <3>3. QED
      BY <1>4, <3>1, <3>2
  <2>2. refused' \subseteq Jobs
    BY <1>1, <1>4 DEF IInv, TypeOK
  <2>3. nextJob' \in Jobs /\ sequence' \in Jobs
    BY <1>1, <1>3, <1>4 DEF IInv, TypeOK
  <2>4. QED
    BY <1>3, <2>1, <2>2, <2>3 DEF IInv, TypeOK
<1>6. Queued' = Queued /\ Busy' = Busy
  BY <1>3 DEF Queued, InQueue, Busy
<1>7. QueuesInv'
  BY <1>3, QueuesStay DEF IInv
<1>8. PlacesInv'
  <2>1. \A a, b \in recorded' : a.job = b.job => a = b
    <3>1. \A a \in recorded : a.job # sequence
      BY <1>2 DEF RecordedJobs
    <3>2. \A a, b \in recorded : a.job = b.job => a = b
      BY DEF IInv, PlacesInv
    <3>3. [job |-> sequence, success |-> FALSE].job = sequence
      OBVIOUS
    <3>4. QED
      BY <1>4, <3>1, <3>2, <3>3
  <2>2. QED
    BY <1>1, <1>2, <1>3, <1>4, <1>6, <2>1 DEF IInv, PlacesInv, Jobs
<1>9. QED
  BY <1>3, <1>4, <1>5, <1>7, <1>8 DEF IInv

\* A decoder takes the oldest candidate of its queue.
LEMMA TakeJobInvariant == ASSUME NEW d \in Decoders PROVE IInv /\ TakeJob(d) => IInv'
<1> SUFFICES ASSUME IInv, TakeJob(d) PROVE IInv'
  OBVIOUS
<1> DEFINE job == Head(queue[d])
<1>1. /\ queue \in [Decoders -> Seq(Jobs)] /\ Distinct(queue[d])
      /\ decoding \in [Decoders -> SUBSET Jobs]
  BY DEF IInv, TypeOK, QueuesInv
<1>2. /\ queue[d] # << >> /\ decoding[d] = {}
      /\ decoding' = [decoding EXCEPT ![d] = {job}]
      /\ queue' = [queue EXCEPT ![d] = Tail(@)]
      /\ UNCHANGED <<mainPc, sequence, running, exited, coordinator, handedOut, rxIdle>>
  BY DEF TakeJob
<1> HIDE DEF job
<1>3. /\ queue'[d] = Tail(queue[d]) /\ \A e \in Decoders \ {d} : queue'[e] = queue[e]
      /\ queue' \in [Decoders -> Seq(Jobs)] /\ Len(queue'[d]) = Len(queue[d]) - 1
      /\ Distinct(queue'[d]) /\ job \in Jobs /\ job \in Elements(queue[d])
      /\ Elements(queue'[d]) = Elements(queue[d]) \ {job}
  BY <1>1, <1>2, QueueTail DEF job
<1>4. /\ decoding' \in [Decoders -> SUBSET Jobs]
      /\ decoding'[d] = {job} /\ \A e \in Decoders \ {d} : decoding'[e] = decoding[e]
  BY <1>1, <1>2, <1>3
<1>5. TypeOK'
  <2>1. \A e \in Decoders : Len(queue'[e]) <= QueueCapacity(e)
    <3>1. Len(queue[d]) <= QueueCapacity(d) /\ Len(queue[d]) \in Nat
          /\ QueueCapacity(d) \in Nat
      BY <1>1, CapacityAssumption DEF IInv, TypeOK, QueueCapacity
    <3>2. Len(queue'[d]) <= QueueCapacity(d)
      BY <1>3, <3>1
    <3>3. \A e \in Decoders \ {d} : Len(queue'[e]) <= QueueCapacity(e)
      BY <1>3 DEF IInv, TypeOK
    <3>4. QED
      BY <3>2, <3>3
  <2>2. QED
    BY <1>2, <1>3, <1>4, <2>1 DEF IInv, TypeOK, coordinator
<1>6. /\ InQueue(0) = Elements(queue[0]) /\ InQueue(1) = Elements(queue[1])
      /\ InQueue(0)' = Elements(queue'[0]) /\ InQueue(1)' = Elements(queue'[1])
  BY DEF InQueue, Elements
<1>7. /\ job \in Queued /\ job \notin Busy
      /\ Queued' = Queued \ {job} /\ Busy' = Busy \union {job}
      /\ RecordedJobs' = RecordedJobs
  <2>1. job \in Queued /\ job \notin Busy
    BY <1>3, <1>6 DEF Queued, Decoders, IInv, PlacesInv
  <2>2. RecordedJobs' = RecordedJobs
    BY <1>2 DEF RecordedJobs, coordinator
  <2>3. CASE d = 0
    <3>1. job \notin InQueue(1)
      BY <1>3, <1>6, <2>3 DEF IInv, QueuesInv
    <3>2. QED
      BY <1>2, <1>3, <1>4, <1>6, <2>1, <2>2, <2>3, <3>1 DEF Queued, Busy, Decoders
  <2>4. CASE d = 1
    <3>1. job \notin InQueue(0)
      BY <1>3, <1>6, <2>4 DEF IInv, QueuesInv
    <3>2. QED
      BY <1>2, <1>3, <1>4, <1>6, <2>1, <2>2, <2>4, <3>1 DEF Queued, Busy, Decoders
  <2>5. QED
    BY <2>3, <2>4 DEF Decoders
<1>8. QueuesInv'
  <2>1. \A e \in Decoders : Distinct(queue'[e])
    BY <1>3 DEF IInv, QueuesInv
  <2>2. (InQueue(0) \intersect InQueue(1))' = {}
    <3>1. InQueue(0)' \subseteq InQueue(0) /\ InQueue(1)' \subseteq InQueue(1)
      BY <1>3, <1>6 DEF Decoders
    <3>2. QED
      BY <3>1 DEF IInv, QueuesInv
  <2>3. decoding'[0] \intersect decoding'[1] = {}
    BY <1>4, <1>7 DEF IInv, QueuesInv, Busy, Decoders
  <2>4. \A e \in Decoders : \A a, b \in decoding'[e] : a = b
    BY <1>4 DEF IInv, QueuesInv
  <2>5. QED
    BY <2>1, <2>2, <2>3, <2>4 DEF QueuesInv, Distinct
<1>9. PlacesInv'
  BY <1>2, <1>3, <1>7 DEF IInv, PlacesInv, coordinator
<1>10. QED
  BY <1>2, <1>5, <1>8, <1>9 DEF IInv, coordinator

\* A decoder is done with its candidate and submits the result.
LEMMA FinishJobInvariant ==
  ASSUME NEW d \in Decoders PROVE IInv /\ FinishJob(d) => IInv'
<1> SUFFICES ASSUME IInv, FinishJob(d) PROVE IInv'
  OBVIOUS
<1>1. PICK job \in decoding[d], success \in BOOLEAN : Submit(job, success)
  BY DEF FinishJob
<1>2. /\ decoding' = [decoding EXCEPT ![d] = {}]
      /\ UNCHANGED <<mainPc, sequence, queue, running, exited, handedOut, rxIdle>>
  BY DEF FinishJob
<1>3. /\ decoding \in [Decoders -> SUBSET Jobs] /\ job \in Jobs
      /\ decoding[0] \intersect decoding[1] = {}
      /\ \A a \in decoding[d] : a = job
  BY <1>1 DEF IInv, TypeOK, QueuesInv
<1>4. /\ decoding' \in [Decoders -> SUBSET Jobs]
      /\ decoding'[d] = {} /\ \A e \in Decoders \ {d} : decoding'[e] = decoding[e]
  BY <1>2, <1>3
<1>5. /\ nextJob' = nextJob
      /\ \/ /\ recorded' = recorded \union {[job |-> job, success |-> success]}
            /\ RecordedJobs' = RecordedJobs \union {job} /\ refused' = refused
         \/ /\ recorded' = recorded /\ RecordedJobs' = RecordedJobs
            /\ refused' = refused \union {job}
  BY <1>1, SubmitEnds
<1>6. TypeOK'
  <2>1. recorded' \subseteq [job : Jobs, success : BOOLEAN]
    BY <1>3, <1>5 DEF IInv, TypeOK
  <2>2. refused' \subseteq Jobs
    BY <1>3, <1>5 DEF IInv, TypeOK
  <2>3. QED
    BY <1>2, <1>4, <1>5, <2>1, <2>2 DEF IInv, TypeOK
<1>7. job \in Busy /\ Busy' = Busy \ {job} /\ Queued' = Queued
  <2>1. Queued' = Queued
    BY <1>2 DEF Queued, InQueue
  <2>2. CASE d = 0
    <3>1. decoding'[1] = decoding[1] /\ decoding'[0] = {} /\ job \in decoding[0]
          /\ job \notin decoding[1] /\ decoding[0] = {job}
      BY <1>1, <1>3, <1>4, <2>2 DEF Decoders
    <3>2. QED
      BY <2>1, <3>1 DEF Busy
  <2>3. CASE d = 1
    <3>1. decoding'[0] = decoding[0] /\ decoding'[1] = {} /\ job \in decoding[1]
          /\ job \notin decoding[0] /\ decoding[1] = {job}
      BY <1>1, <1>3, <1>4, <2>3 DEF Decoders
    <3>2. QED
      BY <2>1, <3>1 DEF Busy
  <2>4. QED
    BY <2>2, <2>3 DEF Decoders
<1>8. QueuesInv'
  <2>1. queue' = queue
    BY <1>2
  <2>2. /\ \A e \in Decoders : Distinct(queue'[e])
        /\ InQueue(0)' \intersect InQueue(1)' = {}
    <3>1. InQueue(0)' = InQueue(0) /\ InQueue(1)' = InQueue(1)
      BY <2>1 DEF InQueue
    <3>2. QED
      BY <2>1, <3>1 DEF IInv, QueuesInv
  <2>3. \A e \in Decoders : decoding'[e] \subseteq decoding[e]
    BY <1>4
  <2>4. decoding'[0] \intersect decoding'[1] = {}
    BY <1>3, <2>3 DEF Decoders
  <2>5. \A e \in Decoders : \A a, b \in decoding'[e] : a = b
    BY <2>3 DEF IInv, QueuesInv
  <2>6. QED
    BY <2>2, <2>4, <2>5 DEF QueuesInv, Distinct
<1>9. PlacesInv'
  <2>1. job \notin RecordedJobs /\ job \notin refused /\ nextJob <= job
        /\ job \notin Queued
    BY <1>7 DEF IInv, PlacesInv
  <2>2. \A a, b \in recorded' : a.job = b.job => a = b
    <3>1. \A a \in recorded : a.job # job
      BY <2>1 DEF RecordedJobs
    <3>2. \A a, b \in recorded : a.job = b.job => a = b
      BY DEF IInv, PlacesInv
    <3>3. [job |-> job, success |-> success].job = job
      OBVIOUS
    <3>4. QED
      BY <1>5, <3>1, <3>2, <3>3
  <2>3. sequence' = sequence
    BY <1>2
  <2>4. QED
    BY <1>5, <1>7, <2>1, <2>2, <2>3 DEF IInv, PlacesInv
<1>10. QED
  BY <1>2, <1>5, <1>6, <1>8, <1>9 DEF IInv

\* The next candidate's result leaves the window.
LEMMA PopInvariant == IInv /\ PopCompletion => IInv'
<1> SUFFICES ASSUME IInv, PopCompletion PROVE IInv'
  OBVIOUS
<1>1. PICK result \in recorded :
        /\ result.job = nextJob
        /\ recorded' = recorded \ {result}
        /\ handedOut' = IF result.success /\ rxIdle
                          THEN Append(handedOut, nextJob) ELSE handedOut
  BY DEF PopCompletion
<1>2. /\ mainPc = "pop" /\ nextJob' = nextJob + 1
      /\ UNCHANGED <<mainPc, sequence, queue, decoding, running, exited, refused, rxIdle>>
  BY DEF PopCompletion, decoders
<1>3. nextJob \in Nat /\ nextJob \in Jobs /\ sequence \in Nat /\ sequence <= MaxJobs
      /\ Jobs \subseteq Nat
  BY MaxJobsAssumption DEF IInv, TypeOK, Jobs
<1>4. nextJob \in RecordedJobs
  BY <1>1 DEF RecordedJobs
<1>5. nextJob < sequence /\ nextJob + 1 \in Jobs
  BY <1>3, <1>4, MaxJobsAssumption DEF IInv, PlacesInv, Jobs
<1>6. \A x : x \in RecordedJobs' <=> x \in RecordedJobs /\ x # nextJob
  <2>1. \A a \in recorded : a.job = nextJob => a = result
    BY <1>1 DEF IInv, PlacesInv
  <2>2. QED
    BY <1>1, <2>1 DEF RecordedJobs
<1>7. Queued' = Queued /\ Busy' = Busy
  BY <1>2 DEF Queued, InQueue, Busy
<1>8. handedOut' \in Seq(Jobs) /\ \A k \in 1 .. Len(handedOut') : handedOut'[k] < nextJob'
  <2>0. handedOut \in Seq(Jobs) /\ \A k \in 1 .. Len(handedOut) :
                                      handedOut[k] \in Nat /\ handedOut[k] < nextJob
    <3>1. handedOut \in Seq(Jobs) /\ \A k \in 1 .. Len(handedOut) : handedOut[k] < nextJob
      BY DEF IInv, TypeOK
    <3>2. \A k \in 1 .. Len(handedOut) : handedOut[k] \in Jobs
      BY <3>1
    <3>3. QED
      BY <1>3, <3>1, <3>2
  <2>1. CASE handedOut' = handedOut
    BY <1>2, <1>3, <2>0, <2>1
  <2>2. CASE handedOut' = Append(handedOut, nextJob)
    <3>1. /\ Append(handedOut, nextJob) \in Seq(Jobs)
          /\ Len(Append(handedOut, nextJob)) = Len(handedOut) + 1
          /\ Append(handedOut, nextJob)[Len(handedOut) + 1] = nextJob
          /\ \A k \in 1 .. Len(handedOut) : Append(handedOut, nextJob)[k] = handedOut[k]
      BY <1>3, <2>0, AppendProperties
    <3>2. Len(handedOut) \in Nat
      BY <2>0
    <3>3. \A k \in 1 .. Len(handedOut) + 1 : k \in 1 .. Len(handedOut) \/ k = Len(handedOut) + 1
      BY <3>2
    <3>4. QED
      BY <1>2, <1>3, <2>0, <2>2, <3>1, <3>2, <3>3
  <2>3. QED
    BY <1>1, <2>1, <2>2
<1>9. TypeOK'
  BY <1>1, <1>2, <1>5, <1>8 DEF IInv, TypeOK
<1>10. QueuesInv'
  BY <1>2, QueuesStay DEF IInv
<1>11. PlacesInv'
  <2>1. /\ nextJob \notin Queued /\ nextJob \notin Busy /\ nextJob \notin refused
    BY <1>3, <1>4 DEF IInv, PlacesInv
  <2>2. \A a, b \in recorded' : a.job = b.job => a = b
    BY <1>1 DEF IInv, PlacesInv
  <2>3. \A job \in Jobs : job \in Nat /\ (job < nextJob + 1 <=> job < nextJob \/ job = nextJob)
    BY <1>3
  <2>4. /\ Queued \subseteq Jobs /\ Busy \subseteq Jobs /\ RecordedJobs \subseteq Jobs
        /\ refused \subseteq Jobs
    <3>1. Queued \subseteq Jobs
      BY DEF IInv, TypeOK, Queued, InQueue, Decoders
    <3>2. Busy \subseteq Jobs
      BY DEF IInv, TypeOK, Busy, Decoders
    <3>3. RecordedJobs \subseteq Jobs
      BY DEF IInv, TypeOK, RecordedJobs
    <3>4. QED
      BY <3>1, <3>2, <3>3 DEF IInv, TypeOK
  <2>5. sequence' = sequence /\ refused' = refused
    BY <1>2
  <2>6. \A job \in Jobs : nextJob <= job /\ job # nextJob => nextJob + 1 <= job
    BY <1>3
  <2>7. \A job \in Jobs :
          job < sequence <=> \/ job \in Queued \/ job \in Busy \/ job \in RecordedJobs
                             \/ job < nextJob \/ job \in refused
    BY DEF IInv, PlacesInv
  <2>8. (\A job \in Jobs :
          job < sequence <=> \/ job \in Queued \/ job \in Busy \/ job \in RecordedJobs
                             \/ job < nextJob \/ job \in refused)'
    BY <1>2, <1>3, <1>4, <1>6, <1>7, <2>3, <2>5, <2>7
  <2>9. QED
    BY <1>2, <1>6, <1>7, <2>1, <2>2, <2>4, <2>5, <2>6, <2>8 DEF IInv, PlacesInv
<1>12. QED
  BY <1>2, <1>8, <1>9, <1>10, <1>11 DEF IInv

\* The invariant is inductive.
LEMMA InductiveInvariant == IInv /\ [Next]_vars => IInv'
<1> SUFFICES ASSUME IInv, [Next]_vars PROVE IInv'
  OBVIOUS
<1>1. ASSUME StaysPut, TypeOK', (mainPc = "drop" => sequence < MaxJobs)'
      PROVE  IInv'
  BY <1>1, PlacesStay DEF IInv
<1>2. CASE CandidateQueued
  BY <1>2, CandidateQueuedInvariant
<1>3. CASE CandidateDropped
  BY <1>1, <1>3 DEF IInv, TypeOK, CandidateDropped, StaysPut, decoders, coordinator
<1>4. CASE DropSubmitted
  BY <1>4, DropInvariant
<1>5. CASE BlockWithoutCandidate
  BY <1>1, <1>5 DEF IInv, TypeOK, BlockWithoutCandidate, StaysPut, decoders, coordinator
<1>6. CASE PopCompletion
  BY <1>6, PopInvariant
<1>7. CASE PopNothing
  BY <1>1, <1>7 DEF IInv, TypeOK, PopNothing, StaysPut, decoders, coordinator
<1>8. CASE StopRequested
  BY <1>1, <1>8 DEF IInv, TypeOK, StopRequested, StaysPut, coordinator
<1>9. CASE Joined0
  BY <1>1, <1>9 DEF IInv, TypeOK, Joined0, StaysPut, coordinator
<1>10. CASE Joined1
  BY <1>1, <1>10 DEF IInv, TypeOK, Joined1, StaysPut, decoders, coordinator
<1>11. ASSUME NEW d \in Decoders, TakeJob(d) PROVE IInv'
  BY <1>11, TakeJobInvariant
<1>12. ASSUME NEW d \in Decoders, FinishJob(d) PROVE IInv'
  BY <1>12, FinishJobInvariant
<1>13. ASSUME NEW d \in Decoders, Exit(d) PROVE IInv'
  BY <1>1, <1>13 DEF IInv, TypeOK, Exit, StaysPut, coordinator
<1>14. CASE Transmitter
  BY <1>1, <1>14 DEF IInv, TypeOK, Transmitter, StaysPut, decoders, coordinator
<1>15. CASE UNCHANGED vars
  BY <1>1, <1>15 DEF IInv, TypeOK, StaysPut, vars, decoders, coordinator
<1>16. QED
  BY <1>2, <1>3, <1>4, <1>5, <1>6, <1>7, <1>8, <1>9, <1>10, <1>11, <1>12, <1>13,
     <1>14, <1>15 DEF Next, Main, Decoder

\* Every reachable state has the invariant.
LEMMA Invariance == Spec => []IInv
<1>1. QED
  BY InitInvariant, InductiveInvariant, PTL DEF Spec

-----------------------------------------------------------------------------
\* The type invariant: among others, the decode queues never hold more than
\* they are configured for.
THEOREM TypesHold == Spec => []TypeOK
<1>1. IInv => TypeOK
  BY DEF IInv
<1>2. QED
  BY <1>1, Invariance, PTL

\* Every candidate the detector cut is in exactly one place, with one result.
THEOREM EveryJobAnswered == Spec => []EveryJobInOnePlace
<1>1. IInv => EveryJobInOnePlace
  <2> SUFFICES ASSUME IInv PROVE EveryJobInOnePlace
    OBVIOUS
  <2> DEFINE popped == 0 .. nextJob - 1
             places == <<Queued, Busy, RecordedJobs, popped, refused>>
  <2>1. /\ Queued \subseteq Jobs /\ Busy \subseteq Jobs /\ RecordedJobs \subseteq Jobs
        /\ refused \subseteq Jobs /\ nextJob \in Jobs /\ sequence \in Jobs
    <3>1. Queued \subseteq Jobs
      BY DEF IInv, TypeOK, Queued, InQueue, Decoders
    <3>2. Busy \subseteq Jobs
      BY DEF IInv, TypeOK, Busy, Decoders
    <3>3. RecordedJobs \subseteq Jobs
      BY DEF IInv, TypeOK, RecordedJobs
    <3>4. QED
      BY <3>1, <3>2, <3>3 DEF IInv, TypeOK
  <2>2. popped \subseteq Jobs /\ \A job \in Jobs : job \in popped <=> job < nextJob
    BY <2>1, MaxJobsAssumption DEF Jobs
  <2>3. 0 .. sequence - 1 \subseteq Jobs
        /\ \A job \in Jobs : job \in 0 .. sequence - 1 <=> job < sequence
    BY <2>1, MaxJobsAssumption DEF Jobs
  <2> HIDE DEF popped
  <2>4. 0 .. sequence - 1 = Queued \union Busy \union RecordedJobs \union popped \union refused
    BY <2>1, <2>2, <2>3 DEF IInv, PlacesInv
  <2>5. \A job \in Jobs : nextJob <= job => job \notin popped
    BY <2>1, <2>2, MaxJobsAssumption DEF Jobs
  <2>6. /\ Queued \intersect Busy = {} /\ Queued \intersect RecordedJobs = {}
        /\ Queued \intersect popped = {} /\ Queued \intersect refused = {}
        /\ Busy \intersect RecordedJobs = {} /\ Busy \intersect popped = {}
        /\ Busy \intersect refused = {} /\ RecordedJobs \intersect popped = {}
        /\ RecordedJobs \intersect refused = {} /\ popped \intersect refused = {}
    BY <2>1, <2>5 DEF IInv, PlacesInv
  <2>7. /\ places[1] = Queued /\ places[2] = Busy /\ places[3] = RecordedJobs
        /\ places[4] = popped /\ places[5] = refused
    OBVIOUS
  <2> HIDE DEF places
  <2>8. 1 .. 5 = {1, 2, 3, 4, 5}
    OBVIOUS
  <2>9. 0 .. sequence - 1 = UNION {places[i] : i \in 1 .. 5}
    BY <2>4, <2>7, <2>8
  <2>10. \A i, j \in 1 .. 5 : i # j => places[i] \intersect places[j] = {}
    BY <2>6, <2>7, <2>8
  <2>11. QED
    BY <2>9, <2>10 DEF EveryJobInOnePlace, IInv, PlacesInv, places, popped
<1>2. QED
  BY <1>1, Invariance, PTL

\* Nothing at or above a refused candidate ever reaches reassembly.
THEOREM RefusedIsTheEnd == Spec => []RefusalIsAWall
<1>1. IInv => RefusalIsAWall
  <2> SUFFICES ASSUME IInv, NEW job \in refused
               PROVE  nextJob <= job /\ \A k \in 1 .. Len(handedOut) : handedOut[k] < job
    BY DEF RefusalIsAWall
  <2>1. nextJob \in Nat /\ job \in Nat /\ nextJob <= job
    BY MaxJobsAssumption DEF IInv, TypeOK, PlacesInv, Jobs
  <2>2. \A k \in 1 .. Len(handedOut) : handedOut[k] \in Nat /\ handedOut[k] < nextJob
    BY MaxJobsAssumption DEF IInv, TypeOK, Jobs
  <2>3. QED
    BY <2>1, <2>2
<1>2. QED
  BY <1>1, Invariance, PTL

-----------------------------------------------------------------------------
(* The end of the service. *)

\* A decoder leaves its loop with nothing in hand and nothing queued, the one
\* that runs only after it was told to, and the main thread waits for it.
ExitInv ==
  /\ \A d \in exited : queue[d] = << >> /\ decoding[d] = {}
  /\ \A d \in exited \intersect Started : ~running[d]
  /\ ~running[0] => mainPc \in {"join0", "join1", "done"}
  /\ ~running[1] => mainPc \in {"join1", "done"}
  /\ mainPc \in {"join1", "done"} => 0 \in exited
  /\ mainPc = "done" => 1 \in exited

\* No candidate is queued for a decoder that has left.
LEMMA CandidateQueuedExits == IInv /\ ExitInv /\ CandidateQueued => ExitInv'
<1> SUFFICES ASSUME IInv, ExitInv, CandidateQueued PROVE ExitInv'
  OBVIOUS
<1> DEFINE target == TargetDecoder(sequence)
<1>1. sequence \in Nat /\ queue \in [Decoders -> Seq(Jobs)] /\ exited \subseteq Decoders
  BY MaxJobsAssumption DEF IInv, TypeOK, Jobs
<1>2. target \in Started
  BY <1>1, ParallelAssumption DEF TargetDecoder, Started, Decoders
<1>3. running[0] /\ running[1] /\ mainPc = "scan"
  BY DEF CandidateQueued, ExitInv
<1>4. target \notin exited
  BY <1>2, <1>3 DEF ExitInv, Started, Decoders
<1> HIDE DEF target
<1>5. /\ queue' = [queue EXCEPT ![target] = Append(@, sequence)] /\ mainPc' = "pop"
      /\ UNCHANGED <<decoding, running, exited>>
  BY DEF CandidateQueued, target
<1>6. \A d \in exited : queue'[d] = queue[d]
  BY <1>1, <1>4, <1>5
<1>7. QED
  BY <1>3, <1>5, <1>6 DEF ExitInv, Started

\* The other steps of the main thread.
LEMMA MainExits == IInv /\ ExitInv /\ Main => ExitInv'
<1> SUFFICES ASSUME IInv, ExitInv, Main PROVE ExitInv'
  OBVIOUS
<1>1. running \in [Decoders -> BOOLEAN] /\ exited \subseteq Decoders
  BY DEF IInv, TypeOK
<1>2. CASE CandidateQueued
  BY <1>2, CandidateQueuedExits
<1>3. CASE \/ CandidateDropped \/ DropSubmitted \/ BlockWithoutCandidate
           \/ PopCompletion \/ PopNothing
  <2>1. UNCHANGED decoders /\ mainPc \in {"scan", "drop", "pop"}
    BY <1>3 DEF CandidateDropped, DropSubmitted, BlockWithoutCandidate,
                PopCompletion, PopNothing, decoders
  <2>2. UNCHANGED <<queue, decoding, running, exited>>
    BY <2>1 DEF decoders
  <2>3. mainPc' \in {"scan", "drop", "pop"}
    BY <1>3, <2>1 DEF CandidateDropped, DropSubmitted, BlockWithoutCandidate,
                PopCompletion, PopNothing
  <2>4. QED
    BY <2>1, <2>2, <2>3 DEF ExitInv
<1>4. CASE StopRequested
  BY <1>1, <1>4 DEF ExitInv, StopRequested, Decoders, Started
<1>5. CASE Joined0
  BY <1>1, <1>5 DEF ExitInv, Joined0, Decoders, Started
<1>6. CASE Joined1
  BY <1>6 DEF ExitInv, Joined1, decoders
<1>7. QED
  BY <1>2, <1>3, <1>4, <1>5, <1>6 DEF Main

\* A decoder takes from its queue while it is in its loop only.
LEMMA DecoderExits ==
  ASSUME IInv, ExitInv, NEW d \in Decoders, Decoder(d)
  PROVE  ExitInv'
<1>1. /\ queue \in [Decoders -> Seq(Jobs)] /\ decoding \in [Decoders -> SUBSET Jobs]
      /\ exited \subseteq Decoders
  BY DEF IInv, TypeOK
<1>2. CASE TakeJob(d)
  <2>1. \A e \in exited : queue'[e] = queue[e] /\ decoding'[e] = decoding[e]
    BY <1>1, <1>2 DEF TakeJob
  <2>2. QED
    BY <1>2, <2>1 DEF TakeJob, ExitInv
<1>3. CASE FinishJob(d)
  <2>1. \A e \in exited : decoding'[e] = {}
    BY <1>1, <1>3 DEF FinishJob, ExitInv
  <2>2. UNCHANGED <<mainPc, queue, running, exited>>
    BY <1>3 DEF FinishJob
  <2>3. QED
    BY <2>1, <2>2 DEF ExitInv
<1>4. CASE Exit(d)
  BY <1>4 DEF Exit, ExitInv
<1>5. QED
  BY <1>2, <1>3, <1>4 DEF Decoder

\* Every reachable state has it.
LEMMA ExitInvariance == Spec => []ExitInv
<1>1. Init => ExitInv
  BY ParallelAssumption DEF Init, ExitInv, Decoders, Started, NoJobYet
<1>2. IInv /\ ExitInv /\ [Next]_vars => ExitInv'
  <2>1. ExitInv /\ UNCHANGED vars => ExitInv'
    BY DEF ExitInv, vars, decoders
  <2>2. ExitInv /\ Transmitter => ExitInv'
    BY DEF ExitInv, Transmitter, decoders
  <2>3. QED
    BY <2>1, <2>2, MainExits, DecoderExits DEF Next
<1>3. QED
  BY <1>1, <1>2, Invariance, PTL DEF Spec

\* What ShutdownEnds promises of the end: every candidate has its result.
AllAnswered ==
  mainPc = "done" =>
    0 .. sequence - 1 = (0 .. nextJob - 1) \union RecordedJobs \union refused

\* When both decoders are joined every candidate was answered: popped, in the
\* window or refused by it (alsa_rx.c 172, 843-850).
THEOREM ShutdownAnswersAll == Spec => []AllAnswered
<1>1. IInv /\ ExitInv => AllAnswered
  <2> SUFFICES ASSUME IInv, ExitInv, mainPc = "done"
               PROVE  0 .. sequence - 1 = (0 .. nextJob - 1) \union RecordedJobs
                                                            \union refused
    BY DEF AllAnswered
  <2>1. \A d \in Decoders : queue[d] = << >> /\ decoding[d] = {}
    BY DEF ExitInv, Decoders
  <2>2. Queued = {} /\ Busy = {}
    <3>1. InQueue(0) = {} /\ InQueue(1) = {}
      BY <2>1 DEF InQueue, Decoders
    <3>2. QED
      BY <2>1, <3>1 DEF Queued, Busy, Decoders
  <2>3. /\ RecordedJobs \subseteq Jobs /\ refused \subseteq Jobs
        /\ nextJob \in Jobs /\ sequence \in Jobs
    BY DEF IInv, TypeOK, RecordedJobs
  <2>4. \A job \in Jobs :
          job < sequence <=> job \in RecordedJobs \/ job < nextJob \/ job \in refused
    BY <2>2 DEF IInv, PlacesInv
  <2> HIDE DEF RecordedJobs
  <2>5. 0 .. sequence - 1 \subseteq Jobs /\ 0 .. nextJob - 1 \subseteq Jobs
    BY <2>3, MaxJobsAssumption DEF Jobs
  <2>6. \A job \in Jobs : /\ job \in 0 .. sequence - 1 <=> job < sequence
                          /\ job \in 0 .. nextJob - 1 <=> job < nextJob
    BY <2>3, MaxJobsAssumption DEF Jobs
  <2>7. QED
    BY <2>3, <2>4, <2>5, <2>6
<1>2. QED
  BY <1>1, Invariance, ExitInvariance, PTL
=============================================================================
