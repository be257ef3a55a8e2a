-------------------------- MODULE CompletionProofs --------------------------
(***************************************************************************)
(* Proofs about Completion for every capacity, every number of submitting  *)
(* threads and every job numbering: type correctness, delivery in order,   *)
(* that a claim inside the window never fails, and that the coordinator    *)
(* implements ReorderWindow.                                               *)
(***************************************************************************)
EXTENDS Completion, TLAPS

Active(s) == submitPc[s] # "idle"
Job(s) == submitJob[s].job
HasSlot(s) == submitPc[s] \in {"write", "payload", "publish"}
InsideWindow(job) == job >= nextJob /\ job < nextJob + Capacity
ResultOf(job) == [job |-> job, epoch |-> generation]

\* A thread inside submit carries a job of the current generation that lies
\* in the window, and no other thread carries the same.
SubmittersInv ==
  /\ \A s \in Submitters : Active(s) =>
       /\ submitJob[s] = ResultOf(Job(s))
       /\ Job(s) \in Jobs
       /\ InsideWindow(Job(s))
       /\ Job(s) \in submitted
       /\ popPc = "released" => Job(s) # nextJob
  /\ \A s, t \in Submitters :
       (Active(s) /\ Active(t) /\ Job(s) = Job(t)) => s = t

\* A thread that claimed a slot owns it, and has written what it says.
OwnersInv ==
  \A s \in Submitters : HasSlot(s) =>
    LET i == SlotOf(Job(s)) IN
    /\ slotState[i] = "WRITING"
    /\ submitPc[s] \in {"payload", "publish"} => slotJob[i] = Job(s)
    /\ submitPc[s] = "publish" => slotResult[i] = submitJob[s]

\* A slot in use belongs to a job of the window: one being written has its
\* owner, one that is ready holds the whole result of a job nobody submits.
SlotsInv ==
  \A i \in Slots :
    /\ slotState[i] = "WRITING" =>
         \E s \in Submitters : HasSlot(s) /\ SlotOf(Job(s)) = i
    /\ slotState[i] = "READY" =>
         /\ SlotOf(slotJob[i]) = i
         /\ slotJob[i] \in Jobs
         /\ InsideWindow(slotJob[i])
         /\ slotJob[i] \in submitted
         /\ slotResult[i] = ResultOf(slotJob[i])
         /\ \A s \in Submitters : Active(s) => Job(s) # slotJob[i]

\* Where pop is.
PopInv ==
  /\ popPc = "copied" => /\ slotState[SlotOf(nextJob)] = "READY"
                         /\ slotJob[SlotOf(nextJob)] = nextJob
  /\ popPc = "released" => slotState[SlotOf(nextJob)] = "EMPTY"
  /\ popPc # "idle" => /\ popped = [job |-> nextJob,
                                    result |-> ResultOf(nextJob)]
                       /\ nextJob \in Jobs
                       /\ nextJob \in submitted

\* What was handed out so far.
HistoryInv ==
  /\ nextJob = firstJob + Len(delivered)
  /\ DeliveredInOrder

IInv ==
  /\ TypeOK
  /\ SubmittersInv
  /\ OwnersInv
  /\ SlotsInv
  /\ PopInv
  /\ HistoryInv

-----------------------------------------------------------------------------
(* Arithmetic of the window. *)

\* A multiple of the capacity that is smaller than the capacity is zero.
LEMMA SmallMultiple ==
  ASSUME NEW q \in Int, -Capacity < q * Capacity, q * Capacity < Capacity
  PROVE  q = 0
<1>1. q >= 1 => q * Capacity >= Capacity
  BY CapacityAssumption
<1>2. q <= -1 => q * Capacity <= -Capacity
  BY CapacityAssumption
<1>3. QED
  BY <1>1, <1>2, CapacityAssumption

\* Every job has a slot.
LEMMA SlotOfInSlots == \A job \in Nat : SlotOf(job) \in Slots
BY CapacityAssumption DEF SlotOf, Slots

\* Two jobs of one window never share a slot.
LEMMA SlotsAreDistinct ==
  ASSUME NEW a \in Nat, NEW b \in Nat, NEW n \in Nat,
         a >= n, a < n + Capacity, b >= n, b < n + Capacity,
         SlotOf(a) = SlotOf(b)
  PROVE  a = b
<1>1. /\ a = Capacity * (a \div Capacity) + (a % Capacity)
      /\ b = Capacity * (b \div Capacity) + (b % Capacity)
      /\ a \div Capacity \in Int
      /\ b \div Capacity \in Int
  BY CapacityAssumption
<1> DEFINE q == (a \div Capacity) - (b \div Capacity)
<1>2. a % Capacity = b % Capacity
  BY DEF SlotOf
<1>3. q \in Int /\ a - b = q * Capacity
  BY <1>1, <1>2, CapacityAssumption
<1>4. -Capacity < a - b /\ a - b < Capacity
  BY CapacityAssumption
<1>5. q = 0
  BY <1>3, <1>4, SmallMultiple
<1>6. QED
  BY <1>3, <1>5, CapacityAssumption

-----------------------------------------------------------------------------
(* The inductive invariant. *)

\* Nobody else works in the slot of a thread's job.
LEMMA SlotsOfThreads ==
  ASSUME IInv, NEW s \in Submitters, NEW t \in Submitters,
         Active(s), Active(t), SlotOf(Job(s)) = SlotOf(Job(t))
  PROVE  s = t
<1>1. /\ Job(s) \in Nat /\ InsideWindow(Job(s))
      /\ Job(t) \in Nat /\ InsideWindow(Job(t))
      /\ nextJob \in Nat
  BY DEF IInv, SubmittersInv, TypeOK, Jobs
<1>2. Job(s) = Job(t)
  BY <1>1, SlotsAreDistinct DEF InsideWindow
<1>3. QED
  BY <1>2 DEF IInv, SubmittersInv

\* The slot a thread is about to claim is free.
LEMMA ClaimsFindRoom == IInv => ClaimsNeverCollide
<1> SUFFICES ASSUME IInv, NEW s \in Submitters, submitPc[s] = "claim"
             PROVE  slotState[SlotOf(Job(s))] = "EMPTY"
  BY DEF ClaimsNeverCollide, Job
<1> DEFINE i == SlotOf(Job(s))
<1>1. Active(s) /\ Job(s) \in Nat /\ InsideWindow(Job(s)) /\ nextJob \in Nat
  BY DEF IInv, SubmittersInv, TypeOK, Jobs, Active
<1>2. i \in Slots
  BY <1>1, SlotOfInSlots
<1>3. slotState[i] # "WRITING"
  <2> SUFFICES ASSUME slotState[i] = "WRITING" PROVE FALSE
    OBVIOUS
  <2>1. PICK t \in Submitters : HasSlot(t) /\ SlotOf(Job(t)) = i
    BY <1>2 DEF IInv, SlotsInv
  <2>2. s = t
    BY <1>1, <2>1, SlotsOfThreads DEF HasSlot, Active
  <2>3. QED
    BY <2>1, <2>2 DEF HasSlot
<1>4. slotState[i] # "READY"
  <2> SUFFICES ASSUME slotState[i] = "READY" PROVE FALSE
    OBVIOUS
  <2>1. /\ SlotOf(slotJob[i]) = i
        /\ slotJob[i] \in Nat
        /\ InsideWindow(slotJob[i])
        /\ Job(s) # slotJob[i]
    BY <1>1, <1>2 DEF IInv, SlotsInv, Jobs
  <2>2. QED
    BY <1>1, <2>1, SlotsAreDistinct DEF InsideWindow
<1>5. slotState[i] \in {"EMPTY", "WRITING", "READY"}
  BY <1>2 DEF IInv, TypeOK
<1>6. QED
  BY <1>3, <1>4, <1>5

\* A new coordinator satisfies the invariant.
LEMMA InitInvariant == Init => IInv
<1> SUFFICES ASSUME Init PROVE IInv
  OBVIOUS
<1> USE CapacityAssumption, BoundsAssumption, FirstJobsAssumption DEF Init
<1>1. TypeOK
  BY DEF TypeOK, Result, NoResult, Jobs
<1>2. SubmittersInv /\ OwnersInv /\ SlotsInv /\ PopInv
  BY DEF SubmittersInv, OwnersInv, SlotsInv, PopInv, Active, HasSlot
<1>3. HistoryInv
  BY DEF HistoryInv, DeliveredInOrder
<1>4. QED
  BY <1>1, <1>2, <1>3 DEF IInv

\* A refused result changes only the history.
LEMMA RefusedInvariant ==
  ASSUME IInv, NEW s \in Submitters, NEW job \in Jobs, NEW epoch,
         SubmitRefused(s, job, epoch)
  PROVE  IInv'
<1> USE DEF SubmitRefused, MayStart, slotVars, submitVars, popVars
<1>1. TypeOK'
  BY DEF IInv, TypeOK
<1>2. SubmittersInv' /\ OwnersInv' /\ SlotsInv' /\ PopInv'
  BY DEF IInv, SubmittersInv, OwnersInv, SlotsInv, PopInv, Active, HasSlot,
         Job, InsideWindow, ResultOf
<1>3. HistoryInv'
  BY DEF IInv, HistoryInv, DeliveredInOrder
<1>4. QED
  BY <1>1, <1>2, <1>3 DEF IInv

\* A thread that is let in carries a job nobody else submitted.
LEMMA BeginInvariant ==
  ASSUME IInv, NEW s \in Submitters, NEW job \in Jobs,
         NEW epoch \in 1 .. generation, SubmitBegin(s, job, epoch)
  PROVE  IInv'
<1> USE DEF SubmitBegin, MayStart, slotVars, popVars
<1>1. /\ submitPc' = [submitPc EXCEPT ![s] = "claim"]
      /\ submitJob' = [submitJob EXCEPT ![s] = ResultOf(job)]
      /\ submitPc[s] = "idle"
      /\ job \notin submitted
      /\ InsideWindow(job)
      /\ popPc = "released" => job # nextJob
  <2>1. popPc = "released" => nextJob \in submitted
    BY DEF IInv, PopInv
  <2>2. QED
    BY <2>1, CapacityAssumption, BoundsAssumption
       DEF InWindow, InsideWindow, ResultOf, IInv, TypeOK, Jobs
<1>2. TypeOK'
  BY <1>1, BoundsAssumption DEF IInv, TypeOK, Result, ResultOf
<1>3. SubmittersInv'
  BY <1>1 DEF IInv, TypeOK, SubmittersInv, Active, Job, InsideWindow, ResultOf
<1>4. OwnersInv'
  BY <1>1 DEF IInv, TypeOK, OwnersInv, HasSlot, Job
<1>5. SlotsInv'
  BY <1>1 DEF IInv, TypeOK, SlotsInv, Active, HasSlot, Job, InsideWindow,
              ResultOf
<1>6. PopInv' /\ HistoryInv'
  BY DEF IInv, PopInv, HistoryInv, DeliveredInOrder, ResultOf
<1>7. QED
  BY <1>2, <1>3, <1>4, <1>5, <1>6 DEF IInv

\* The compare-and-swap always succeeds and makes the thread the slot's owner.
LEMMA ClaimInvariant ==
  ASSUME IInv, NEW s \in Submitters, SubmitClaim(s)
  PROVE  IInv'
<1> DEFINE i == SlotOf(Job(s))
<1> USE DEF SubmitClaim, Advance, popVars
<1>1. /\ i \in Slots
      /\ slotState[i] = "EMPTY"
      /\ Active(s)
  BY ClaimsFindRoom, SlotOfInSlots
     DEF IInv, ClaimsNeverCollide, SubmittersInv, Active, Job, Jobs
<1>2. /\ slotState' = [slotState EXCEPT ![i] = "WRITING"]
      /\ submitPc' = [submitPc EXCEPT ![s] = "write"]
      /\ refused' = refused
  BY <1>1 DEF Job
<1>3. TypeOK'
  BY <1>1, <1>2 DEF IInv, TypeOK
<1>4. SubmittersInv'
  BY <1>1, <1>2 DEF IInv, TypeOK, SubmittersInv, Active, Job, InsideWindow,
                    ResultOf
<1>5. OwnersInv'
  <2>1. \A t \in Submitters : HasSlot(t) => SlotOf(Job(t)) \in Slots
    BY SlotOfInSlots DEF IInv, SubmittersInv, HasSlot, Active, Jobs
  <2>2. QED
    BY <1>1, <1>2, <2>1 DEF IInv, TypeOK, OwnersInv, HasSlot, Job
<1>6. SlotsInv'
  BY <1>1, <1>2 DEF IInv, TypeOK, SlotsInv, Active, HasSlot, Job,
                    InsideWindow, ResultOf
<1>7. PopInv'
  <2>1. CASE popPc = "copied"
    BY <1>1, <1>2, <2>1 DEF IInv, TypeOK, PopInv, ResultOf
  <2>2. CASE popPc = "released"
    <3>1. SlotOf(nextJob) # i
      <4>1. /\ nextJob \in Nat /\ Job(s) \in Nat
            /\ InsideWindow(nextJob) /\ InsideWindow(Job(s))
            /\ Job(s) # nextJob
        BY <1>1, <2>2, CapacityAssumption
           DEF IInv, TypeOK, SubmittersInv, InsideWindow, Jobs
      <4>2. QED
        BY <4>1, SlotsAreDistinct DEF InsideWindow
    <3>2. QED
      BY <1>1, <1>2, <2>2, <3>1 DEF IInv, TypeOK, PopInv, ResultOf
  <2>3. CASE popPc = "idle"
    BY <2>3 DEF PopInv
  <2>4. QED
    BY <2>1, <2>2, <2>3 DEF IInv, TypeOK
<1>8. HistoryInv'
  BY DEF IInv, HistoryInv, DeliveredInOrder
<1>9. QED
  BY <1>3, <1>4, <1>5, <1>6, <1>7, <1>8 DEF IInv

\* A thread that owns a slot is in submit, and no other owns the same slot.
LEMMA OwnersAreAlone ==
  ASSUME IInv, NEW s \in Submitters, HasSlot(s)
  PROVE  /\ SlotOf(Job(s)) \in Slots
         /\ slotState[SlotOf(Job(s))] = "WRITING"
         /\ \A t \in Submitters :
              (HasSlot(t) /\ SlotOf(Job(t)) = SlotOf(Job(s))) => t = s
<1>1. Active(s) /\ Job(s) \in Nat
  BY DEF IInv, SubmittersInv, HasSlot, Active, Jobs
<1>2. SlotOf(Job(s)) \in Slots
  BY <1>1, SlotOfInSlots
<1>3. slotState[SlotOf(Job(s))] = "WRITING"
  BY DEF IInv, OwnersInv
<1>4. QED
  BY <1>1, <1>2, <1>3, SlotsOfThreads DEF HasSlot, Active

\* The owner writes the job number of its slot.
LEMMA WriteJobInvariant ==
  ASSUME IInv, NEW s \in Submitters, SubmitWriteJob(s)
  PROVE  IInv'
<1> DEFINE i == SlotOf(Job(s))
<1> USE DEF SubmitWriteJob, Advance, popVars, history
<1>1. /\ i \in Slots
      /\ slotState[i] = "WRITING"
      /\ \A t \in Submitters : (HasSlot(t) /\ SlotOf(Job(t)) = i) => t = s
      /\ Job(s) \in Jobs
  BY OwnersAreAlone DEF HasSlot, IInv, SubmittersInv, Active
<1>2. /\ slotJob' = [slotJob EXCEPT ![i] = Job(s)]
      /\ submitPc' = [submitPc EXCEPT ![s] = "payload"]
      /\ submitPc[s] = "write"
  BY DEF Job
<1>3. TypeOK'
  <2>1. slotJob' \in [Slots -> Jobs \union {NoJob}]
    BY <1>1, <1>2 DEF IInv, TypeOK
  <2>2. submitPc' \in [Submitters ->
                        {"idle", "claim", "write", "payload", "publish"}]
    BY <1>2 DEF IInv, TypeOK
  <2>3. QED
    BY <2>1, <2>2 DEF IInv, TypeOK
<1>4. SubmittersInv'
  BY <1>2 DEF IInv, TypeOK, SubmittersInv, Active, Job, InsideWindow, ResultOf
<1>5. OwnersInv'
  BY <1>1, <1>2 DEF IInv, TypeOK, OwnersInv, HasSlot, Job
<1>6. SlotsInv'
  BY <1>1, <1>2 DEF IInv, TypeOK, SlotsInv, Active, HasSlot, Job,
                    InsideWindow, ResultOf
<1>7. PopInv' /\ HistoryInv'
  BY <1>1, <1>2 DEF IInv, TypeOK, PopInv, HistoryInv, DeliveredInOrder,
                    ResultOf
<1>8. QED
  BY <1>3, <1>4, <1>5, <1>6, <1>7 DEF IInv

\* The owner writes the payload of its slot.
LEMMA WriteResultInvariant ==
  ASSUME IInv, NEW s \in Submitters, SubmitWriteResult(s)
  PROVE  IInv'
<1> DEFINE i == SlotOf(Job(s))
<1> USE DEF SubmitWriteResult, Advance, popVars, history
<1>1. /\ i \in Slots
      /\ slotState[i] = "WRITING"
      /\ \A t \in Submitters : (HasSlot(t) /\ SlotOf(Job(t)) = i) => t = s
  BY OwnersAreAlone DEF HasSlot
<1>2. /\ slotResult' = [slotResult EXCEPT ![i] = submitJob[s]]
      /\ submitPc' = [submitPc EXCEPT ![s] = "publish"]
      /\ submitPc[s] = "payload"
  BY DEF Job
<1>3. TypeOK'
  <2>1. slotResult' \in [Slots -> Result]
    BY <1>1, <1>2 DEF IInv, TypeOK
  <2>2. submitPc' \in [Submitters ->
                        {"idle", "claim", "write", "payload", "publish"}]
    BY <1>2 DEF IInv, TypeOK
  <2>3. QED
    BY <2>1, <2>2 DEF IInv, TypeOK
<1>4. SubmittersInv'
  BY <1>2 DEF IInv, TypeOK, SubmittersInv, Active, Job, InsideWindow, ResultOf
<1>5. OwnersInv'
  BY <1>1, <1>2 DEF IInv, TypeOK, OwnersInv, HasSlot, Job
<1>6. SlotsInv'
  BY <1>1, <1>2 DEF IInv, TypeOK, SlotsInv, Active, HasSlot, Job,
                    InsideWindow, ResultOf
<1>7. PopInv' /\ HistoryInv'
  BY <1>1, <1>2 DEF IInv, TypeOK, PopInv, HistoryInv, DeliveredInOrder,
                    ResultOf
<1>8. QED
  BY <1>3, <1>4, <1>5, <1>6, <1>7 DEF IInv

\* The owner hands its slot, complete, to the main thread.
LEMMA PublishInvariant ==
  ASSUME IInv, NEW s \in Submitters, SubmitPublish(s)
  PROVE  IInv'
<1> DEFINE i == SlotOf(Job(s))
<1> USE DEF SubmitPublish, Advance, popVars, history
<1>1. /\ i \in Slots
      /\ slotState[i] = "WRITING"
      /\ \A t \in Submitters : (HasSlot(t) /\ SlotOf(Job(t)) = i) => t = s
      /\ slotJob[i] = Job(s)
      /\ slotResult[i] = ResultOf(Job(s))
      /\ Job(s) \in Jobs /\ Job(s) \in submitted /\ InsideWindow(Job(s))
      /\ \A t \in Submitters : (Active(t) /\ Job(t) = Job(s)) => t = s
  BY OwnersAreAlone DEF HasSlot, IInv, SubmittersInv, OwnersInv, Active
<1>2. /\ slotState' = [slotState EXCEPT ![i] = "READY"]
      /\ submitPc' = [submitPc EXCEPT ![s] = "idle"]
      /\ submitPc[s] = "publish"
  BY DEF Job
<1>3. TypeOK'
  <2>1. slotState' \in [Slots -> {"EMPTY", "WRITING", "READY"}]
    BY <1>1, <1>2 DEF IInv, TypeOK
  <2>2. submitPc' \in [Submitters ->
                        {"idle", "claim", "write", "payload", "publish"}]
    BY <1>2 DEF IInv, TypeOK
  <2>3. QED
    BY <2>1, <2>2 DEF IInv, TypeOK
<1>4. SubmittersInv'
  BY <1>2 DEF IInv, TypeOK, SubmittersInv, Active, Job, InsideWindow, ResultOf
<1>5. OwnersInv'
  BY <1>1, <1>2 DEF IInv, TypeOK, OwnersInv, HasSlot, Job
<1>6. SlotsInv'
  BY <1>1, <1>2 DEF IInv, TypeOK, SlotsInv, Active, HasSlot, Job,
                    InsideWindow, ResultOf
<1>7. PopInv' /\ HistoryInv'
  BY <1>1, <1>2 DEF IInv, TypeOK, PopInv, HistoryInv, DeliveredInOrder,
                    ResultOf
<1>8. QED
  BY <1>3, <1>4, <1>5, <1>6, <1>7 DEF IInv

\* The main thread copies the completion it is waiting for.
LEMMA PopCopyInvariant == IInv /\ PopCopy => IInv'
<1> SUFFICES ASSUME IInv, PopCopy PROVE IInv'
  OBVIOUS
<1> DEFINE i == SlotOf(nextJob)
<1> USE DEF PopCopy, PopReady, slotVars, submitVars, history
<1>1. /\ i \in Slots
      /\ slotJob[i] = nextJob
      /\ slotResult[i] = ResultOf(nextJob)
      /\ nextJob \in Jobs
      /\ nextJob \in submitted
  BY SlotOfInSlots DEF IInv, TypeOK, SlotsInv
<1>2. popped' = [job |-> nextJob, result |-> ResultOf(nextJob)]
  BY <1>1
<1>3. TypeOK'
  BY <1>1, <1>2 DEF IInv, TypeOK, Result, ResultOf
<1>4. SubmittersInv' /\ OwnersInv' /\ SlotsInv'
  BY DEF IInv, SubmittersInv, OwnersInv, SlotsInv, Active, HasSlot, Job,
         InsideWindow, ResultOf
<1>5. PopInv' /\ HistoryInv'
  BY <1>1, <1>2 DEF IInv, PopInv, HistoryInv, DeliveredInOrder, ResultOf
<1>6. QED
  BY <1>3, <1>4, <1>5 DEF IInv

\* The slot is given back; no thread inside submit carries the job it held.
LEMMA PopReleaseInvariant == IInv /\ PopRelease => IInv'
<1> SUFFICES ASSUME IInv, PopRelease PROVE IInv'
  OBVIOUS
<1> DEFINE i == SlotOf(nextJob)
<1> USE DEF PopRelease, submitVars, history
<1>1. /\ i \in Slots
      /\ slotState[i] = "READY"
      /\ \A s \in Submitters : Active(s) => Job(s) # nextJob
  BY SlotOfInSlots DEF IInv, TypeOK, PopInv, SlotsInv
<1>2. \A s \in Submitters : HasSlot(s) => SlotOf(Job(s)) # i
  BY <1>1 DEF IInv, OwnersInv
<1>3. TypeOK'
  BY <1>1 DEF IInv, TypeOK
<1>4. SubmittersInv'
  BY <1>1 DEF IInv, SubmittersInv, Active, Job, InsideWindow, ResultOf
<1>5. OwnersInv' /\ SlotsInv'
  BY <1>1, <1>2 DEF IInv, TypeOK, OwnersInv, SlotsInv, Active, HasSlot, Job,
                    InsideWindow, ResultOf
<1>6. PopInv' /\ HistoryInv'
  BY <1>1 DEF IInv, TypeOK, PopInv, HistoryInv, DeliveredInOrder, ResultOf
<1>7. QED
  BY <1>3, <1>4, <1>5, <1>6 DEF IInv

\* The window moves on; what is in use lies in it still.
LEMMA PopAdvanceInvariant == IInv /\ PopAdvance => IInv'
<1> SUFFICES ASSUME IInv, PopAdvance PROVE IInv'
  OBVIOUS
<1> USE DEF PopAdvance, slotVars, submitVars
<1>1. /\ nextJob \in Jobs
      /\ nextJob \in Nat
      /\ slotState[SlotOf(nextJob)] = "EMPTY"
      /\ popped = [job |-> nextJob, result |-> ResultOf(nextJob)]
      /\ delivered' = Append(delivered, popped)
  BY DEF IInv, TypeOK, PopInv
<1>2. TypeOK'
  <2>1. ResultOf(nextJob) \in Result
    BY <1>1 DEF IInv, TypeOK, Result, ResultOf
  <2>2. QED
    BY <1>1, <2>1 DEF IInv, TypeOK
<1>3. SubmittersInv'
  BY <1>1, CapacityAssumption, BoundsAssumption
     DEF IInv, SubmittersInv, Active, Job, InsideWindow, ResultOf, Jobs
<1>4. OwnersInv' /\ PopInv'
  BY DEF IInv, OwnersInv, PopInv, HasSlot, Job
<1>5. SlotsInv'
  BY <1>1, CapacityAssumption, BoundsAssumption
     DEF IInv, SlotsInv, Active, HasSlot, Job, InsideWindow, ResultOf, Jobs
<1>6. HistoryInv'
  <2>1. /\ delivered \in Seq([job : Jobs, result : Result])
        /\ firstJob \in Nat
        /\ nextJob = firstJob + Len(delivered)
    BY FirstJobsAssumption DEF IInv, TypeOK, HistoryInv
  <2>2. nextJob' = firstJob' + Len(delivered')
    BY <1>1, <2>1
  <2>3. DeliveredInOrder'
    BY <1>1, <2>1 DEF IInv, HistoryInv, DeliveredInOrder, ResultOf
  <2>4. QED
    BY <2>2, <2>3 DEF HistoryInv
<1>7. QED
  BY <1>2, <1>3, <1>4, <1>5, <1>6 DEF IInv

\* A reset, with nobody inside submit or pop, begins a new history.
LEMMA ResetInvariant ==
  ASSUME IInv, NEW first \in FirstJobs, Reset(first)
  PROVE  IInv'
<1> USE DEF Reset, submitVars, popVars
<1>1. TypeOK'
  <2>1. /\ first \in Nat
        /\ generation' \in 1 .. MaxGeneration
    BY FirstJobsAssumption, BoundsAssumption DEF IInv, TypeOK
  <2>2. /\ slotState' \in [Slots -> {"EMPTY", "WRITING", "READY"}]
        /\ delivered' \in Seq([job : Jobs, result : Result])
    OBVIOUS
  <2>3. QED
    BY <2>1, <2>2 DEF IInv, TypeOK
<1>2. SubmittersInv' /\ OwnersInv' /\ SlotsInv' /\ PopInv'
  BY DEF SubmittersInv, OwnersInv, SlotsInv, PopInv, Active, HasSlot
<1>3. HistoryInv'
  BY FirstJobsAssumption DEF HistoryInv, DeliveredInOrder
<1>4. QED
  BY <1>1, <1>2, <1>3 DEF IInv

\* Every step keeps the invariant.
LEMMA NextInvariant == IInv /\ [Next]_vars => IInv'
<1> SUFFICES ASSUME IInv, [Next]_vars PROVE IInv'
  OBVIOUS
<1>1. CASE \E s \in Submitters, job \in Jobs, epoch \in 1 .. generation :
             SubmitRefused(s, job, epoch) \/ SubmitBegin(s, job, epoch)
  BY <1>1, RefusedInvariant, BeginInvariant
<1>2. CASE \E s \in Submitters : SubmitStep(s)
  BY <1>2, ClaimInvariant, WriteJobInvariant, WriteResultInvariant,
     PublishInvariant DEF SubmitStep
<1>3. CASE Pop
  BY <1>3, PopCopyInvariant, PopReleaseInvariant, PopAdvanceInvariant DEF Pop
<1>4. CASE \E first \in FirstJobs : Reset(first)
  BY <1>4, ResetInvariant
<1>5. CASE UNCHANGED vars
  <2> USE <1>5 DEF vars, slotVars, submitVars, popVars, history
  <2>1. TypeOK'
    BY DEF IInv, TypeOK
  <2>2. SubmittersInv' /\ OwnersInv' /\ SlotsInv' /\ PopInv' /\ HistoryInv'
    BY DEF IInv, SubmittersInv, OwnersInv, SlotsInv, PopInv, HistoryInv,
           DeliveredInOrder, Active, HasSlot, Job, InsideWindow, ResultOf
  <2>3. QED
    BY <2>1, <2>2 DEF IInv
<1>6. QED
  BY <1>1, <1>2, <1>3, <1>4, <1>5 DEF Next

\* The invariant holds throughout.
LEMMA Invariance == Spec => []IInv
<1>1. Init => IInv
  BY InitInvariant
<1>2. IInv /\ [Next]_vars => IInv'
  BY NextInvariant
<1>3. QED
  BY <1>1, <1>2, PTL DEF Spec

-----------------------------------------------------------------------------
(* What the coordinator guarantees. *)

\* Every variable keeps its type.
THEOREM TypeCorrect == Spec => []TypeOK
<1>1. IInv => TypeOK
  BY DEF IInv
<1>2. QED
  BY <1>1, Invariance, PTL

\* rtnc_completion_pop hands results out in job order, each once, whole and of
\* the current generation, for every capacity and every set of submitters.
THEOREM DeliveredInOrderCorrect == Spec => []DeliveredInOrder
<1>1. IInv => DeliveredInOrder
  BY DEF IInv, HistoryInv
<1>2. QED
  BY <1>1, Invariance, PTL

\* The compare-and-swap of rtnc_completion_submit never fails inside the
\* window: "rejected" counts jobs outside it and nothing else.
THEOREM ClaimsNeverCollideCorrect == Spec => []ClaimsNeverCollide
<1>1. QED
  BY ClaimsFindRoom, Invariance, PTL

-----------------------------------------------------------------------------
(* The coordinator implements the reorder window. *)

\* A job is recorded while a thread submits it, while it waits in its slot and
\* until next_job_id has passed it.
InRecorded(job) ==
  \/ \E s \in Submitters : Active(s) /\ Job(s) = job
  \/ \E i \in Slots : slotState[i] = "READY" /\ slotJob[i] = job
  \/ popPc = "released" /\ job = nextJob

\* What the members of Recorded are, now and after a step.
LEMMA RecordedMembers ==
  /\ \A job : job \in Recorded <=> InRecorded(job)
  /\ \A job : (job \in Recorded)' <=> InRecorded(job)'
<1>1. \A job : job \in Recorded <=> InRecorded(job)
  BY DEF Recorded, InRecorded, Active, Job
<1>2. \A job : (job \in Recorded)' <=> InRecorded(job)'
  BY DEF Recorded, InRecorded, Active, Job
<1>3. QED
  BY <1>1, <1>2

\* The initial state of the coordinator is one of the window.
LEMMA InitOfWindow == Init => Window!Init
<1>1. ASSUME Init PROVE Recorded = {}
  BY <1>1, RecordedMembers DEF Init, InRecorded, Active, Slots
<1>2. QED
  BY <1>1 DEF Init, Window!Init, Window!Start

\* A result let in is recorded.
LEMMA BeginRecords ==
  ASSUME IInv, NEW s \in Submitters, NEW job \in Jobs,
         NEW epoch \in 1 .. generation, SubmitBegin(s, job, epoch)
  PROVE  Window!Record(job)
<1> USE DEF SubmitBegin, MayStart, slotVars, popVars
<1>1. job \notin Recorded
  BY RecordedMembers
     DEF IInv, SubmittersInv, SlotsInv, PopInv, InRecorded
<1>2. Window!InWindow(job)
  BY CapacityAssumption DEF IInv, TypeOK, InWindow, Window!InWindow, Jobs
<1>3. ASSUME NEW j PROVE InRecorded(j)' <=> InRecorded(j) \/ j = job
  BY DEF IInv, TypeOK, InRecorded, Active, Job
<1>4. Recorded' = Recorded \union {job}
  BY <1>3, RecordedMembers
<1>5. QED
  BY <1>1, <1>2, <1>4 DEF Window!Record

\* The later steps of submit change nothing the callers see.
LEMMA SubmitStutters ==
  ASSUME IInv, NEW s \in Submitters, SubmitStep(s)
  PROVE  UNCHANGED Window!windowVars
<1> USE DEF Advance, slotVars, submitVars, popVars, history
<1>1. ASSUME SubmitClaim(s), NEW j PROVE InRecorded(j)' <=> InRecorded(j)
  <2>1. slotState[SlotOf(Job(s))] = "EMPTY"
    BY <1>1, ClaimsFindRoom DEF SubmitClaim, ClaimsNeverCollide, Job
  <2>2. QED
    BY <1>1, <2>1
       DEF SubmitClaim, IInv, TypeOK, InRecorded, Active, Job
<1>2. ASSUME SubmitWriteJob(s), NEW j PROVE InRecorded(j)' <=> InRecorded(j)
  <2>1. slotState[SlotOf(Job(s))] = "WRITING"
    BY <1>2 DEF SubmitWriteJob, IInv, OwnersInv, HasSlot
  <2>2. QED
    BY <1>2, <2>1
       DEF SubmitWriteJob, IInv, TypeOK, InRecorded, Active, Job
<1>3. ASSUME SubmitWriteResult(s), NEW j
      PROVE  InRecorded(j)' <=> InRecorded(j)
  BY <1>3 DEF SubmitWriteResult, IInv, TypeOK, InRecorded, Active, Job
<1>4. ASSUME SubmitPublish(s), NEW j PROVE InRecorded(j)' <=> InRecorded(j)
  <2> DEFINE i == SlotOf(Job(s))
  <2>1. /\ i \in Slots
        /\ slotState[i] = "WRITING"
        /\ slotJob[i] = Job(s)
        /\ Active(s)
    BY <1>4, SlotOfInSlots
       DEF SubmitPublish, IInv, SubmittersInv, OwnersInv, HasSlot, Active, Jobs
  <2>2. \A t \in Submitters : Active(t)' <=> Active(t) /\ t # s
    BY <1>4 DEF SubmitPublish, IInv, TypeOK, Active
  <2>3. \A k \in Slots :
          (slotState[k] = "READY")' <=> slotState[k] = "READY" \/ k = i
    BY <1>4 DEF SubmitPublish, IInv, TypeOK, Job
  <2>4. QED
    BY <1>4, <2>1, <2>2, <2>3 DEF SubmitPublish, InRecorded, Job
<1>5. Recorded' = Recorded
  BY <1>1, <1>2, <1>3, <1>4, RecordedMembers DEF SubmitStep
<1>6. nextJob' = nextJob
  BY DEF SubmitStep, SubmitClaim, SubmitWriteJob, SubmitWriteResult,
         SubmitPublish
<1>7. QED
  BY <1>5, <1>6 DEF Window!windowVars

\* Pop delivers when it moves the window; its other steps are unseen.
LEMMA PopDelivers ==
  ASSUME IInv, Pop
  PROVE  Window!Deliver \/ UNCHANGED Window!windowVars
<1> USE DEF slotVars, submitVars, history
<1> DEFINE i == SlotOf(nextJob)
<1>1. CASE PopCopy
  <2>1. ASSUME NEW j PROVE InRecorded(j)' <=> InRecorded(j)
    BY <1>1 DEF PopCopy, InRecorded, Active, Job
  <2>2. QED
    BY <1>1, <2>1, RecordedMembers DEF PopCopy, Window!windowVars
<1>2. CASE PopRelease
  <2>1. /\ i \in Slots
        /\ slotState[i] = "READY"
        /\ slotJob[i] = nextJob
    BY <1>2, SlotOfInSlots DEF PopRelease, IInv, TypeOK, PopInv
  <2>2. ASSUME NEW j PROVE InRecorded(j)' <=> InRecorded(j)
    BY <1>2, <2>1 DEF PopRelease, IInv, TypeOK, InRecorded, Active, Job
  <2>3. QED
    BY <1>2, <2>2, RecordedMembers DEF PopRelease, Window!windowVars
<1>3. CASE PopAdvance
  <2>1. /\ \A s \in Submitters : Active(s) => Job(s) # nextJob
        /\ slotState[i] = "EMPTY"
    BY <1>3 DEF PopAdvance, IInv, SubmittersInv, PopInv
  <2>2. \A k \in Slots : slotState[k] = "READY" => slotJob[k] # nextJob
    BY <2>1 DEF IInv, SlotsInv
  <2>3. ASSUME NEW j PROVE InRecorded(j)' <=> InRecorded(j) /\ j # nextJob
    BY <1>3, <2>1, <2>2 DEF PopAdvance, InRecorded, Active, Job
  <2>4. Recorded' = Recorded \ {nextJob}
    BY <2>3, RecordedMembers
  <2>5. nextJob \in Recorded
    BY <1>3, RecordedMembers DEF PopAdvance, InRecorded
  <2>6. QED
    BY <1>3, <2>4, <2>5 DEF PopAdvance, Window!Deliver
<1>4. QED
  BY <1>1, <1>2, <1>3 DEF Pop

\* A step of the coordinator is a step of the window or unseen.
LEMMA StepOfWindow ==
  IInv /\ [Next]_vars => [Window!Next]_(Window!windowVars)
<1> SUFFICES ASSUME IInv, [Next]_vars
             PROVE  Window!Next \/ UNCHANGED Window!windowVars
  OBVIOUS
<1>1. ASSUME NEW s \in Submitters, NEW job \in Jobs,
             NEW epoch \in 1 .. generation, SubmitRefused(s, job, epoch)
      PROVE  UNCHANGED Window!windowVars
  <2>1. ASSUME NEW j PROVE InRecorded(j)' <=> InRecorded(j)
    BY <1>1 DEF SubmitRefused, slotVars, submitVars, popVars, InRecorded,
                Active, Job
  <2>2. QED
    BY <1>1, <2>1, RecordedMembers DEF SubmitRefused, Window!windowVars
<1>2. ASSUME NEW s \in Submitters, NEW job \in Jobs,
             NEW epoch \in 1 .. generation, SubmitBegin(s, job, epoch)
      PROVE  Window!Next
  BY <1>2, BeginRecords DEF Window!Next
<1>3. ASSUME NEW first \in FirstJobs, Reset(first) PROVE Window!Next
  <2>1. ASSUME NEW j PROVE ~InRecorded(j)'
    BY <1>3 DEF Reset, submitVars, popVars, InRecorded, Active
  <2>2. Recorded' = {}
    BY <2>1, RecordedMembers
  <2>3. QED
    BY <1>3, <2>2 DEF Reset, Window!Next, Window!Restart
<1>4. ASSUME UNCHANGED vars PROVE UNCHANGED Window!windowVars
  <2>1. ASSUME NEW j PROVE InRecorded(j)' <=> InRecorded(j)
    BY <1>4 DEF vars, slotVars, submitVars, popVars, InRecorded, Active, Job
  <2>2. QED
    BY <1>4, <2>1, RecordedMembers DEF vars, Window!windowVars
<1>5. QED
  BY <1>1, <1>2, <1>3, <1>4, SubmitStutters, PopDelivers DEF Next, Window!Next

\* The lock-free coordinator implements the reorder window its callers rely
\* on: a result is recorded once, when it is let in, and delivered in turn.
THEOREM CoordinatorImplementsWindow == Spec => ImplementsWindow
<1>1. Init => Window!Init
  BY InitOfWindow
<1>2. IInv /\ [Next]_vars => [Window!Next]_(Window!windowVars)
  BY StepOfWindow
<1>3. QED
  BY <1>1, <1>2, Invariance, PTL DEF Spec, ImplementsWindow, Window!Spec
=============================================================================
