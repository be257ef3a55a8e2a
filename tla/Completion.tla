----------------------------- MODULE Completion -----------------------------
(***************************************************************************)
(* The completion coordinator (completion.c): decoder threads and the main *)
(* thread submit the terminal result of each job, in any order and at the  *)
(* same time; the main thread pops the results in job order.  One step per *)
(* access to shared memory.                                                *)
(*                                                                         *)
(* The callers' side of the contract (completion.h) is part of the model:  *)
(* each job is submitted once per generation, by whichever thread ends up  *)
(* with it, and the coordinator is reset only while nobody uses it.        *)
(***************************************************************************)
EXTENDS Integers, Sequences

CONSTANTS
  Capacity,        \* slots of the reorder window
  Submitters,      \* threads that submit: both decoders and the main thread
  MaxJob,          \* bound of the model: the last job number
  MaxGeneration,   \* bound of the model: the last generation
  FirstJobs        \* job numbers an epoch may start from

ASSUME CapacityAssumption == Capacity \in Nat \ {0}
ASSUME SubmittersAssumption == Submitters # {}
ASSUME BoundsAssumption == MaxJob \in Nat /\ MaxGeneration \in Nat \ {0}
ASSUME FirstJobsAssumption == FirstJobs \subseteq Nat /\ FirstJobs # {}

VARIABLES
  slotState,       \* EMPTY, WRITING or READY, per slot
  slotJob,         \* job_id field of each slot
  slotResult,      \* payload of each slot, named by the result it came from
  nextJob,         \* next_job_id
  generation,
  submitPc,        \* where each submitter is in rtnc_completion_submit
  submitJob,       \* the result each submitter is submitting: its job and epoch
  popPc,           \* where the main thread is in rtnc_completion_pop
  popped,          \* the completion being copied out: job and result
  firstJob,        \* history: first job of the current generation
  submitted,       \* history: jobs submitted in the current generation
  refused,         \* history: jobs counted in rejected, this generation
  delivered        \* history: completions popped, this generation

slotVars == <<slotState, slotJob, slotResult>>
submitVars == <<submitPc, submitJob>>
popVars == <<popPc, popped>>
history == <<firstJob, submitted, refused, delivered>>
vars == <<slotVars, nextJob, generation, submitVars, popVars, history>>

Jobs == 0 .. MaxJob
Slots == 0 .. Capacity - 1
NoJob == -1

SlotOf(job) == job % Capacity

\* A terminal result is named by the job and the generation it belongs to.
NoResult == [job |-> NoJob, epoch |-> 0]

Init ==
  /\ firstJob \in FirstJobs
  /\ slotState = [i \in Slots |-> "EMPTY"]
  /\ slotJob = [i \in Slots |-> NoJob]
  /\ slotResult = [i \in Slots |-> NoResult]
  /\ nextJob = firstJob
  /\ generation = 1
  /\ submitPc = [s \in Submitters |-> "idle"]
  /\ submitJob = [s \in Submitters |-> NoResult]
  /\ popPc = "idle"
  /\ popped = [job |-> NoJob, result |-> NoResult]
  /\ submitted = {}
  /\ refused = {}
  /\ delivered = << >>

-----------------------------------------------------------------------------
(* rtnc_completion_submit *)

\* Mutant: a job one window ahead is let in.
InWindowTooWide(job) == job >= nextJob /\ job - nextJob <= Capacity

InWindow(job) == job >= nextJob /\ job - nextJob < Capacity

Advance(s, from, to) ==
  /\ submitPc[s] = from
  /\ submitPc' = [submitPc EXCEPT ![s] = to]

\* Mutant: results of an older generation are let in.
MayStartAnyEpoch(s, job, epoch) ==
  /\ submitPc[s] = "idle"
  /\ job \notin submitted

\* A result of an older generation returns false without a trace.
MayStart(s, job, epoch) ==
  /\ submitPc[s] = "idle"
  /\ job \notin submitted
  /\ epoch = generation

\* next_job_id is loaded and the job lies outside the window.
SubmitRefused(s, job, epoch) ==
  /\ MayStart(s, job, epoch)
  /\ ~InWindow(job)
  /\ submitted' = submitted \union {job}
  /\ refused' = refused \union {job}
  /\ UNCHANGED <<slotVars, nextJob, generation, submitVars, popVars,
                 firstJob, delivered>>

\* next_job_id is loaded and the job lies inside the window.
SubmitBegin(s, job, epoch) ==
  /\ MayStart(s, job, epoch)
  /\ InWindow(job)
  /\ submitPc' = [submitPc EXCEPT ![s] = "claim"]
  /\ submitJob' = [submitJob EXCEPT ![s] = [job |-> job, epoch |-> epoch]]
  /\ submitted' = submitted \union {job}
  /\ UNCHANGED <<slotVars, nextJob, generation, popVars,
                 firstJob, refused, delivered>>

\* The compare-and-swap EMPTY -> WRITING; if it fails, the result is rejected.
SubmitClaim(s) ==
  LET i == SlotOf(submitJob[s].job)
      free == slotState[i] = "EMPTY"
  IN
  /\ Advance(s, "claim", IF free THEN "write" ELSE "idle")
  /\ slotState' = IF free THEN [slotState EXCEPT ![i] = "WRITING"] ELSE slotState
  /\ refused' = IF free THEN refused ELSE refused \union {submitJob[s].job}
  /\ UNCHANGED <<slotJob, slotResult, nextJob, generation, submitJob, popVars,
                 firstJob, submitted, delivered>>

\* job_id and generation of the slot.
SubmitWriteJob(s) ==
  /\ Advance(s, "write", "payload")
  /\ slotJob' = [slotJob EXCEPT ![SlotOf(submitJob[s].job)] = submitJob[s].job]
  /\ UNCHANGED <<slotState, slotResult, nextJob, generation, submitJob,
                 popVars, history>>

\* success and payload of the slot.
SubmitWriteResult(s) ==
  /\ Advance(s, "payload", "publish")
  /\ slotResult' = [slotResult EXCEPT
                      ![SlotOf(submitJob[s].job)] = submitJob[s]]
  /\ UNCHANGED <<slotState, slotJob, nextJob, generation, submitJob, popVars,
                 history>>

\* Mutant: the slot never becomes READY.
SubmitUnpublished(s) ==
  /\ Advance(s, "publish", "idle")
  /\ UNCHANGED <<slotVars, nextJob, generation, submitJob, popVars, history>>

\* Release-store of READY.
SubmitPublish(s) ==
  /\ Advance(s, "publish", "idle")
  /\ slotState' = [slotState EXCEPT ![SlotOf(submitJob[s].job)] = "READY"]
  /\ UNCHANGED <<slotJob, slotResult, nextJob, generation, submitJob, popVars,
                 history>>

SubmitStep(s) ==
  \/ SubmitClaim(s)
  \/ SubmitWriteJob(s)
  \/ SubmitWriteResult(s)
  \/ SubmitPublish(s)

-----------------------------------------------------------------------------
(* rtnc_completion_pop; on any other slot state it returns false. *)

PopReady ==
  /\ slotState[SlotOf(nextJob)] = "READY"
  /\ slotJob[SlotOf(nextJob)] = nextJob

\* Copy of the completion out of the slot.
PopCopy ==
  /\ popPc = "idle"
  /\ PopReady
  /\ popped' = [job |-> slotJob[SlotOf(nextJob)],
                result |-> slotResult[SlotOf(nextJob)]]
  /\ popPc' = "copied"
  /\ UNCHANGED <<slotVars, nextJob, generation, submitVars, history>>

\* Mutant: the slot is not given back.
PopKeepsSlot ==
  /\ popPc = "copied"
  /\ popPc' = "released"
  /\ UNCHANGED <<slotVars, nextJob, generation, submitVars, popped, history>>

\* Release-store of EMPTY: the slot is free, the window has not moved yet.
PopRelease ==
  /\ popPc = "copied"
  /\ slotState' = [slotState EXCEPT ![SlotOf(nextJob)] = "EMPTY"]
  /\ popPc' = "released"
  /\ UNCHANGED <<slotJob, slotResult, nextJob, generation, submitVars, popped,
                 history>>

\* Release-store of next_job_id: pop returns true.
PopAdvance ==
  /\ popPc = "released"
  /\ nextJob' = nextJob + 1
  /\ delivered' = Append(delivered, popped)
  /\ popPc' = "idle"
  /\ UNCHANGED <<slotVars, generation, submitVars, popped,
                 firstJob, submitted, refused>>

Pop == PopCopy \/ PopRelease \/ PopAdvance

-----------------------------------------------------------------------------
\* rtnc_completion_reset: nobody is inside submit or pop.
Reset(first) ==
  /\ \A s \in Submitters : submitPc[s] = "idle"
  /\ popPc = "idle"
  /\ generation < MaxGeneration
  /\ slotState' = [i \in Slots |-> "EMPTY"]
  /\ nextJob' = first
  /\ generation' = generation + 1
  /\ firstJob' = first
  /\ submitted' = {}
  /\ refused' = {}
  /\ delivered' = << >>
  /\ UNCHANGED <<slotJob, slotResult, submitVars, popVars>>

Next ==
  \/ \E s \in Submitters, job \in Jobs, epoch \in 1 .. generation :
       SubmitRefused(s, job, epoch) \/ SubmitBegin(s, job, epoch)
  \/ \E s \in Submitters : SubmitStep(s)
  \/ Pop
  \/ \E first \in FirstJobs : Reset(first)

\* A thread inside submit goes on; the main thread keeps calling pop.
Fairness ==
  /\ \A s \in Submitters : WF_vars(SubmitStep(s))
  /\ WF_vars(Pop)

Spec == Init /\ [][Next]_vars /\ Fairness

-----------------------------------------------------------------------------
Result == [job : Jobs \union {NoJob}, epoch : 0 .. MaxGeneration]

\* Type invariant of the coordinator and of its callers' local state.
TypeOK ==
  /\ slotState \in [Slots -> {"EMPTY", "WRITING", "READY"}]
  /\ slotJob \in [Slots -> Jobs \union {NoJob}]
  /\ slotResult \in [Slots -> Result]
  /\ nextJob \in Nat
  /\ generation \in 1 .. MaxGeneration
  /\ submitPc \in [Submitters -> {"idle", "claim", "write", "payload", "publish"}]
  /\ submitJob \in [Submitters -> Result]
  /\ popPc \in {"idle", "copied", "released"}
  /\ popped \in [job : Jobs \union {NoJob}, result : Result]
  /\ popPc # "idle" => popped.job = nextJob
  /\ firstJob \in FirstJobs
  /\ submitted \subseteq Jobs
  /\ refused \subseteq submitted
  /\ delivered \in Seq([job : Jobs, result : Result])

\* Results come out in job order, each once, each whole and of the current
\* generation, whatever the order the decoder threads finished in
\* ("Pop only the next job in detection order", completion.h).
DeliveredInOrder ==
  \A k \in 1 .. Len(delivered) :
    LET job == firstJob + k - 1 IN
    delivered[k] = [job |-> job,
                    result |-> [job |-> job, epoch |-> generation]]

\* A job inside the window always finds its slot free: the compare-and-swap
\* in submit cannot fail while each job is submitted once, because pop frees
\* the slot before it moves the window.
ClaimsNeverCollide ==
  \A s \in Submitters :
    submitPc[s] = "claim" => slotState[SlotOf(submitJob[s].job)] = "EMPTY"

\* The window as its callers see it: results being written or waiting, and the
\* one whose slot is already free but whose job is still next_job_id.
Recorded ==
  {submitJob[s].job : s \in {t \in Submitters : submitPc[t] # "idle"}}
    \union {slotJob[i] : i \in {k \in Slots : slotState[k] = "READY"}}
    \union (IF popPc = "released" THEN {nextJob} ELSE {})

Window == INSTANCE ReorderWindow WITH next <- nextJob, recorded <- Recorded

\* The lock-free coordinator implements the reorder window.
ImplementsWindow == Window!Spec

\* A result that was let in is handed out once every job before it was let in
\* too; nothing else can hold it back.
LetInIsDelivered ==
  \A job \in Jobs :
    (\A j \in Jobs : j >= firstJob /\ j <= job => j \in submitted \ refused)
      ~> (job < nextJob \/ submitted = {})
=============================================================================
