----------------------------- MODULE RxPipeline -----------------------------
(***************************************************************************)
(* The receive side of the service (alsa_rx.c in packet mode): the main    *)
(* thread cuts the audio stream into numbered candidates and deals them to *)
(* two decoder threads by parity, each decoder submits one terminal result *)
(* per job to the completion coordinator, and the main thread pops the     *)
(* results in job order after each block of audio.  The transmit worker    *)
(* appears by the one thing this side reads of it, whether the runtime is  *)
(* in RX_IDLE (TxRuntime has the states behind it).                        *)
(*                                                                         *)
(* The decode queues are bounded FIFOs (SpscQueue implements BoundedFifo)  *)
(* and the coordinator is a reorder window (Completion implements          *)
(* ReorderWindow), so each call of theirs is one step here.                *)
(***************************************************************************)
EXTENDS Naturals, Sequences, FiniteSets

CONSTANTS
  DecodeCapacity,     \* workers.decode_queue_frames
  EqualizerCapacity,  \* workers.equalizer_queue_frames
  Parallel,           \* workers.parallel_equalizer
  MaxJobs             \* bound of the model: candidates the detector cuts

ASSUME CapacityAssumption ==
  DecodeCapacity \in Nat \ {0} /\ EqualizerCapacity \in Nat \ {0}
ASSUME ParallelAssumption == Parallel \in BOOLEAN
ASSUME MaxJobsAssumption == MaxJobs \in Nat

VARIABLES
  mainPc,      \* where the main thread is
  sequence,    \* number of the next candidate
  queue,       \* the decode queue of each decoder
  decoding,    \* the job each decoder is working on, as a set of at most one
  running,     \* the running flag of each decoder
  exited,      \* decoders that left their loop
  nextJob,     \* the coordinator's next_job_id
  recorded,    \* results in the reorder window: job and success
  refused,     \* jobs whose result the coordinator rejected
  handedOut,   \* jobs whose payload went on to reassembly, in order
  rxIdle       \* the runtime's state is RX_IDLE

coordinator == <<nextJob, recorded, refused>>
decoders == <<queue, decoding, running, exited>>
vars == <<mainPc, sequence, decoders, coordinator, handedOut, rxIdle>>

Decoders == {0, 1}
Started == IF Parallel THEN Decoders ELSE {0}
NoJobYet == {}

QueueCapacity(d) == IF d = 0 THEN DecodeCapacity ELSE EqualizerCapacity

\* rtnc_completion_init is given the sum of both queues, parallel or not.
WindowCapacity == DecodeCapacity + EqualizerCapacity

\* Even candidates to decoder 0, odd ones to decoder 1.
TargetDecoder(job) == IF Parallel THEN job % 2 ELSE 0

Init ==
  /\ mainPc = "scan"
  /\ sequence = 0
  /\ queue = [d \in Decoders |-> << >>]
  /\ decoding = [d \in Decoders |-> NoJobYet]
  /\ running = [d \in Decoders |-> TRUE]
  /\ exited = Decoders \ Started
  /\ nextJob = 0
  /\ recorded = {}
  /\ refused = {}
  /\ handedOut = << >>
  /\ rxIdle = TRUE

-----------------------------------------------------------------------------
(* rtnc_completion_submit; every caller ignores what it returns. *)

\* Mutant: a result outside the window is counted and kept all the same.
SubmitKeepsRefused(job, success) ==
  /\ recorded' = recorded \union {[job |-> job, success |-> success]}
  /\ refused' = IF job - nextJob < WindowCapacity THEN refused
                                                  ELSE refused \union {job}
  /\ UNCHANGED nextJob

Submit(job, success) ==
  IF job - nextJob < WindowCapacity
    THEN /\ recorded' = recorded \union {[job |-> job, success |-> success]}
         /\ UNCHANGED <<nextJob, refused>>
    ELSE /\ refused' = refused \union {job}
         /\ UNCHANGED <<nextJob, recorded>>

-----------------------------------------------------------------------------
(* The main loop. *)

\* The block's audio completes a candidate outside of a transmission and the
\* queue has room for it.  A candidate is far longer than a block, so a block
\* completes at most one.
CandidateQueued ==
  LET d == TargetDecoder(sequence) IN
  /\ mainPc = "scan"
  /\ rxIdle
  /\ sequence < MaxJobs
  /\ Len(queue[d]) < QueueCapacity(d)
  /\ queue' = [queue EXCEPT ![d] = Append(@, sequence)]
  /\ sequence' = sequence + 1
  /\ mainPc' = "pop"
  /\ UNCHANGED <<decoding, running, exited, coordinator, handedOut, rxIdle>>

\* A candidate is not queued: a transmission is pending or under way, or the
\* queue was full when the push looked (a decoder may take a job since).
CandidateDropped ==
  LET d == TargetDecoder(sequence) IN
  /\ mainPc = "scan"
  /\ sequence < MaxJobs
  /\ ~rxIdle \/ Len(queue[d]) >= QueueCapacity(d)
  /\ mainPc' = "drop"
  /\ UNCHANGED <<sequence, decoders, coordinator, handedOut, rxIdle>>

\* Mutant: a dropped candidate leaves no terminal result.
DropUnreported ==
  /\ mainPc = "drop"
  /\ sequence' = sequence + 1
  /\ mainPc' = "pop"
  /\ UNCHANGED <<decoders, coordinator, handedOut, rxIdle>>

\* A candidate that was not queued ends as a failure.
DropSubmitted ==
  /\ mainPc = "drop"
  /\ Submit(sequence, FALSE)
  /\ sequence' = sequence + 1
  /\ mainPc' = "pop"
  /\ UNCHANGED <<decoders, handedOut, rxIdle>>

\* A block without a candidate; completions are popped only between blocks.
BlockWithoutCandidate ==
  /\ mainPc = "scan"
  /\ mainPc' = "pop"
  /\ UNCHANGED <<sequence, decoders, coordinator, handedOut, rxIdle>>

\* Mutant: the test of the state is inverted.
PopWhileSending ==
  /\ mainPc = "pop"
  /\ \E result \in recorded :
       /\ result.job = nextJob
       /\ recorded' = recorded \ {result}
       /\ handedOut' = IF result.success /\ ~rxIdle
                         THEN Append(handedOut, nextJob) ELSE handedOut
  /\ nextJob' = nextJob + 1
  /\ UNCHANGED <<mainPc, sequence, decoders, refused, rxIdle>>

\* A decoded payload goes on to reassembly; rtnc_runtime_accept_fragment
\* rejects it in any state but RX_IDLE, and nobody offers it again.
PopCompletion ==
  /\ mainPc = "pop"
  /\ \E result \in recorded :
       /\ result.job = nextJob
       /\ recorded' = recorded \ {result}
       /\ handedOut' = IF result.success /\ rxIdle
                         THEN Append(handedOut, nextJob) ELSE handedOut
  /\ nextJob' = nextJob + 1
  /\ UNCHANGED <<mainPc, sequence, decoders, refused, rxIdle>>

PopNothing ==
  /\ mainPc = "pop"
  /\ \A result \in recorded : result.job # nextJob
  /\ mainPc' = "scan"
  /\ UNCHANGED <<sequence, decoders, coordinator, handedOut, rxIdle>>

\* The loop ends (a signal, or the run time is over): decoder 0 is told to
\* stop and joined, then decoder 1.
StopRequested ==
  /\ mainPc = "scan"
  /\ mainPc' = "join0"
  /\ running' = [running EXCEPT ![0] = FALSE]
  /\ UNCHANGED <<sequence, queue, decoding, exited, coordinator, handedOut, rxIdle>>

Joined0 ==
  /\ mainPc = "join0"
  /\ 0 \in exited
  /\ mainPc' = "join1"
  /\ running' = [running EXCEPT ![1] = FALSE]
  /\ UNCHANGED <<sequence, queue, decoding, exited, coordinator, handedOut, rxIdle>>

Joined1 ==
  /\ mainPc = "join1"
  /\ 1 \in exited
  /\ mainPc' = "done"
  /\ UNCHANGED <<sequence, decoders, coordinator, handedOut, rxIdle>>

Main ==
  \/ CandidateQueued \/ CandidateDropped \/ DropSubmitted
  \/ BlockWithoutCandidate \/ PopCompletion \/ PopNothing
  \/ StopRequested \/ Joined0 \/ Joined1

-----------------------------------------------------------------------------
(* decoder_thread_main *)

TakeJob(d) ==
  /\ d \notin exited
  /\ decoding[d] = {}
  /\ queue[d] # << >>
  /\ decoding' = [decoding EXCEPT ![d] = {Head(queue[d])}]
  /\ queue' = [queue EXCEPT ![d] = Tail(@)]
  /\ UNCHANGED <<mainPc, sequence, running, exited, coordinator, handedOut, rxIdle>>

\* Mutant: only a decoded payload is submitted.
FinishSilently(d) ==
  /\ \E job \in decoding[d], success \in BOOLEAN :
       IF success THEN Submit(job, TRUE) ELSE UNCHANGED coordinator
  /\ decoding' = [decoding EXCEPT ![d] = {}]
  /\ UNCHANGED <<mainPc, sequence, queue, running, exited, handedOut, rxIdle>>

\* rtnc_modem_rx_audio returned; the result is submitted either way.
FinishJob(d) ==
  /\ \E job \in decoding[d], success \in BOOLEAN : Submit(job, success)
  /\ decoding' = [decoding EXCEPT ![d] = {}]
  /\ UNCHANGED <<mainPc, sequence, queue, running, exited, handedOut, rxIdle>>

\* Mutant: the loop ends with the running flag alone.
ExitAtOnce(d) ==
  /\ d \notin exited
  /\ decoding[d] = {}
  /\ ~running[d]
  /\ exited' = exited \union {d}
  /\ UNCHANGED <<mainPc, sequence, queue, decoding, running, coordinator,
                 handedOut, rxIdle>>

\* while (running || depth > 0): the loop ends only on an empty queue.
Exit(d) ==
  /\ d \notin exited
  /\ decoding[d] = {}
  /\ ~running[d]
  /\ queue[d] = << >>
  /\ exited' = exited \union {d}
  /\ UNCHANGED <<mainPc, sequence, queue, decoding, running, coordinator,
                 handedOut, rxIdle>>

Decoder(d) == TakeJob(d) \/ FinishJob(d) \/ Exit(d)

-----------------------------------------------------------------------------
\* The transmit worker leaves RX_IDLE for a packet and comes back to it.
Transmitter ==
  /\ mainPc # "done"
  /\ rxIdle' = ~rxIdle
  /\ UNCHANGED <<mainPc, sequence, decoders, coordinator, handedOut>>

Next == Main \/ (\E d \in Decoders : Decoder(d)) \/ Transmitter

(***************************************************************************)
(* Decoders run whenever they can.  The main thread finishes what it       *)
(* started, and audio keeps coming, so blocks keep being processed;        *)
(* nothing forces a candidate into a block or anyone to stop the program.  *)
(***************************************************************************)
Fairness ==
  /\ \A d \in Decoders : WF_vars(TakeJob(d)) /\ WF_vars(FinishJob(d))
                         /\ WF_vars(Exit(d))
  /\ WF_vars(CandidateQueued \/ CandidateDropped \/ BlockWithoutCandidate)
  /\ WF_vars(PopCompletion) /\ WF_vars(PopNothing)
  /\ WF_vars(DropSubmitted) /\ WF_vars(Joined0) /\ WF_vars(Joined1)

Spec == Init /\ [][Next]_vars /\ Fairness

-----------------------------------------------------------------------------
Jobs == 0 .. MaxJobs

InQueue(d) == {queue[d][k] : k \in 1 .. Len(queue[d])}
Queued == InQueue(0) \union InQueue(1)
Busy == decoding[0] \union decoding[1]
RecordedJobs == {result.job : result \in recorded}

\* Type invariant; the decode queues never exceed their configured length.
TypeOK ==
  /\ mainPc \in {"scan", "drop", "pop", "join0", "join1", "done"}
  /\ sequence \in Jobs
  /\ queue \in [Decoders -> Seq(Jobs)]
  /\ \A d \in Decoders : Len(queue[d]) <= QueueCapacity(d)
  /\ decoding \in [Decoders -> SUBSET Jobs]
  /\ running \in [Decoders -> BOOLEAN]
  /\ exited \subseteq Decoders
  /\ nextJob \in Jobs
  /\ recorded \subseteq [job : Jobs, success : BOOLEAN]
  /\ refused \subseteq Jobs
  /\ handedOut \in Seq(Jobs)
  /\ rxIdle \in BOOLEAN

\* Every candidate is in exactly one place: with a decoder or on its way to
\* one, in the window, popped, or refused by the window; none is lost and none
\* has two results ("Submit exactly one terminal result", completion.h).
EveryJobInOnePlace ==
  LET places == <<Queued, Busy, RecordedJobs, 0 .. nextJob - 1, refused>>
  IN /\ 0 .. sequence - 1 = UNION {places[i] : i \in 1 .. 5}
     /\ \A i, j \in 1 .. 5 : i # j => places[i] \intersect places[j] = {}
     /\ \A a, b \in recorded : a.job = b.job => a = b

\* A refused result stops the window for good: nothing at or above the
\* smallest refused job ever reaches reassembly.
RefusalIsAWall ==
  \A job \in refused : nextJob <= job /\ \A k \in 1 .. Len(handedOut) :
                                            handedOut[k] < job

\* As long as no result was refused, every candidate gets through the window
\* while the service runs.
NothingStallsButRefusal ==
  \A job \in Jobs : (job < sequence) ~>
    (job < nextJob \/ refused # {} \/ mainPc \in {"join0", "join1", "done"})

\* A decoded frame gets to reassembly, unless the window was stopped by a
\* refusal, the service ends, or an own transmission stands against it: there
\* is no other way for it to be lost between decoder and reassembly.
OnlyTransmissionRejects ==
  \A job \in Jobs : ([job |-> job, success |-> TRUE] \in recorded) ~>
    (\/ \E k \in 1 .. Len(handedOut) : handedOut[k] = job
     \/ ~rxIdle \/ refused # {} \/ mainPc \in {"join0", "join1", "done"})

\* Shutdown ends: both joins return, with every job answered; a decoder drains
\* its queue before it ends.
ShutdownEnds ==
  (mainPc = "join0") ~>
    (/\ mainPc = "done"
     /\ 0 .. sequence - 1 = (0 .. nextJob - 1) \union RecordedJobs
                                               \union refused)

\* docs/fragmentation.md: "Queue drops are submitted as terminal failures so a
\* missing job cannot stall the reorder window": every candidate, queued or
\* dropped, gets through the window while the service runs.
MissingJobCannotStall ==
  \A job \in Jobs : (job < sequence) ~>
    (job < nextJob \/ mainPc \in {"join0", "join1", "done"})
=============================================================================
