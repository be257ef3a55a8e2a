------------------------------ MODULE TxRuntime ------------------------------
(***************************************************************************)
(* The transmit side of the service: packets queued by the main thread     *)
(* (rtnc_runtime_submit_packet), the worker thread that waits for the      *)
(* channel, keys the radio and sends one packet at a time (tx_worker_main, *)
(* rtnc_runtime_transmit_next), and the end of the program.                *)
(*                                                                         *)
(* The transmit queue is a bounded FIFO (SpscQueue implements BoundedFifo).*)
(* Time is counted in naps of the worker and kept relative: busyAge is     *)
(* now - busy_started_ms and slotLeft is next_persistence_slot_ms - now.   *)
(* Neither runs outside the naps: while a packet is on the air both are    *)
(* reset.  The sleeps of a transmission always succeed (they fail only on  *)
(* errors of nanosleep that its arguments exclude); setting the PTT line,  *)
(* sending and draining audio may fail.                                    *)
(***************************************************************************)
EXTENDS Integers, Sequences

CONSTANTS
  QueueCapacity,   \* runtime.tx_queue_packets
  BusyTimeout,     \* runtime.channel_busy_timeout_ms
  MaxSlot,         \* the longest KISS slot time
  MaxNap,          \* the longest time between two polls of the worker
  FragmentCounts,  \* fragments of the packets submitted
  MaxPackets       \* bound of the model: packets accepted

ASSUME TimeAssumption ==
  BusyTimeout \in Nat \ {0} /\ MaxSlot \in Nat /\ MaxNap \in Nat \ {0}
ASSUME QueueAssumption ==
  /\ QueueCapacity \in Nat \ {0}
  /\ FragmentCounts \subseteq Nat \ {0}
  /\ MaxPackets \in Nat

VARIABLES
  mainPc,       \* where the main thread is
  running,      \* worker->running
  accepted,     \* packets accepted so far; they are numbered from 1
  txQueue,      \* accepted packets, with their number of fragments
  persistence,  \* kiss_persistence: "always" (255) or "chance" (below)
  channelBusy,  \* the flag the burst detector's owner publishes
  workerPc,     \* where the worker is
  state,        \* rtnc_runtime_state_t
  ptt,          \* the level of the PTT line
  busyAge,      \* age of busy_started_ms, or NotTiming
  slotLeft,     \* time until the next persistence trial
  success,      \* the worker's local
  outcomes,     \* history: how each packet ended
  aired,        \* history: frames of the packet sent since the line was keyed
  blocked,      \* history: time since the channel was last found free
  releaseFailed \* history: the last release of the line failed

main == <<mainPc, running, accepted, persistence>>
timers == <<busyAge, slotLeft>>
history == <<aired, blocked, releaseFailed>>
vars == <<main, txQueue, channelBusy, workerPc, state, ptt, timers, success,
          outcomes, history>>

NotTiming == -1

\* A nap may have passed before the busy timer starts, and one is slept past
\* its end.
WaitBound == BusyTimeout + 2 * MaxNap

SmallerOf(a, b) == IF a < b THEN a ELSE b

Init ==
  /\ mainPc = "serve"
  /\ running = TRUE
  /\ accepted = 0
  /\ txQueue = << >>
  /\ persistence = "always"
  /\ channelBusy = FALSE
  /\ workerPc = "poll"
  /\ state = "RX_IDLE"
  /\ ptt = FALSE
  /\ busyAge = NotTiming
  /\ slotLeft = 0
  /\ success = TRUE
  /\ outcomes = << >>
  /\ aired = << >>
  /\ blocked = 0
  /\ releaseFailed = FALSE

-----------------------------------------------------------------------------
(* The main thread. *)

\* rtnc_runtime_submit_packet; a full queue refuses the packet.
SubmitPacket ==
  /\ mainPc = "serve"
  /\ accepted < MaxPackets
  /\ Len(txQueue) < QueueCapacity
  /\ \E fragments \in FragmentCounts :
       txQueue' = Append(txQueue, [id |-> accepted + 1,
                                   fragments |-> fragments])
  /\ accepted' = accepted + 1
  /\ UNCHANGED <<mainPc, running, persistence, channelBusy, workerPc, state,
                 ptt, timers, success, outcomes, history>>

\* KISS CMD_P.  (TXDELAY and TXTAIL only stretch sleeps; for SLOTTIME see
\* LoseTrial.)
SetPersistence ==
  /\ mainPc = "serve"
  /\ persistence' \in {"always", "chance"}
  /\ UNCHANGED <<mainPc, running, accepted, txQueue, channelBusy, workerPc,
                 state, ptt, timers, success, outcomes, history>>

\* A burst opens or closes.  The flag freezes when the main loop ends.
PublishChannel ==
  /\ mainPc = "serve"
  /\ channelBusy' = ~channelBusy
  /\ UNCHANGED <<main, txQueue, workerPc, state, ptt, timers, success,
                 outcomes, history>>

\* The loop ends, on a signal or on the time limit.
StopWorker ==
  /\ mainPc = "serve"
  /\ mainPc' = "join"
  /\ running' = FALSE
  /\ UNCHANGED <<accepted, txQueue, persistence, channelBusy, workerPc, state,
                 ptt, timers, success, outcomes, history>>

\* The worker is joined; the runtime and then the PTT line are torn down,
\* and each of the two drives the line inactive.
Deinit ==
  /\ mainPc = "join"
  /\ workerPc = "exited"
  /\ mainPc' = "done"
  /\ state' = "RX_IDLE"
  /\ \E released \in BOOLEAN : /\ ptt' = (ptt /\ ~released)
                               /\ releaseFailed' = ~released
  /\ UNCHANGED <<running, accepted, persistence, txQueue, channelBusy,
                 workerPc, timers, success, outcomes, aired, blocked>>

Main ==
  SubmitPacket \/ SetPersistence \/ PublishChannel \/ StopWorker \/ Deinit

-----------------------------------------------------------------------------
(* rtnc_runtime_transmit_next: channel access. *)

\* The packet at the head of the queue is discarded with an outcome.
EndPacket(status) ==
  /\ outcomes' = Append(outcomes,
                        [id |-> Head(txQueue).id, status |-> status])
  /\ txQueue' = Tail(txQueue)
  /\ aired' = << >>
  /\ blocked' = 0
  /\ workerPc' = "poll"

\* Mutant: the worker leaves as soon as it is told to.
WorkerExitAtOnce ==
  /\ workerPc = "poll"
  /\ ~running
  /\ workerPc' = "exited"
  /\ UNCHANGED <<main, txQueue, channelBusy, state, ptt, timers, success,
                 outcomes, history>>

\* while (running || depth > 0)
WorkerExit ==
  /\ workerPc = "poll"
  /\ ~running
  /\ txQueue = << >>
  /\ workerPc' = "exited"
  /\ UNCHANGED <<main, txQueue, channelBusy, state, ptt, timers, success,
                 outcomes, history>>

PollNothing ==
  /\ workerPc = "poll"
  /\ running
  /\ txQueue = << >>
  /\ busyAge' = NotTiming
  /\ workerPc' = "idle"
  /\ UNCHANGED <<main, txQueue, channelBusy, state, ptt, slotLeft, success,
                 outcomes, history>>

\* Mutant: every poll restarts the timer.
PollBusyRestarts ==
  /\ workerPc = "poll"
  /\ txQueue # << >>
  /\ channelBusy
  /\ state' = "TX_WAIT_BUSY"
  /\ busyAge' = 0
  /\ workerPc' = IF busyAge' < BusyTimeout THEN "nap" ELSE "timeout"
  /\ UNCHANGED <<main, txQueue, channelBusy, ptt, slotLeft, success, outcomes,
                 history>>

\* The channel is busy: the first such poll starts the timer.
PollBusy ==
  /\ workerPc = "poll"
  /\ txQueue # << >>
  /\ channelBusy
  /\ state' = "TX_WAIT_BUSY"
  /\ busyAge' = IF busyAge = NotTiming THEN 0 ELSE busyAge
  /\ workerPc' = IF busyAge' < BusyTimeout THEN "nap" ELSE "timeout"
  /\ UNCHANGED <<main, txQueue, channelBusy, ptt, slotLeft, success, outcomes,
                 history>>

\* The packet has waited too long: it is discarded.
TimeOut ==
  /\ workerPc = "timeout"
  /\ EndPacket("TX_TIMEOUT")
  /\ busyAge' = NotTiming
  /\ state' = "RX_IDLE"
  /\ UNCHANGED <<main, channelBusy, ptt, slotLeft, success, releaseFailed>>

\* Mutant: a free channel does not stop the timer.
PollFreeKeepsTimer ==
  /\ workerPc = "poll"
  /\ txQueue # << >>
  /\ ~channelBusy
  /\ blocked' = 0
  /\ workerPc' = "trial"
  /\ UNCHANGED <<main, txQueue, channelBusy, state, ptt, timers, success,
                 outcomes, aired, releaseFailed>>

PollFree ==
  /\ workerPc = "poll"
  /\ txQueue # << >>
  /\ ~channelBusy
  /\ busyAge' = NotTiming
  /\ blocked' = 0
  /\ workerPc' = "trial"
  /\ UNCHANGED <<main, txQueue, channelBusy, state, ptt, slotLeft, success,
                 outcomes, aired, releaseFailed>>

SlotNotDue ==
  /\ workerPc = "trial"
  /\ slotLeft > 0
  /\ workerPc' = "nap"
  /\ UNCHANGED <<main, txQueue, channelBusy, state, ptt, timers, success,
                 outcomes, history>>

\* The slot time is whatever KISS SLOTTIME last set.
LoseTrial ==
  /\ workerPc = "trial"
  /\ slotLeft = 0
  /\ persistence = "chance"
  /\ slotLeft' \in 0 .. MaxSlot
  /\ workerPc' = "nap"
  /\ UNCHANGED <<main, txQueue, channelBusy, state, ptt, busyAge, success,
                 outcomes, history>>

WinTrial ==
  /\ workerPc = "trial"
  /\ slotLeft = 0
  /\ state' = "TX_KEYING"
  /\ workerPc' = "key"
  /\ UNCHANGED <<main, txQueue, channelBusy, ptt, timers, success, outcomes,
                 history>>

\* The worker's nanosleep after BUSY ("nap") or IDLE ("idle").
Nap ==
  /\ workerPc \in {"nap", "idle"}
  /\ \E time \in 1 .. MaxNap :
       /\ busyAge' = IF busyAge = NotTiming
                       THEN NotTiming
                       ELSE SmallerOf(busyAge + time, BusyTimeout)
       /\ slotLeft' = IF slotLeft > time THEN slotLeft - time ELSE 0
       /\ IF workerPc = "nap"
            THEN blocked' = SmallerOf(blocked + time, WaitBound)
            ELSE UNCHANGED blocked
  /\ workerPc' = "poll"
  /\ UNCHANGED <<main, txQueue, channelBusy, state, ptt, success, outcomes,
                 aired, releaseFailed>>

-----------------------------------------------------------------------------
(* rtnc_runtime_transmit_next: on the air. *)

\* The line is keyed.
KeyPtt ==
  /\ workerPc = "key"
  /\ ptt' = TRUE
  /\ success' = TRUE
  /\ aired' = << >>
  /\ workerPc' = "frames"
  /\ UNCHANGED <<main, txQueue, channelBusy, state, timers, outcomes, blocked,
                 releaseFailed>>

\* Mutant: the packet stays queued and is tried again.
KeyPttFailsKeeps ==
  /\ workerPc = "key"
  /\ state' = "RX_IDLE"
  /\ outcomes' = Append(outcomes,
                        [id |-> Head(txQueue).id, status |-> "TX_FAILED"])
  /\ workerPc' = "poll"
  /\ UNCHANGED <<main, txQueue, channelBusy, ptt, timers, success, history>>

\* The line cannot be keyed: the packet fails without a release.
KeyPttFails ==
  /\ workerPc = "key"
  /\ state' = "RX_IDLE"
  /\ EndPacket("TX_FAILED")
  /\ UNCHANGED <<main, channelBusy, ptt, timers, success, releaseFailed>>

\* TXDELAY is over.
StartFrames ==
  /\ workerPc = "frames"
  /\ state = "TX_KEYING"
  /\ state' = "TX_ACTIVE"
  /\ UNCHANGED <<main, txQueue, channelBusy, workerPc, ptt, timers, success,
                 outcomes, history>>

\* Mutant: the loop leaves out the last fragment of a longer packet.
MoreFramesShort ==
  LET last == Head(txQueue).fragments - 1
  IN success /\ Len(aired) < (IF last = 0 THEN 1 ELSE last)

MoreFrames == success /\ Len(aired) < Head(txQueue).fragments

\* One fragment is built, modulated and sent, or fails.
SendFrame ==
  /\ workerPc = "frames"
  /\ state = "TX_ACTIVE"
  /\ MoreFrames
  /\ \/ /\ aired' = Append(aired, [id |-> Head(txQueue).id,
                                   index |-> Len(aired), keyed |-> ptt])
        /\ UNCHANGED success
     \/ /\ success' = FALSE
        /\ UNCHANGED aired
  /\ UNCHANGED <<main, txQueue, channelBusy, workerPc, state, ptt, timers,
                 outcomes, blocked, releaseFailed>>

EndFrames ==
  /\ workerPc = "frames"
  /\ state = "TX_ACTIVE"
  /\ ~MoreFrames
  /\ state' = "TX_TAIL"
  /\ workerPc' = "drain"
  /\ UNCHANGED <<main, txQueue, channelBusy, ptt, timers, success, outcomes,
                 history>>

\* The playback drains, unless a frame failed; then TXTAIL.
DrainAudio ==
  /\ workerPc = "drain"
  /\ success' \in {FALSE, success}
  /\ workerPc' = "release"
  /\ UNCHANGED <<main, txQueue, channelBusy, state, ptt, timers, outcomes,
                 history>>

\* Mutant: the state leaves TX_TAIL before the line is released.
ReleasePttLate ==
  /\ workerPc = "release"
  /\ IF state = "TX_TAIL"
       THEN /\ state' = "RX_GUARD"
            /\ UNCHANGED <<workerPc, ptt, success, releaseFailed>>
       ELSE /\ workerPc' = "guard"
            /\ \E released \in BOOLEAN : /\ ptt' = (ptt /\ ~released)
                                         /\ success' = (success /\ released)
                                         /\ releaseFailed' = ~released
            /\ UNCHANGED state
  /\ UNCHANGED <<main, txQueue, channelBusy, timers, outcomes, aired, blocked>>

\* release_ptt: the line is released whatever became of the frames.
ReleasePtt ==
  /\ workerPc = "release"
  /\ \E released \in BOOLEAN : /\ ptt' = (ptt /\ ~released)
                               /\ success' = (success /\ released)
                               /\ releaseFailed' = ~released
  /\ workerPc' = "guard"
  /\ UNCHANGED <<main, txQueue, channelBusy, state, timers, outcomes, aired,
                 blocked>>

\* ... the guard time begins, even after a failed release ...
StartGuard ==
  /\ workerPc = "guard"
  /\ state = "TX_TAIL"
  /\ state' = "RX_GUARD"
  /\ UNCHANGED <<main, txQueue, channelBusy, workerPc, ptt, timers, success,
                 outcomes, history>>

\* ... and is over; the packet is discarded, sent or failed.
EndTransmission ==
  /\ workerPc = "guard"
  /\ state = "RX_GUARD"
  /\ state' = "RX_IDLE"
  /\ EndPacket(IF success THEN "OK" ELSE "TX_FAILED")
  /\ UNCHANGED <<main, channelBusy, ptt, timers, success, releaseFailed>>

Access ==
  \/ WorkerExit \/ PollNothing \/ PollBusy \/ TimeOut \/ PollFree
  \/ SlotNotDue \/ LoseTrial \/ WinTrial \/ Nap

Transmission ==
  \/ KeyPtt \/ KeyPttFails \/ StartFrames \/ SendFrame \/ EndFrames
  \/ DrainAudio \/ ReleasePtt \/ StartGuard \/ EndTransmission

Worker == Access \/ Transmission

Next == Main \/ Worker

(***************************************************************************)
(* The worker runs whenever it can, and a trial that is drawn again and    *)
(* again is won at last ((P + 1)/256 > 0).  The main thread, once it has   *)
(* left its loop, goes on to the end.  Nothing forces the channel to       *)
(* become free, or anyone to submit a packet or to stop the program.       *)
(***************************************************************************)
Fairness == WF_vars(Worker) /\ SF_vars(WinTrial) /\ WF_vars(Deinit)

Spec == Init /\ [][Next]_vars /\ Fairness

-----------------------------------------------------------------------------
Packet == [id : 1 .. MaxPackets, fragments : FragmentCounts]

\* Type invariant.
TypeOK ==
  /\ mainPc \in {"serve", "join", "done"}
  /\ running \in BOOLEAN
  /\ accepted \in 0 .. MaxPackets
  /\ txQueue \in Seq(Packet) /\ Len(txQueue) <= QueueCapacity
  /\ persistence \in {"always", "chance"}
  /\ channelBusy \in BOOLEAN
  /\ workerPc \in {"poll", "idle", "nap", "timeout", "trial", "key", "frames",
                   "drain", "release", "guard", "exited"}
  /\ workerPc \in {"timeout", "trial", "key", "frames", "drain", "release",
                   "guard"} => txQueue # << >>
  /\ state \in {"RX_IDLE", "TX_WAIT_BUSY", "TX_KEYING", "TX_ACTIVE",
                "TX_TAIL", "RX_GUARD"}
  /\ ptt \in BOOLEAN
  /\ busyAge \in {NotTiming} \union 0 .. BusyTimeout
  /\ slotLeft \in 0 .. MaxSlot
  /\ success \in BOOLEAN
  /\ blocked \in 0 .. WaitBound
  /\ releaseFailed \in BOOLEAN

\* While the radio is keyed the runtime is in one of the transmitting states,
\* so the receive path, which looks only at the state, is shut (alsa_rx.c
\* 730-733, rtnc_runtime_accept_fragment); only a line that could not be
\* released is keyed in any other state.
ReceiverShutWhileKeyed ==
  (ptt /\ ~releaseFailed) => state \in {"TX_KEYING", "TX_ACTIVE", "TX_TAIL"}

\* In this step a packet ends with this status.
Ends(status) ==
  Len(outcomes') = Len(outcomes) + 1
    /\ outcomes'[Len(outcomes')].status = status

\* A packet reported as sent went out whole: all its fragments, in order, once
\* each, with the line keyed ("All fragments of one packet are transmitted ...
\* under one PTT interval", docs/kiss-runtime.md).
SentUnderOnePtt ==
  [][Ends("OK") =>
       aired = [k \in 1 .. Head(txQueue).fragments |->
                  [id |-> Head(txQueue).id, index |-> k - 1,
                   keyed |-> TRUE]]]_vars

\* Packets end in the order they were accepted, each exactly once, and none is
\* forgotten between the queue and its outcome.
OutcomesInOrder ==
  /\ accepted = Len(outcomes) + Len(txQueue)
  /\ \A n \in 1 .. Len(outcomes) : outcomes[n].id = n
  /\ \A k \in 1 .. Len(txQueue) : txQueue[k].id = Len(outcomes) + k

\* A packet is given up as timed out only if the channel was not once found
\* free for the whole timeout while this very packet waited; what an earlier
\* packet waited, or waits interrupted by a free channel, do not count.  And no
\* packet waits longer than that, and a nap before and after, without finding
\* the channel free.  That is all there is of the "Maximum time TX waits for
\* channel access" of docs/config.md:224: each free poll stops the timer, also
\* if the persistence trial is then lost, so the whole wait has no bound.
TimeoutIsItsOwn ==
  [][/\ Ends("TX_TIMEOUT") => blocked >= BusyTimeout
     /\ blocked' < WaitBound]_vars

\* Every accepted packet ends: sent, failed or timed out, also when the
\* program is told to stop meanwhile and the busy flag is frozen.
EveryPacketEnds ==
  \A p \in 1 .. MaxPackets : (accepted >= p) ~> (Len(outcomes) >= p)

\* A stop leads to the end of the program, with the queue drained and the line
\* released if the GPIO still obeys ("PTT is released on ... SIGINT, SIGTERM,
\* and runtime destruction", docs/kiss-runtime.md).
StopEnds ==
  (mainPc = "join") ~> (mainPc = "done" /\ txQueue = << >>
                                        /\ (ptt => releaseFailed))

Radio == INSTANCE HalfDuplex

\* To the threads that read the state and to the radio, the transmit side goes
\* round the documented cycle and nothing else: every step of the worker, the
\* queue and the teardown is a step of HalfDuplex or leaves state and line
\* alone (docs/kiss-runtime.md, "Half-duplex behavior").
ImplementsHalfDuplex == Radio!Spec
=============================================================================
