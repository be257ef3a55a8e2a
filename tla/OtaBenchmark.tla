---------------------------- MODULE OtaBenchmark ----------------------------
(***************************************************************************)
(* The over-the-air benchmark (tools/ota_benchmark.c): a sender announces  *)
(* each block on the control profile and sends its numbered frames on the  *)
(* profile under test; a receiver follows the announcements, counts the    *)
(* frames and writes one row per attempt.  The two share a lossy one-way   *)
(* channel and no clock.  A signal may end the sender at any moment, and a *)
(* new run may follow.                                                     *)
(*                                                                         *)
(* A receiver_phy_t (detector, decode queue, worker, result queue) is the  *)
(* queue of the messages it has decoded or is going to: they reach the     *)
(* main loop in order, and a full queue drops the newest.                  *)
(***************************************************************************)
EXTENDS Naturals, Sequences, FiniteSets

CONSTANTS
  Runs,       \* bound of the model: sender processes, one after the other
  Blocks,     \* profiles of the configuration
  Repeats,    \* announcements of a block
  Packets,    \* frames of a block
  Capacity,   \* messages between detector and main loop, on each profile
  Deadline    \* 15 seconds, in ticks of the receiver's clock

ASSUME CountAssumption ==
  {Runs, Blocks, Repeats, Packets, Capacity, Deadline} \subseteq Nat \ {0}

VARIABLES
  \* the sender
  run, block, series, item, \* where run_tx is: the next item of a series
  stage,      \* and in it: off, open, key, send, release, abort, rest, done
  ptt,        \* the level of the line
  activePtt,  \* the signal thread can see the line
  signal,     \* the signal thread: waiting, caught, released
  \* the receiver
  control, data, \* messages on their way to the main loop
  listening,  \* data_listening
  active,     \* the block announced last: run and block
  seen, received, duplicates,
  deadline,   \* ticks left, 0 when no attempt is open
  rxPc,       \* part of the loop: deadline, announcements, frames; or ended
  \* history
  attempts, rows,  \* attempts begun, rows written
  counted,    \* received, summed over the rows of each run and block
  taken,      \* sequence numbers taken from the data queue for an open attempt
  excused     \* the line was keyed after the signal thread had released it,
              \* or refused a release

sender == <<run, block, series, item, stage, ptt, activePtt, signal, excused>>
tally == <<seen, received, duplicates, counted, taken>>
receiver == <<control, data, listening, active, tally, deadline, rxPc, attempts,
              rows>>
vars == <<sender, receiver>>

Target == [run : 1 .. Runs, block : 1 .. Blocks]
NoTarget == [run |-> 0, block |-> 0]

SenderInit ==
  /\ run = 0 /\ block = 1 /\ series = "announce" /\ item = 0
  /\ stage = "off" /\ ptt = FALSE /\ activePtt = FALSE
  /\ signal = "waiting" /\ excused = FALSE

ReceiverInit ==
  /\ control = << >> /\ data = << >>
  /\ listening = FALSE /\ active = NoTarget
  /\ seen = {} /\ received = 0 /\ duplicates = 0
  /\ deadline = 0 /\ rxPc = "deadline"
  /\ attempts = 0 /\ rows = 0
  /\ counted = [t \in Target |-> 0] /\ taken = [t \in Target |-> {}]

Init == SenderInit /\ ReceiverInit

-----------------------------------------------------------------------------
(* run_tx and transmit_series *)

Count == IF series = "announce" THEN Repeats ELSE Packets
OnAir == [run |-> run, block |-> block]

\* main starts the signal thread before it opens anything.
StartRun ==
  /\ stage = "off" /\ run < Runs
  /\ run' = run + 1 /\ block' = 1 /\ series' = "announce" /\ item' = 0
  /\ stage' = "open"
  /\ ptt' = FALSE /\ activePtt' = FALSE
  /\ signal' = "waiting" /\ excused' = FALSE
  /\ UNCHANGED receiver

SenderMoves(from, to) ==
  /\ stage = from /\ stage' = to
  /\ UNCHANGED <<run, block, series, item, signal, receiver>>

\* The sound card and the line, or the run is over.
OpenPlatform ==
  /\ \/ SenderMoves("open", "key") /\ activePtt' = TRUE
     \/ SenderMoves("open", "done") /\ UNCHANGED activePtt
  /\ UNCHANGED <<ptt, excused>>

Key ==
  /\ SenderMoves("key", "send")
  /\ ptt' = TRUE
  /\ excused' = (excused \/ signal = "released")
  /\ UNCHANGED activePtt

\* The line cannot be keyed; or a frame, the drain or the tail fails.
Fail ==
  /\ SenderMoves("key", "done") \/ SenderMoves("send", "abort")
  /\ UNCHANGED <<ptt, activePtt, excused>>

\* A full queue drops the message, and nobody is told.
Pushed(queue, message) ==
  IF Len(queue) < Capacity THEN Append(queue, message) ELSE queue

\* receiver_phy_capture_triggered: the detector finds the frame and the decode
\* queue takes it, or the frame is missed.
CaptureEnds == {"queued", "missed"}

\* rtnc_ota_benchmark_decode: the message as encoded, or none, for the body
\* depends on the seed and the sequence number.
DecodeEnds == {"message", "rejected"}

\* A frame is out; a receiver that listens on its profile may decode it.
Heard(queue, message) ==
  {IF ends = <<"queued", "message">> THEN Pushed(queue, message) ELSE queue
     : ends \in CaptureEnds \X DecodeEnds}

\* The header of a DATA packet.
DataFrame == [target |-> OnAir, seq |-> item]

SendItem ==
  /\ stage = "send" /\ item < Count
  /\ item' = item + 1
  /\ IF series = "announce"
       THEN control' \in Heard(control, OnAir) /\ UNCHANGED data
       ELSE /\ data' \in IF listening /\ active.block = block
                           THEN Heard(data, DataFrame)
                           ELSE {data}
            /\ UNCHANGED control
  /\ UNCHANGED <<run, block, series, stage, ptt, activePtt, signal, excused,
                 listening, active, tally, deadline, rxPc, attempts, rows>>

SeriesDone ==
  /\ item = Count
  /\ SenderMoves("send", "release")
  /\ UNCHANGED <<ptt, activePtt, excused>>

LineReleased == ptt' = FALSE /\ UNCHANGED excused
LineRefuses == excused' = TRUE /\ UNCHANGED ptt

\* A line that refuses the release ends the run.
Release ==
  /\ \/ SenderMoves("release", "rest") /\ LineReleased
     \/ SenderMoves("release", "done") /\ LineRefuses
     \/ SenderMoves("abort", "done") /\ (LineReleased \/ LineRefuses)
  /\ UNCHANGED activePtt

\* After the guard the frames follow, after the pause the next block.
NextSeries ==
  /\ stage = "rest"
  /\ item' = 0
  /\ IF series = "announce"
       THEN series' = "data" /\ stage' = "key" /\ UNCHANGED block
       ELSE /\ series' = "announce"
            /\ block' = IF block = Blocks THEN block ELSE block + 1
            /\ stage' = IF block = Blocks THEN "done" ELSE "key"
  /\ UNCHANGED <<run, ptt, activePtt, signal, excused, receiver>>

HideLine ==
  /\ stage = "done" /\ activePtt
  /\ activePtt' = FALSE
  /\ UNCHANGED <<run, block, series, item, stage, ptt, signal, excused, receiver>>

EndRun ==
  /\ ~activePtt
  /\ SenderMoves("done", "off")
  /\ ptt' = FALSE
  /\ UNCHANGED <<activePtt, excused>>

\* signal_wait_main: the other threads run on until _exit.
SignalMoves(from, to) ==
  /\ stage # "off"
  /\ signal = from /\ signal' = to
  /\ UNCHANGED <<run, block, series, item, activePtt, receiver>>

\* It finds the line, or the run has hidden it.
CatchSignal ==
  /\ SignalMoves("waiting", IF activePtt THEN "caught" ELSE "released")
  /\ UNCHANGED <<stage, ptt, excused>>

\* Mutant: the signal thread exits without touching the line.
SignalForgetsLine ==
  /\ SignalMoves("caught", "released")
  /\ UNCHANGED <<stage, ptt, excused>>

SignalReleases ==
  /\ SignalMoves("caught", "released")
  /\ LineReleased \/ LineRefuses
  /\ UNCHANGED stage

Exit ==
  /\ SignalMoves("released", "exited")
  /\ stage' = "off"
  /\ UNCHANGED <<ptt, excused>>

Sender ==
  \/ StartRun \/ OpenPlatform \/ Key \/ Fail \/ SendItem \/ SeriesDone \/ Release \/ NextSeries
  \/ HideLine \/ EndRun \/ CatchSignal \/ SignalReleases \/ Exit

-----------------------------------------------------------------------------
(* run_rx *)

ReceiverMoves(from, to) == rxPc = from /\ rxPc' = to /\ UNCHANGED sender

WriteRow ==
  /\ rows' = rows + 1
  /\ counted' = [counted EXCEPT ![active] = @ + received]

ClearTally == seen' = {} /\ received' = 0 /\ duplicates' = 0

\* Mutant: the counts of an attempt that timed out go into the next row too.
TimeoutKeepsCounts ==
  /\ ReceiverMoves("deadline", "announcements")
  /\ deadline = 1
  /\ WriteRow
  /\ deadline' = 0 /\ listening' = FALSE
  /\ UNCHANGED <<control, data, active, seen, received, duplicates, taken,
                 attempts>>

\* The data receiver is left as it is, but no longer listened to.
Timeout ==
  /\ ReceiverMoves("deadline", "announcements")
  /\ deadline = 1
  /\ WriteRow /\ ClearTally
  /\ deadline' = 0 /\ listening' = FALSE
  /\ UNCHANGED <<control, data, active, taken, attempts>>

NoTimeout ==
  /\ ReceiverMoves("deadline", "announcements")
  /\ deadline # 1
  /\ UNCHANGED <<control, data, listening, active, tally, deadline, attempts,
                 rows>>

Supersedes(target) == deadline = 0 \/ target # active

\* The data receiver starts again on the announced profile, and what it still
\* held is lost; if it cannot (no thread, or a frame longer than the detector's
\* window), the program ends.
StartDataReceiver ==
  /\ data' = << >>
  /\ \/ listening' = TRUE /\ rxPc' = "announcements"
     \/ listening' = FALSE /\ rxPc' = "ended"

\* Mutant: an announcement closes the open attempt without a row.
AnnounceSilently ==
  /\ rxPc = "announcements" /\ UNCHANGED sender
  /\ control # << >>
  /\ control' = Tail(control)
  /\ Supersedes(Head(control))
  /\ ClearTally
  /\ active' = Head(control)
  /\ StartDataReceiver
  /\ deadline' = Deadline
  /\ attempts' = attempts + 1
  /\ UNCHANGED <<counted, rows, taken>>

\* A new attempt: the open one gets its row.
Announce ==
  /\ rxPc = "announcements" /\ UNCHANGED sender
  /\ control # << >>
  /\ control' = Tail(control)
  /\ Supersedes(Head(control))
  /\ IF deadline # 0 THEN WriteRow /\ ClearTally
                     ELSE UNCHANGED <<seen, received, duplicates, counted, rows>>
  /\ active' = Head(control)
  /\ StartDataReceiver
  /\ deadline' = Deadline
  /\ attempts' = attempts + 1
  /\ UNCHANGED taken

\* A repeat of the announcement that opened the attempt.
AnnounceAgain ==
  /\ ReceiverMoves("announcements", "announcements")
  /\ control # << >>
  /\ control' = Tail(control)
  /\ ~Supersedes(Head(control))
  /\ UNCHANGED <<data, listening, active, tally, deadline, attempts, rows>>

NoAnnounce ==
  /\ ReceiverMoves("announcements", "frames")
  /\ control = << >>
  /\ UNCHANGED <<control, data, listening, active, tally, deadline, attempts,
                 rows>>

TakeFrame ==
  /\ ReceiverMoves("frames", "frames")
  /\ listening /\ data # << >>
  /\ data' = Tail(data)
  /\ LET frame == Head(data) IN
       IF frame.target # active
         THEN UNCHANGED <<seen, received, duplicates, taken, deadline>>
         ELSE /\ IF frame.seq \in seen
                   THEN duplicates' = duplicates + 1 /\ UNCHANGED <<seen, received>>
                   ELSE /\ seen' = seen \union {frame.seq}
                        /\ received' = received + 1
                        /\ UNCHANGED duplicates
              /\ taken' = [taken EXCEPT ![active] = @ \union {frame.seq}]
              /\ deadline' = Deadline
  /\ UNCHANGED <<control, listening, active, counted, attempts, rows>>

NoFrame ==
  /\ ReceiverMoves("frames", "deadline")
  /\ ~listening \/ data = << >>
  /\ UNCHANGED <<control, data, listening, active, tally, deadline, attempts,
                 rows>>

\* The last tick is taken by the loop's next look at the clock.
Tick ==
  /\ rxPc # "ended"
  /\ deadline > 1
  /\ deadline' = deadline - 1
  /\ UNCHANGED <<sender, control, data, listening, active, tally, rxPc,
                 attempts, rows>>

ReceiverLoop ==
  \/ Timeout \/ NoTimeout \/ Announce \/ AnnounceAgain \/ NoAnnounce
  \/ TakeFrame \/ NoFrame

Next == Sender \/ ReceiverLoop \/ Tick

\* The receiver runs on and time passes; the sender may stop anywhere.
Spec == Init /\ [][Next]_vars /\ WF_vars(ReceiverLoop) /\ WF_vars(Tick)

-----------------------------------------------------------------------------
\* Type invariant.
TypeOK ==
  /\ run \in 0 .. Runs /\ block \in 1 .. Blocks
  /\ series \in {"announce", "data"} /\ item \in 0 .. Count
  /\ stage \in {"off", "open", "key", "send", "release", "abort", "rest",
                "done"}
  /\ ptt \in BOOLEAN /\ activePtt \in BOOLEAN /\ excused \in BOOLEAN
  /\ listening \in BOOLEAN
  /\ signal \in {"waiting", "caught", "released", "exited"}
  /\ control \in Seq(Target) /\ Len(control) <= Capacity
  /\ Len(data) <= Capacity
  /\ active \in Target \union {NoTarget}
  /\ seen \subseteq 0 .. Packets - 1
  /\ deadline \in 0 .. Deadline
  /\ rxPc \in {"deadline", "announcements", "frames", "ended"}

\* A row reports what came in for it: over all rows of a block each frame is
\* counted once, also when the block was announced again after a timeout, and
\* no frame of another block or run is among them.
CountsAreHonest ==
  /\ duplicates = 0
  /\ \A t \in Target :
       counted[t] + (IF t = active THEN received ELSE 0) = Cardinality(taken[t])

\* docs/ota-benchmark.md: "Every decoded announcement therefore produces a CSV
\* row even when no DATA frame follows": an attempt gets one row, and the row
\* comes by timeout or by the next announcement.  (Not the last attempt of a
\* receiver that could not start its data receiver: it exits without the row.)
AttemptIsReported ==
  /\ [](attempts = rows + (IF deadline = 0 THEN 0 ELSE 1))
  /\ (deadline # 0) ~> (attempts = rows \/ rxPc = "ended")

\* docs/ota-benchmark.md: "A dedicated signal thread first drives PTT inactive
\* and then exits": after _exit the line is keyed only if the main thread keyed
\* it between the two, or the line refused a release.
SignalLeavesLineReleased == (signal = "exited" /\ ptt) => excused
=============================================================================
