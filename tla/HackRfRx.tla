------------------------------- MODULE HackRfRx -------------------------------
(***************************************************************************)
(* tools/hackrf_rx.c: libhackrf's thread copies IQ blocks into a ring, the *)
(* main thread demodulates them and looks for candidates, a decoder thread *)
(* decodes these, and the main thread stops at a target or by the clock.   *)
(*                                                                         *)
(* A block is one audio sample here, TRUE when there was a carrier.  The   *)
(* samples are numbered as the detector gets them.                         *)
(***************************************************************************)
EXTENDS BurstDetector, Modem

CONSTANTS
  IqCapacity,   \* IQ_RING_CAPACITY
  JobCapacity,  \* RTNC_DECODE_QUEUE_MAX_CAPACITY
  Target,       \* expected_frames: frames, or packets in packet mode
  Samples,      \* bound of the model: samples demodulated in a run
  Warmup, Pretrigger, MaximumActive, Frame, Latency  \* of the detector

Config == ReceiverConfig(DefaultConfig(Warmup, Pretrigger, MaximumActive),
                         Frame, Latency)

ASSUME ReceiverAssumption ==
  /\ {IqCapacity, JobCapacity, Target, Samples} \subseteq Nat \ {0}
  /\ {Frame, Latency} \subseteq Nat
  /\ ConfigIsValid(Config)

VARIABLES
  rxPc,       \* open, listen, stop, join, done
  iqRing,     \* blocks between the callback and the main thread
  heard,      \* samples demodulated
  detector,
  jobs,       \* the decode queue
  job,        \* what the decoder works on, empty when it has none
  decoded,    \* decoded_frames, or completed_packets
  running,    \* decoder.running
  decoderPc,  \* work, ended
  rxSuccess   \* what the tool exits with

scanning == <<iqRing, heard, detector>>
decoding == <<job, decoded, decoderPc, modem>>
listener == <<rxPc, scanning, jobs, decoding, running, rxSuccess>>

RxInit ==
  /\ rxPc = "open" /\ iqRing = << >> /\ heard = 0
  /\ detector = NewDetector(Config, 0)
  /\ jobs = << >> /\ job = << >> /\ decoded = 0
  /\ running = TRUE /\ decoderPc = "work" /\ rxSuccess = FALSE
  /\ ModemInit

RxMoves(from, to) == rxPc = from /\ rxPc' = to

\* The decoder thread runs already when the device fails to open.
OpenDevice ==
  /\ rxPc = "open"
  /\ \/ rxPc' = "listen" /\ UNCHANGED running
     \/ rxPc' = "join" /\ running' = FALSE
  /\ UNCHANGED <<scanning, jobs, decoding, rxSuccess>>

\* receive_callback: a full ring drops the block.
ReceiveCallback(carrier) ==
  /\ rxPc \in {"listen", "stop"}
  /\ heard < Samples
  /\ iqRing' = IF Len(iqRing) < IqCapacity THEN Append(iqRing, carrier) ELSE iqRing
  /\ UNCHANGED <<rxPc, heard, detector, jobs, decoding, running, rxSuccess>>

\* Without a carrier there is noise, which the correlator may take for more;
\* after a first sample of silence it is above the noise power as well.
QuietLevels == IF detector.seen > 0 /\ ~detector.noise THEN Levels(detector)
                                                       ELSE {"quiet", "edge"}

ProcessBlock ==
  /\ rxPc = "listen" /\ decoded < Target
  /\ iqRing # << >>
  /\ iqRing' = Tail(iqRing)
  /\ heard' = heard + 1
  /\ \E level \in IF Head(iqRing) THEN Levels(detector) ELSE QuietLevels,
        trigger \in BOOLEAN :
       LET result == Process(detector, Config, heard', level, trigger) IN
         /\ detector' = result.detector
         /\ jobs' = IF result.candidate # << >> /\ Len(jobs) < JobCapacity
                      THEN Append(jobs, result.candidate) ELSE jobs
  /\ UNCHANGED <<rxPc, decoding, running, rxSuccess>>

\* The target is reached, the time is up, or the resampler overflows.
StopListening ==
  /\ RxMoves("listen", "stop")
  /\ UNCHANGED <<scanning, jobs, decoding, running, rxSuccess>>

\* Mutant: only the opening that fails tells the decoder to stop.
StopDeviceAlone ==
  /\ RxMoves("stop", "join")
  /\ UNCHANGED <<scanning, jobs, decoding, running, rxSuccess>>

StopDevice ==
  /\ RxMoves("stop", "join")
  /\ running' = FALSE
  /\ UNCHANGED <<scanning, jobs, decoding, rxSuccess>>

JoinDecoder ==
  /\ RxMoves("join", "done")
  /\ decoderPc = "ended"
  /\ rxSuccess' = (decoded > 0)
  /\ UNCHANGED <<scanning, jobs, decoding, running>>

MainThread == OpenDevice \/ ProcessBlock \/ StopListening \/ StopDevice \/ JoinDecoder

-----------------------------------------------------------------------------
(* decoder_thread_main *)

TakeJob ==
  /\ decoderPc = "work" /\ job = << >> /\ jobs # << >>
  /\ job' = Head(jobs) /\ jobs' = Tail(jobs)
  /\ BeginReceive
  /\ UNCHANGED <<rxPc, scanning, decoded, decoderPc, running, rxSuccess>>

Decode ==
  /\ job # << >>
  /\ ModemStep
  /\ UNCHANGED <<rxPc, scanning, jobs, job, decoded, decoderPc, running, rxSuccess>>

\* In packet mode a frame counts when it completes a packet.
FinishJob ==
  /\ job # << >> /\ pass = "idle"
  /\ job' = << >>
  /\ decoded' \in IF status = "OK" THEN {decoded, decoded + 1} ELSE {decoded}
  /\ decoderPc' = IF decoded' >= Target THEN "ended" ELSE decoderPc
  /\ UNCHANGED <<rxPc, scanning, jobs, modem, running, rxSuccess>>

EndDecoder ==
  /\ decoderPc = "work" /\ decoderPc' = "ended"
  /\ ~running /\ job = << >> /\ jobs = << >>
  /\ UNCHANGED <<rxPc, scanning, jobs, job, decoded, modem, running, rxSuccess>>

Decoder == TakeJob \/ Decode \/ FinishJob \/ EndDecoder
=============================================================================
