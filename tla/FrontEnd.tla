------------------------------- MODULE FrontEnd -------------------------------
(***************************************************************************)
(* The front of the service, from its start to its end: the capture thread *)
(* (audio.c) reads blocks from ALSA into the audio ring, the main thread   *)
(* (alsa_rx.c) takes them through the burst detector, publishes whether    *)
(* the channel is busy, and hands candidates to the decoders unless the    *)
(* transmitter is at work.  The transmitter is HalfDuplex (TxRuntime       *)
(* implements it); the radio hears itself, so audio recorded while the     *)
(* line is keyed is the station's own.                                     *)
(*                                                                         *)
(* A block is one sample here, and a decoder is a count of queued jobs and *)
(* one of ready results (RxPipeline has both in full).                     *)
(***************************************************************************)
EXTENDS BurstDetector, Startup

CONSTANTS
  Periods,        \* audio.periods: what the capture device buffers, in blocks
  RingCapacity,   \* audio.dsp_queue_blocks: blocks the audio ring holds
  QueueCapacity,  \* workers.decode_queue_frames
  Warmup, Pretrigger, MaximumActive,  \* detector section of the YAML file
  Frame, Latency  \* samples of a frame, and from its start to the trigger

Config == ReceiverConfig(PlatformConfig(Warmup, Pretrigger, 0, MaximumActive),
                         Frame, Latency)

ASSUME CapacityAssumption ==
  {Periods, RingCapacity, QueueCapacity} \subseteq Nat \ {0}
ASSUME ConfigAssumption ==
  Frame \in Nat /\ Latency \in Nat /\ ConfigIsValid(Config)

VARIABLES
  pcm,        \* the capture device: prepared, running, overrun, failed, gone,
              \* stopped, closed
  periods,    \* what it has recorded: TRUE if the line was keyed meanwhile
  echo,       \* the line was keyed since the period being recorded began
  captureRunning, \* capture_running
  capturePc,  \* where the capture thread is
  audioRing,  \* blocks between the threads: TRUE if the station's own
  detector,
  openedBy,   \* history: whose sample opened the candidate in progress
  queued,     \* candidates with the decoders
  ready,      \* results the coordinator could deliver
  channelBusy, \* what the transmit worker sees of the detector
  state, ptt, \* the transmitter, see HalfDuplex
  late        \* history: the receiver reopened with own audio still pending

life == <<mainPc, mode, held>>
capture == <<pcm, captureRunning, capturePc>>
recording == <<periods, echo>>
scanning == <<detector, openedBy, channelBusy>>
decoding == <<queued, ready>>
radio == <<state, ptt, late>>
vars == <<life, capture, recording, audioRing, scanning, decoding, radio>>

Radio == INSTANCE HalfDuplex

Init ==
  /\ StartInit
  /\ pcm = "closed" /\ captureRunning = FALSE /\ capturePc = "ended"
  /\ periods = << >> /\ echo = FALSE
  /\ audioRing = << >>
  /\ detector = NewDetector(Config, "audio") /\ openedBy = "nobody"
  /\ queued = 0 /\ ready = 0
  /\ channelBusy = FALSE
  /\ Radio!Init
  /\ late = FALSE

-----------------------------------------------------------------------------
(* The capture device, and capture_thread_main. *)

\* Another period; the one that fills the buffer is an overrun, and what the
\* buffer held is lost.
Record ==
  /\ pcm = "running"
  /\ IF Len(periods) + 1 < Periods
       THEN periods' = Append(periods, echo \/ ptt) /\ UNCHANGED pcm
       ELSE periods' = << >> /\ pcm' = "overrun"
  /\ echo' = ptt
  /\ UNCHANGED <<life, captureRunning, capturePc, audioRing, scanning, decoding,
                 radio>>

DeviceFails ==
  /\ pcm \in {"prepared", "running"}
  /\ \/ pcm' = "failed" /\ UNCHANGED periods
     \/ pcm' = "gone" /\ periods' = << >>
  /\ UNCHANGED <<life, captureRunning, capturePc, echo, audioRing, scanning,
                 decoding, radio>>

CaptureMoves(from, to) ==
  /\ capturePc = from /\ capturePc' = to
  /\ UNCHANGED <<life, captureRunning, scanning, decoding, radio>>

CheckRunning ==
  /\ CaptureMoves("check", IF captureRunning THEN "read" ELSE "ended")
  /\ UNCHANGED <<pcm, recording, audioRing>>

\* A read starts a device that is only prepared.
ReadStarts ==
  /\ CaptureMoves("read", "read")
  /\ pcm = "prepared" /\ pcm' = "running"
  /\ echo' = ptt
  /\ UNCHANGED <<periods, audioRing>>

\* snd_pcm_readi delivers a period; a full ring drops it.
ReadBlock ==
  /\ CaptureMoves("read", "check")
  /\ pcm = "running" /\ periods # << >>
  /\ periods' = Tail(periods)
  /\ audioRing' = IF Len(audioRing) < RingCapacity
                    THEN Append(audioRing, Head(periods)) ELSE audioRing
  /\ UNCHANGED <<pcm, echo>>

ReadOverrun ==
  /\ CaptureMoves("read", "prepare")
  /\ pcm = "overrun"
  /\ UNCHANGED <<pcm, recording, audioRing>>

\* A device suspended, gone or stopped under the read.
ReadError ==
  /\ CaptureMoves("read", "error")
  /\ pcm \in {"failed", "gone", "stopped"}
  /\ UNCHANGED <<pcm, recording, audioRing>>

\* snd_pcm_prepare empties the buffer; its result is ignored.
Prepare ==
  /\ CaptureMoves("prepare", "check")
  /\ pcm' = IF pcm = "gone" THEN pcm ELSE "prepared"
  /\ periods' = << >>
  /\ UNCHANGED <<echo, audioRing>>

CheckError ==
  /\ CaptureMoves("error", IF captureRunning THEN "recover" ELSE "ended")
  /\ UNCHANGED <<pcm, recording, audioRing>>

\* snd_pcm_recover resumes a suspended device, or prepares it if that fails.
Recover ==
  /\ CaptureMoves("recover", "check")
  /\ pcm \notin {"gone", "stopped"}
  /\ \/ pcm' = "running" /\ UNCHANGED periods
     \/ pcm' = "prepared" /\ periods' = << >>
  /\ UNCHANGED <<echo, audioRing>>

RecoverFails ==
  /\ CaptureMoves("recover", "ended")
  /\ pcm \in {"gone", "stopped"}
  /\ UNCHANGED <<pcm, recording, audioRing>>

CaptureThread ==
  \/ CheckRunning \/ ReadStarts \/ ReadBlock \/ ReadOverrun \/ ReadError
  \/ Prepare \/ CheckError \/ Recover \/ RecoverFails

-----------------------------------------------------------------------------
(* The transmit worker, seen from here. *)

HoldsOwn(blocks) == \E i \in 1 .. Len(blocks) : blocks[i]

OwnPending ==
  ptt \/ echo \/ HoldsOwn(periods) \/ HoldsOwn(audioRing) \/ openedBy = "own"

\* late is judged each time the receiver reopens.
RadioMoves(step) ==
  /\ step
  /\ echo' = (echo \/ ptt')
  /\ late' = (state' = "RX_IDLE" /\ IF state = state' THEN late ELSE OwnPending)
  /\ UNCHANGED <<life, capture, periods, audioRing, scanning, decoding>>

\* A poll of the worker: it looks at channel_busy.  Nothing is submitted, and
\* the worker polls an empty queue, until the loop was entered.
Poll ==
  /\ {"worker", "capture"} \subseteq held
  /\ IF channelBusy THEN RadioMoves(Radio!Wait) \/ RadioMoves(Radio!GiveUp)
                    ELSE RadioMoves(Radio!Start)

Transmit ==
  \/ RadioMoves(Radio!Key) \/ RadioMoves(Radio!KeyFails)
  \/ RadioMoves(Radio!Send) \/ RadioMoves(Radio!EndSending)
  \/ RadioMoves(Radio!Release) \/ RadioMoves(Radio!Guard)
  \/ RadioMoves(Radio!Resume)

-----------------------------------------------------------------------------
(* The main thread. *)

\* Mutant: candidates are queued whatever the transmitter does.
ReceiveAlways == TRUE

ReceiveEnabled == ServiceMode => state = "RX_IDLE"

MainMoves(from, to) == mainPc = from /\ mainPc' = to /\ UNCHANGED <<mode, held>>
MainCloses(from, to, what) ==
  mainPc = from /\ mainPc' = to /\ held' = held \ what /\ UNCHANGED mode

GetReady ==
  /\ Prepares
  /\ UNCHANGED <<capture, recording, audioRing, scanning, decoding, radio>>

\* rtnc_audio_start_capture; the loop begins.
StartCapture ==
  /\ Takes("capture", "loop")
  /\ IF "capture" \in held'
       THEN pcm' = "running" /\ captureRunning' = TRUE /\ capturePc' = "check"
       ELSE UNCHANGED capture
  /\ UNCHANGED <<recording, audioRing, scanning, decoding, radio>>

\* Only packet mode has a completion window.
Answered == ready' = IF PacketMode THEN ready + 1 ELSE ready

\* One block through the detector: the busy flag follows it once it is warm and
\* has found noise, and a candidate goes to a decoder or ends as a failure.
ProcessBlock ==
  /\ MainMoves("loop", "pop")
  /\ audioRing # << >>
  /\ audioRing' = Tail(audioRing)
  /\ \E level \in Levels(detector), trigger \in BOOLEAN :
       LET after == Process(detector, Config, "audio", level, trigger)
           own == IF Head(audioRing) THEN "own" ELSE "remote"
       IN /\ detector' = after.detector
          /\ openedBy' = CASE ~after.detector.active -> "nobody"
                           [] detector.active -> openedBy
                           [] OTHER -> own
          /\ channelBusy' =
               IF after.detector.noise /\ after.detector.seen >= Config.warmup
                 THEN after.detector.active ELSE channelBusy
          /\ IF after.candidate = << >>
               THEN UNCHANGED decoding
               ELSE IF ReceiveEnabled /\ queued < QueueCapacity
                 THEN queued' = queued + 1 /\ UNCHANGED ready
                 ELSE Answered /\ UNCHANGED queued
  /\ UNCHANGED <<capture, recording, radio>>

PopReady ==
  /\ MainMoves("pop", "pop")
  /\ ready > 0
  /\ ready' = ready - 1
  /\ UNCHANGED <<capture, recording, audioRing, scanning, queued, radio>>

PopNothing ==
  /\ MainMoves("pop", "loop")
  /\ ready = 0
  /\ UNCHANGED <<capture, recording, audioRing, scanning, decoding, radio>>

\* A signal, or the run time is over.
StopRequested ==
  /\ MainMoves("loop", "join worker")
  /\ UNCHANGED <<capture, recording, audioRing, scanning, decoding, radio>>

\* The worker ends between two packets (TxRuntime).
WorkerJoined ==
  /\ MainCloses("join worker", "clear", {"worker"})
  /\ state = "RX_IDLE"
  /\ UNCHANGED <<capture, recording, audioRing, scanning, decoding, radio>>

NoCapture ==
  /\ MainMoves("clear", "join decoders")
  /\ "capture" \notin held
  /\ UNCHANGED <<capture, recording, audioRing, scanning, decoding, radio>>

\* rtnc_audio_stop_capture
StopFlag ==
  /\ MainMoves("clear", "drop")
  /\ "capture" \in held
  /\ captureRunning' = FALSE
  /\ UNCHANGED <<pcm, capturePc, recording, audioRing, scanning, decoding, radio>>

\* Mutant: the device is left running.
StopWithoutDrop ==
  /\ MainMoves("drop", "join capture")
  /\ UNCHANGED <<capture, recording, audioRing, scanning, decoding, radio>>

DropPcm ==
  /\ MainMoves("drop", "join capture")
  /\ pcm' = IF pcm = "gone" THEN pcm ELSE "stopped"
  /\ periods' = << >>
  /\ UNCHANGED <<captureRunning, capturePc, echo, audioRing, scanning,
                 decoding, radio>>

CaptureJoined ==
  /\ MainCloses("join capture", "join decoders", {"capture"})
  /\ capturePc = "ended"
  /\ pcm' = IF pcm = "gone" THEN pcm ELSE "prepared"
  /\ UNCHANGED <<captureRunning, capturePc, recording, audioRing, scanning,
                 decoding, radio>>

DecodersJoined ==
  /\ MainCloses("join decoders", "deinit", {"decoder", "equalizer"})
  /\ queued = 0
  /\ UNCHANGED <<capture, recording, audioRing, scanning, decoding, radio>>

\* rtnc_runtime_deinit and rtnc_ptt_deinit each try to release the line.
TearsDown(from, to, what) ==
  /\ MainCloses(from, to, what)
  /\ Radio!Teardown
  /\ echo' = (echo \/ ptt')
  /\ UNCHANGED <<capture, periods, audioRing, scanning, decoding, late>>

CloseRuntime == TearsDown("deinit", "close line", {"socket", "runtime"})
CloseLine == TearsDown("close line", "close audio", {"line"})

CloseAudio ==
  /\ MainCloses("close audio", "release", {"audio"})
  /\ pcm' = "closed"
  /\ UNCHANGED <<captureRunning, capturePc, recording, audioRing, scanning,
                 decoding, radio>>

\* What is only memory: filter, detector, modems, configuration.
ReleaseMemory ==
  /\ MainCloses("release", "done",
                {"detector", "modem", "equalizer modem", "configuration"})
  /\ UNCHANGED <<capture, recording, audioRing, scanning, decoding, radio>>

Main ==
  \/ GetReady \/ StartCapture
  \/ ProcessBlock \/ PopReady \/ PopNothing \/ StopRequested \/ WorkerJoined
  \/ NoCapture \/ StopFlag \/ DropPcm \/ CaptureJoined \/ DecodersJoined
  \/ CloseRuntime \/ CloseLine \/ CloseAudio \/ ReleaseMemory

\* A decoder answers a candidate.
Decode ==
  /\ queued > 0
  /\ queued' = queued - 1 /\ Answered
  /\ UNCHANGED <<life, capture, recording, audioRing, scanning, radio>>

Next == Record \/ DeviceFails \/ CaptureThread \/ Poll \/ Transmit \/ Main \/ Decode

(***************************************************************************)
(* Threads run when they can.  A read of an empty buffer blocks: no        *)
(* fairness says that audio comes, nor when anyone transmits or stops.     *)
(***************************************************************************)
Fairness ==
  /\ WF_vars(CaptureThread)
  /\ WF_vars(Main /\ ~StopRequested)
  /\ WF_vars(Decode)

Spec == Init /\ [][Next]_vars /\ Fairness

-----------------------------------------------------------------------------
\* Type invariant; the ring, the decode queue and the candidate buffer never
\* exceed what is configured.
TypeOK ==
  /\ pcm \in {"prepared", "running", "overrun", "failed", "gone", "stopped",
              "closed"}
  /\ periods \in Seq(BOOLEAN) /\ Len(periods) < Periods
  /\ captureRunning \in BOOLEAN
  /\ capturePc \in {"check", "read", "prepare", "error", "recover", "ended"}
  /\ echo \in BOOLEAN
  /\ audioRing \in Seq(BOOLEAN) /\ Len(audioRing) <= RingCapacity
  /\ Len(detector.candidate) < Config.maximum
  /\ detector.active = (detector.candidate # << >>)
  /\ detector.write \in 0 .. Config.pretrigger - 1
  /\ detector.count \in 0 .. Config.pretrigger
  /\ openedBy \in {"nobody", "own", "remote"}
  /\ mainPc \in Starting \union
       {"loop", "pop", "join worker", "clear", "drop", "join capture",
        "join decoders", "deinit", "close line", "close audio", "release",
        "done"}
  /\ held \subseteq Starting
  /\ queued \in 0 .. QueueCapacity
  /\ ready \in 0 .. QueueCapacity + 1
  /\ channelBusy \in BOOLEAN
  /\ state \in Radio!States /\ ptt \in BOOLEAN /\ late \in BOOLEAN

\* The candidate that a block adds to, or opens, is of the station's own signal.
OwnCandidate ==
  IF detector.active THEN openedBy = "own"
                     ELSE audioRing # << >> /\ Head(audioRing)

\* docs/kiss-runtime.md:22: "Detected candidates produced by the local
\* transmitter are terminated in the completion coordinator but are not decoded
\* or passed to reassembly".  The code looks at the state of now (alsa_rx.c:730),
\* not at the state when the audio was recorded: violated.
OwnIsNotDecoded == [][queued' > queued => ~OwnCandidate]_vars

\* There is one way only for it to happen: the station's own signal goes to a
\* decoder only if the receiver reopened before all of it, in the device, the
\* ring and the candidate in progress, had been through the detector.  Nothing
\* but the guard time, which may be zero, is there to hold the echo back.
EchoNeedsBacklog ==
  [][(queued' > queued /\ OwnCandidate) => late]_vars

\* While audio flows, results do not stay in the window and the channel does
\* not stay busy: candidates are closed, and completions popped, by audio
\* alone, unless the capture thread ended or the service stops.
Serving == capturePc # "ended" /\ mainPc \in {"loop", "pop"}
AudioFlows == []<><<ReadBlock>>_vars \/ []<>~Serving
LoopKeepsServing ==
  AudioFlows => /\ ready > 0 ~> (ready = 0 \/ ~Serving)
                /\ channelBusy ~> (~channelBusy \/ ~Serving)

\* Stopping the capture ends, whatever the device does at that moment: the
\* flag is cleared before the device is stopped under the read.  A start comes
\* to the loop or to the end of the program.
StopEnds ==
  /\ (mainPc = "clear") ~> (mainPc = "done")
  /\ (mainPc \in Starting) ~> (mainPc \in {"loop", "done"})

\* No thread works with what is not open yet, or closed already, also when the
\* start was refused half-way; and the program ends with everything given back.
ThreadsKeepTheirDevices ==
  /\ capturePc # "ended" => "audio" \in held
  /\ state # "RX_IDLE" => {"audio", "line", "runtime", "worker"} \subseteq held
  /\ pcm \in {"prepared", "running", "overrun", "failed", "stopped"}
       => "audio" \in held
  /\ queued > 0 => {"modem", "decoder"} \subseteq held
  /\ mainPc = "done" => held = {} /\ ~captureRunning
=============================================================================
