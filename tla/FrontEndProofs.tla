---------------------------- MODULE FrontEndProofs ----------------------------
(***************************************************************************)
(* Proof that no thread of the service works with what is not open, for    *)
(* every configuration: the start may be refused at any of its steps, and  *)
(* the shutdown that follows knows what to give back, and in which order,  *)
(* by what the start remembers to have taken.  Then its type invariant,    *)
(* and that the echo of the station's own signal reaches a decoder only    *)
(* through a backlog of audio.                                             *)
(***************************************************************************)
EXTENDS FrontEnd, Integers, SequenceTheorems, TLAPS

\* What the main thread relies on where it is: the start goes on only with
\* what it took, and a shutdown that came so far has given back its part.
PhaseInv ==
  /\ mainPc \in {"equalizer modem", "detector", "audio", "line", "runtime", "socket",
                 "worker", "equalizer", "decoder", "capture", "loop", "pop"}
       => "modem" \in held
  /\ mainPc \in {"line", "runtime", "socket", "worker", "equalizer", "decoder", "capture",
                 "loop", "pop"} => "audio" \in held
  /\ mainPc \in {"runtime", "socket", "worker"} => "line" \in held
  /\ mainPc \in {"socket", "worker"} => "runtime" \in held
  /\ mainPc \in {"capture", "loop", "pop"} => "decoder" \in held
  /\ mainPc \in {"drop", "join capture"} => "capture" \in held
  /\ mainPc \in {"clear", "drop", "join capture", "join decoders", "deinit", "close line",
                 "close audio", "release", "done"} => "worker" \notin held
  /\ mainPc \in {"join decoders", "deinit", "close line", "close audio", "release", "done"}
       => "capture" \notin held
  /\ mainPc \in {"deinit", "close line", "close audio", "release", "done"}
       => "decoder" \notin held /\ "equalizer" \notin held
  /\ mainPc \in {"close line", "close audio", "release", "done"}
       => "socket" \notin held /\ "runtime" \notin held
  /\ mainPc \in {"close audio", "release", "done"} => "line" \notin held
  /\ mainPc \in {"release", "done"} => "audio" \notin held
  /\ mainPc = "done" => held = {}
  /\ held \subseteq Starting

\* What is held stands on what it was opened with.
HeldInv ==
  /\ "capture" \in held => "audio" \in held
  /\ "decoder" \in held => {"modem", "audio"} \subseteq held
  /\ "worker" \in held => {"audio", "line", "runtime"} \subseteq held
  /\ "runtime" \in held => {"audio", "line"} \subseteq held
  /\ "line" \in held => "audio" \in held

\* The threads that run are not joined yet.
ThreadsInv ==
  /\ capturePc # "ended" \/ captureRunning => "capture" \in held
  /\ mainPc \in {"drop", "join capture"} => ~captureRunning
  /\ state # "RX_IDLE" => "worker" \in held
  /\ queued > 0 => "decoder" \in held
  /\ pcm \in {"prepared", "running", "overrun", "failed", "stopped"}
       => "audio" \in held
  /\ queued \in Nat

IInv == PhaseInv /\ HeldInv /\ ThreadsInv
-----------------------------------------------------------------------------
\* Nothing is open and nothing runs at the start.
LEMMA InitInvariant == Init => IInv
<1> SUFFICES ASSUME Init PROVE IInv
  OBVIOUS
<1>1. PhaseInv /\ HeldInv
  BY DEF Init, StartInit, PhaseInv, HeldInv, Starting
<1>2. ThreadsInv
  BY DEF Init, StartInit, ThreadsInv, Radio!Init
<1>3. QED
  BY <1>1, <1>2 DEF IInv

\* Steps of the other threads leave the main thread where it is.
LEMMA LifeStays ==
  ASSUME PhaseInv, HeldInv, mainPc' = mainPc, held' = held
  PROVE  PhaseInv' /\ HeldInv'
BY DEF PhaseInv, HeldInv

\* The threads stay as they are while the main thread takes something.
LEMMA ThreadsStay ==
  ASSUME ThreadsInv, held \subseteq held', mainPc' \notin {"drop", "join capture"},
         capturePc' = capturePc, captureRunning' = captureRunning, state' = state,
         queued' = queued, pcm' = pcm
  PROVE  ThreadsInv'
BY DEF ThreadsInv

\* A step of the start takes what it may, on top of what it needs, or gives up.
LEMMA PreparesKeeps == IInv /\ Prepares => PhaseInv' /\ HeldInv' /\
                         held \subseteq held' /\ mainPc' \notin {"drop", "join capture"}
<1> SUFFICES ASSUME PhaseInv, HeldInv, Prepares
             PROVE  /\ PhaseInv' /\ HeldInv' /\ held \subseteq held'
                    /\ mainPc' \notin {"drop", "join capture"}
  BY DEF IInv
<1> USE DEF PhaseInv, HeldInv, Takes, GivesUp, Starting
<1>1. CASE LoadConfiguration
  BY <1>1 DEF LoadConfiguration
<1>2. CASE InitModem
  BY <1>2 DEF InitModem
<1>3. CASE InitEqualizerModem
  BY <1>3 DEF InitEqualizerModem
<1>4. CASE InitDetector
  BY <1>4 DEF InitDetector
<1>5. CASE OpenAudio
  BY <1>5 DEF OpenAudio, FirstDecoder, PacketMode
<1>6. CASE OpenLine
  BY <1>6 DEF OpenLine
<1>7. CASE InitRuntime
  BY <1>7 DEF InitRuntime, FirstDecoder, ServiceMode
<1>8. CASE OpenSocket
  BY <1>8 DEF OpenSocket
<1>9. CASE StartWorker
  BY <1>9 DEF StartWorker, FirstDecoder
<1>10. CASE StartEqualizer
  BY <1>10 DEF StartEqualizer
<1>11. CASE StartDecoder
  BY <1>11 DEF StartDecoder
<1>12. QED
  BY <1>1, <1>2, <1>3, <1>4, <1>5, <1>6, <1>7, <1>8, <1>9, <1>10, <1>11 DEF Prepares

\* The capture thread works on the device only while the capture is held.
LEMMA CaptureThreadKeeps == IInv /\ CaptureThread => IInv'
<1> SUFFICES ASSUME IInv, CaptureThread PROVE IInv'
  OBVIOUS
<1>1. /\ capturePc # "ended"
      /\ UNCHANGED <<mainPc, held, captureRunning, queued, state>>
      /\ pcm' \in {pcm, "running", "prepared"}
  BY DEF CaptureThread, CheckRunning, ReadStarts, ReadBlock, ReadOverrun, ReadError,
         Prepare, CheckError, Recover, RecoverFails, CaptureMoves, life, decoding, radio
<1>2. "capture" \in held /\ "audio" \in held
  BY <1>1 DEF IInv, ThreadsInv, HeldInv
<1>3. ThreadsInv'
  BY <1>1, <1>2 DEF IInv, ThreadsInv
<1>4. QED
  BY <1>1, <1>3, LifeStays DEF IInv

\* The worker leaves RX_IDLE only before it is joined.
LEMMA RadioKeeps == IInv /\ (Poll \/ Transmit) => IInv'
<1> SUFFICES ASSUME IInv, Poll \/ Transmit PROVE IInv'
  OBVIOUS
<1>1. ASSUME NEW step, RadioMoves(step)
      PROVE  step /\ UNCHANGED <<mainPc, held, captureRunning, capturePc, pcm, queued>>
  BY <1>1 DEF RadioMoves, life, capture, decoding
<1>2. UNCHANGED <<mainPc, held, captureRunning, capturePc, pcm, queued>>
  BY <1>1 DEF Poll, Transmit
<1>3. "worker" \in held
  <2>1. CASE Poll
    BY <2>1 DEF Poll
  <2>2. CASE Transmit
    <3>1. state # "RX_IDLE"
      BY <1>1, <2>2 DEF Transmit, Radio!Key, Radio!KeyFails, Radio!Send, Radio!EndSending,
                        Radio!Release, Radio!Guard, Radio!Resume, Radio!Move
    <3>2. QED
      BY <3>1 DEF IInv, ThreadsInv
  <2>3. QED
    BY <2>1, <2>2
<1>4. ThreadsInv'
  BY <1>2, <1>3 DEF IInv, ThreadsInv
<1>5. QED
  BY <1>2, <1>4, LifeStays DEF IInv

\* The capture is started on an open device, with a decoder to take from it.
LEMMA StartCaptureKeeps == IInv /\ StartCapture => IInv'
<1> SUFFICES ASSUME IInv, StartCapture PROVE IInv'
  OBVIOUS
<1>1. /\ mainPc = "capture" /\ UNCHANGED <<queued, state>>
      /\ \/ mainPc' = "loop" /\ held' = held \union {"capture"}
         \/ mainPc' = "join worker" /\ held' = held
  BY DEF StartCapture, Takes, GivesUp, decoding, radio
<1>2. "audio" \in held /\ "modem" \in held /\ "decoder" \in held
  BY <1>1 DEF IInv, PhaseInv
<1>3. PhaseInv' /\ HeldInv'
  BY <1>1, <1>2 DEF IInv, PhaseInv, HeldInv, Starting
<1>4. ThreadsInv'
  <2>1. CASE "capture" \in held'
    BY <1>1, <1>2, <2>1 DEF IInv, ThreadsInv, StartCapture
  <2>2. CASE "capture" \notin held'
    BY <1>1, <2>2 DEF IInv, ThreadsInv, StartCapture, capture
  <2>3. QED
    BY <2>1, <2>2
<1>5. QED
  BY <1>3, <1>4 DEF IInv

\* The loop runs with everything held; a candidate finds its decoder there.
LoopStep == ProcessBlock \/ PopReady \/ PopNothing \/ StopRequested

LEMMA LoopKeeps == IInv /\ LoopStep => IInv'
<1> SUFFICES ASSUME IInv, LoopStep PROVE IInv'
  OBVIOUS
<1>1. /\ mainPc \in {"loop", "pop"} /\ mainPc' \in {"loop", "pop", "join worker"}
      /\ UNCHANGED <<held, captureRunning, capturePc, pcm, state>>
  BY DEF LoopStep, ProcessBlock, PopReady, PopNothing, StopRequested, MainMoves, capture,
         radio
<1>2. queued' = queued \/ queued' = queued + 1
  BY DEF LoopStep, ProcessBlock, PopReady, PopNothing, StopRequested, decoding
<1>3. "decoder" \in held
  BY <1>1 DEF IInv, PhaseInv
<1>4. PhaseInv' /\ HeldInv'
  BY <1>1 DEF IInv, PhaseInv, HeldInv
<1>5. queued' \in Nat
  <2>1. queued \in Nat
    BY DEF IInv, ThreadsInv
  <2>2. QED
    BY <1>2, <2>1
<1>6. ThreadsInv'
  <2>1. mainPc' \notin {"drop", "join capture"}
    BY <1>1
  <2>2. QED
    BY <1>1, <1>3, <1>5, <2>1 DEF IInv, ThreadsInv
<1>7. QED
  BY <1>4, <1>6 DEF IInv

\* The worker first, then the capture, with its flag cleared before the device
\* is stopped under the read.
LEMMA StopKeeps ==
  IInv /\ (WorkerJoined \/ NoCapture \/ StopFlag \/ DropPcm \/ CaptureJoined) => IInv'
<1> SUFFICES ASSUME PhaseInv, HeldInv, ThreadsInv,
                    WorkerJoined \/ NoCapture \/ StopFlag \/ DropPcm \/ CaptureJoined
             PROVE  PhaseInv' /\ HeldInv' /\ ThreadsInv'
  BY DEF IInv
<1> USE DEF MainMoves, MainCloses, capture, decoding, radio
<1>1. CASE WorkerJoined
  <2>1. PhaseInv' /\ HeldInv'
    BY <1>1 DEF WorkerJoined, PhaseInv, HeldInv
  <2>2. QED
    BY <1>1, <2>1 DEF WorkerJoined, ThreadsInv
<1>2. CASE NoCapture
  <2>1. PhaseInv' /\ HeldInv'
    BY <1>2 DEF NoCapture, PhaseInv, HeldInv
  <2>2. QED
    BY <1>2, <2>1 DEF NoCapture, ThreadsInv
<1>3. CASE StopFlag
  <2>1. PhaseInv' /\ HeldInv'
    BY <1>3 DEF StopFlag, PhaseInv, HeldInv
  <2>2. QED
    BY <1>3, <2>1 DEF StopFlag, ThreadsInv
<1>4. CASE DropPcm
  <2>1. PhaseInv' /\ HeldInv' /\ "audio" \in held
    BY <1>4 DEF DropPcm, PhaseInv, HeldInv
  <2>2. QED
    BY <1>4, <2>1 DEF DropPcm, ThreadsInv
<1>5. CASE CaptureJoined
  <2>1. PhaseInv' /\ HeldInv' /\ "audio" \in held /\ ~captureRunning
    BY <1>5 DEF CaptureJoined, PhaseInv, HeldInv, ThreadsInv
  <2>2. QED
    BY <1>5, <2>1 DEF CaptureJoined, ThreadsInv
<1>6. QED
  BY <1>1, <1>2, <1>3, <1>4, <1>5

\* What is left is closed after the threads that used it were joined.
LEMMA CloseKeeps ==
  IInv /\ (DecodersJoined \/ CloseRuntime \/ CloseLine \/ CloseAudio \/ ReleaseMemory)
    => IInv'
<1> SUFFICES ASSUME PhaseInv, HeldInv, ThreadsInv,
                    DecodersJoined \/ CloseRuntime \/ CloseLine \/ CloseAudio
                      \/ ReleaseMemory
             PROVE  PhaseInv' /\ HeldInv' /\ ThreadsInv'
  BY DEF IInv
<1> USE DEF MainCloses, capture, decoding, radio
<1>1. CASE DecodersJoined
  <2>1. PhaseInv' /\ HeldInv'
    BY <1>1 DEF DecodersJoined, PhaseInv, HeldInv
  <2>2. /\ UNCHANGED <<pcm, captureRunning, capturePc, state, queued>>
        /\ held' = held \ {"decoder", "equalizer"} /\ queued = 0
        /\ mainPc' = "deinit"
    BY <1>1 DEF DecodersJoined
  <2>3. queued' \in Nat /\ ~(queued' > 0)
    BY <2>2
  <2>4. capturePc' # "ended" \/ captureRunning' => "capture" \in held'
    BY <2>2 DEF ThreadsInv
  <2>5. state' # "RX_IDLE" => "worker" \in held'
    BY <2>2 DEF ThreadsInv
  <2>6. pcm' \in {"prepared", "running", "overrun", "failed", "stopped"}
         => "audio" \in held'
    BY <2>2 DEF ThreadsInv
  <2>7. mainPc' \notin {"drop", "join capture"}
    BY <2>2
  <2> HIDE DEF MainCloses, capture, decoding, radio
  <2>8. ThreadsInv'
    BY <2>3, <2>4, <2>5, <2>6, <2>7 DEF ThreadsInv
  <2>9. QED
    BY <2>1, <2>8
<1>2. CASE CloseRuntime
  <2>1. PhaseInv' /\ HeldInv'
    BY <1>2 DEF CloseRuntime, TearsDown, PhaseInv, HeldInv
  <2>2. QED
    BY <1>2, <2>1 DEF CloseRuntime, TearsDown, Radio!Teardown, ThreadsInv
<1>3. CASE CloseLine
  <2>1. PhaseInv' /\ HeldInv'
    BY <1>3 DEF CloseLine, TearsDown, PhaseInv, HeldInv
  <2>2. QED
    BY <1>3, <2>1 DEF CloseLine, TearsDown, Radio!Teardown, ThreadsInv
<1>4. CASE CloseAudio
  <2>1. PhaseInv' /\ HeldInv'
    BY <1>4 DEF CloseAudio, PhaseInv, HeldInv
  <2>2. "capture" \notin held /\ "worker" \notin held /\ "decoder" \notin held
    BY <1>4 DEF CloseAudio, PhaseInv
  <2>3. QED
    BY <1>4, <2>1, <2>2 DEF CloseAudio, ThreadsInv
<1>5. CASE ReleaseMemory
  <2>1. held' = {} /\ mainPc' = "done" /\ mainPc = "release"
    BY <1>5 DEF ReleaseMemory, PhaseInv, Starting
  <2>2. PhaseInv' /\ HeldInv'
    BY <2>1 DEF PhaseInv, HeldInv
  <2>3. /\ "capture" \notin held /\ "worker" \notin held /\ "decoder" \notin held
        /\ "audio" \notin held
    BY <2>1 DEF PhaseInv
  <2>4. QED
    BY <1>5, <2>1, <2>2, <2>3 DEF ReleaseMemory, ThreadsInv
<1>6. QED
  BY <1>1, <1>2, <1>3, <1>4, <1>5

\* Every reachable state has the invariant.
LEMMA Invariance == Spec => []IInv
<1>1. ASSUME IInv, [Next]_vars PROVE IInv'
  <2>1. CASE Record \/ DeviceFails
    <3>1. /\ UNCHANGED <<mainPc, held, captureRunning, capturePc, queued, state>>
          /\ "audio" \in held
      BY <1>1, <2>1 DEF Record, DeviceFails, life, decoding, radio, IInv, ThreadsInv
    <3>2. ThreadsInv'
      BY <1>1, <3>1 DEF IInv, ThreadsInv
    <3>3. QED
      BY <1>1, <3>1, <3>2, LifeStays DEF IInv
  <2>2. CASE GetReady
    <3>1. Prepares /\ UNCHANGED <<capturePc, captureRunning, state, queued, pcm>>
      BY <2>2 DEF GetReady, capture, decoding, radio
    <3>2. QED
      BY <1>1, <3>1, PreparesKeeps, ThreadsStay DEF IInv
  <2>3. CASE Decode
    <3>1. /\ UNCHANGED <<mainPc, held, captureRunning, capturePc, pcm, state>>
          /\ queued > 0 /\ queued' = queued - 1
      BY <2>3 DEF Decode, life, capture, radio
    <3>2. queued \in Nat /\ "decoder" \in held
      BY <1>1, <3>1 DEF IInv, ThreadsInv
    <3>3. queued' \in Nat
      BY <3>1, <3>2
    <3>4. ThreadsInv'
      BY <1>1, <3>1, <3>2, <3>3 DEF IInv, ThreadsInv
    <3>5. QED
      BY <1>1, <3>1, <3>4, LifeStays DEF IInv
  <2>4. CASE UNCHANGED vars
    BY <1>1, <2>4 DEF IInv, PhaseInv, HeldInv, ThreadsInv, vars, life, capture, decoding,
                      radio
  <2>5. QED
    BY <1>1, <2>1, <2>2, <2>3, <2>4, CaptureThreadKeeps, RadioKeeps, StartCaptureKeeps,
       LoopKeeps, StopKeeps, CloseKeeps DEF Next, Main, LoopStep
<1>2. QED
  BY InitInvariant, <1>1, PTL DEF Spec

\* No thread works with what is not open yet, or closed already, wherever the
\* start was refused; and the program ends with everything given back.
THEOREM DevicesAreHeld == Spec => []ThreadsKeepTheirDevices
<1>1. IInv => ThreadsKeepTheirDevices
  BY DEF IInv, PhaseInv, HeldInv, ThreadsInv, ThreadsKeepTheirDevices
<1>2. QED
  BY <1>1, Invariance, PTL

-----------------------------------------------------------------------------
(* The type invariant: nothing outgrows what is configured. *)

P == Config.pretrigger

Audio == {"audio"}

Detectors ==
  [seen : Nat, noise : BOOLEAN, active : BOOLEAN, candidate : Seq(Audio),
   quiet : Nat, cooldown : Nat, ring : [0 .. P - 1 -> Audio], write : 0 .. P - 1,
   count : 0 .. P]

\* An open candidate is not empty, and not full yet.
CandidateFits(d) ==
  /\ d.active = (d.candidate # << >>)
  /\ Len(d.candidate) < Config.maximum

\* A block puts at most one candidate on top of what the decoders hold, and the
\* loop does not turn to the next block before every result was popped.
BacklogInv ==
  /\ queued \in Nat /\ queued <= QueueCapacity /\ ready \in Nat
  /\ queued + ready <= QueueCapacity + 1
  /\ mainPc # "pop" => queued + ready <= QueueCapacity
  /\ mainPc \in Starting => queued = 0 /\ ready = 0

DetectorInv ==
  /\ detector \in Detectors /\ CandidateFits(detector)

LifeTypes ==
  /\ mainPc \in Starting \union
       {"loop", "pop", "join worker", "clear", "drop", "join capture",
        "join decoders", "deinit", "close line", "close audio", "release",
        "done"}
  /\ held \subseteq Starting
  /\ mode \in {"frames", "packet", "kiss"}

CaptureTypes ==
  /\ pcm \in {"prepared", "running", "overrun", "failed", "gone", "stopped",
              "closed"}
  /\ captureRunning \in BOOLEAN
  /\ capturePc \in {"check", "read", "prepare", "error", "recover", "ended"}

RingTypes ==
  /\ echo \in BOOLEAN
  /\ periods \in Seq(BOOLEAN) /\ Len(periods) < Periods
  /\ audioRing \in Seq(BOOLEAN) /\ Len(audioRing) <= RingCapacity

RadioTypes == state \in Radio!States /\ ptt \in BOOLEAN /\ late \in BOOLEAN

ScanTypes ==
  /\ openedBy \in {"nobody", "own", "remote"} /\ channelBusy \in BOOLEAN

TypeInv ==
  /\ LifeTypes /\ CaptureTypes /\ RingTypes /\ RadioTypes /\ ScanTypes
  /\ DetectorInv /\ BacklogInv

\* The constants are numbers.
LEMMA Sizes ==
  /\ P \in Nat /\ P > 0 /\ Config.warmup \in Nat /\ Config.release \in Nat
  /\ Config.maximum \in Nat /\ Config.maximum > 0 /\ Config.cooldown \in Nat
  /\ Config.capture \in Nat
  /\ Periods \in Nat /\ Periods > 0 /\ RingCapacity \in Nat /\ RingCapacity > 0
  /\ QueueCapacity \in Nat /\ QueueCapacity > 0
BY CapacityAssumption, ConfigAssumption DEF ConfigIsValid, P

\* The pretriggered audio is a sequence of what the ring holds.
LEMMA PretriggeredIsAudio ==
  ASSUME NEW d \in Detectors
  PROVE  Pretriggered(d, Config) \in Seq(Audio)
<1> DEFINE w == d.write
           n == d.count
           r == d.ring
<1>1. w \in 0 .. P - 1 /\ n \in 0 .. P /\ r \in [0 .. P - 1 -> Audio]
  BY DEF Detectors
<1>2. P \in Nat /\ P > 0
  BY Sizes
<1>3. Pretriggered(d, Config) = [i \in 1 .. n |-> r[(w + P - n + i - 1) % P]]
  BY DEF Pretriggered, P
<1> HIDE DEF w, n, r, P
<1>4. ASSUME NEW i \in 1 .. n
      PROVE  r[(w + P - n + i - 1) % P] \in Audio
  <2> DEFINE x == w + P - n + i - 1
  <2>1. x \in Nat
    BY <1>1, <1>2
  <2> HIDE DEF x
  <2>2. x % P \in 0 .. P - 1
    BY <1>2, <2>1
  <2>3. r[x % P] \in Audio
    BY <1>1, <2>2
  <2>4. QED
    BY <2>3 DEF x
<1>5. [i \in 1 .. n |-> r[(w + P - n + i - 1) % P]] \in [1 .. n -> Audio]
  BY <1>4
<1>6. n \in Nat
  BY <1>1, <1>2
<1>7. QED
  BY <1>3, <1>5, <1>6

\* A sample more in the ring leaves the candidate alone.
LEMMA RememberedFits ==
  ASSUME NEW d \in Detectors, NEW level
  PROVE  LET kept == Remembered(d, Config, "audio", level) IN
           /\ kept \in Detectors
           /\ kept.active = d.active /\ kept.candidate = d.candidate
<1> DEFINE kept == Remembered(d, Config, "audio", level)
           w == d.write
           n == d.count
           r == d.ring
           seen == IF d.seen < Config.warmup THEN d.seen + 1 ELSE d.seen
           noise == Noisy(d, level)
           cooldown == IF ~d.active /\ d.cooldown > 0 THEN d.cooldown - 1
                                                      ELSE d.cooldown
           ring == [r EXCEPT ![w] = "audio"]
           write == (w + 1) % P
           count == IF n < P THEN n + 1 ELSE n
<1>1. /\ w \in 0 .. P - 1 /\ n \in 0 .. P /\ r \in [0 .. P - 1 -> Audio]
      /\ d.noise \in BOOLEAN /\ d.seen \in Nat /\ d.cooldown \in Nat /\ d.active \in BOOLEAN
      /\ d.candidate \in Seq(Audio) /\ d.quiet \in Nat
  BY DEF Detectors
<1>2. P \in Nat /\ P > 0
  BY Sizes
<1>3. kept = [d EXCEPT !.seen = seen, !.noise = noise, !.cooldown = cooldown,
                       !.ring = ring, !.write = write, !.count = count]
  BY DEF Remembered, Detectors, P
<1>4. seen \in Nat /\ noise \in BOOLEAN
  <2>1. CASE d.seen = 0
    BY <1>1, <2>1 DEF Noisy
  <2>2. CASE d.seen # 0
    BY <1>1, <2>2 DEF Noisy
  <2>3. QED
    BY <2>1, <2>2
<1>5. cooldown \in Nat
  BY <1>1
<1> HIDE DEF kept, w, n, r, P, seen, noise, cooldown
<1>6. ring \in [0 .. P - 1 -> Audio]
  BY <1>1 DEF Audio
<1>7. write \in 0 .. P - 1 /\ count \in 0 .. P
  BY <1>1, <1>2
<1> HIDE DEF ring, write, count
<1>8. kept = [seen |-> seen, noise |-> noise, active |-> d.active,
              candidate |-> d.candidate, quiet |-> d.quiet, cooldown |-> cooldown,
              ring |-> ring, write |-> write, count |-> count]
  BY <1>3 DEF Detectors
<1>9. kept \in Detectors
  BY <1>1, <1>4, <1>5, <1>6, <1>7, <1>8 DEF Detectors
<1>10. kept.active = d.active /\ kept.candidate = d.candidate
  BY <1>8
<1>11. QED
  BY <1>9, <1>10 DEF kept

\* One sample: the candidate grows by one and is closed when it is full.
LEMMA ProcessFits ==
  ASSUME NEW d \in Detectors, CandidateFits(d), NEW level, NEW trigger
  PROVE  LET after == Process(d, Config, "audio", level, trigger).detector IN
           after \in Detectors /\ CandidateFits(after)
<1> DEFINE opens == Opens(d, Config, level, trigger)
           captured == Captured(d, Config, "audio", opens)
           quiet == Quieted(d, level, opens)
           kept == Remembered(d, Config, "audio", level)
           open == [kept EXCEPT !.active = TRUE, !.candidate = captured, !.quiet = quiet]
           closed == Closed(open, Config)
           after == Process(d, Config, "audio", level, trigger).detector
<1>1. /\ kept \in Detectors
      /\ kept.active = d.active /\ kept.candidate = d.candidate
  BY RememberedFits
<1>2. d.candidate \in Seq(Audio) /\ d.quiet \in Nat
  BY DEF Detectors
<1>3. /\ Config.maximum \in Nat /\ Config.maximum > 0 /\ Config.cooldown \in Nat
  BY Sizes
<1>4. quiet \in Nat
  BY <1>2 DEF Quieted
<1>5. captured \in Seq(Audio) /\ captured # << >> /\ Len(captured) \in Nat
  <2> DEFINE before == IF opens THEN Pretriggered(d, Config) ELSE d.candidate
  <2>1. before \in Seq(Audio)
    BY <1>2, PretriggeredIsAudio
  <2>2. captured = Append(before, "audio") /\ "audio" \in Audio
    BY DEF Captured, Audio
  <2> HIDE DEF before, captured
  <2>3. QED
    BY <2>1, <2>2, AppendProperties
<1>6. after = IF ~d.active /\ ~opens THEN kept
                ELSE IF Finished(Config, Len(captured), quiet) THEN closed ELSE open
  BY DEF Process
<1>7. ~Finished(Config, Len(captured), quiet) => ~(Len(captured) >= Config.maximum)
  BY DEF Finished
<1> HIDE DEF opens, captured, quiet, kept, after
<1>8. open = [seen |-> kept.seen, noise |-> kept.noise, active |-> TRUE,
              candidate |-> captured, quiet |-> quiet, cooldown |-> kept.cooldown, ring |-> kept.ring,
              write |-> kept.write, count |-> kept.count]
  <2>1. open = [kept EXCEPT !.active = TRUE, !.candidate = captured, !.quiet = quiet]
    OBVIOUS
  <2> HIDE DEF P, open
  <2>2. QED
    BY <1>1, <2>1 DEF Detectors
<1>9. closed = [seen |-> kept.seen, noise |-> kept.noise, active |-> FALSE,
                candidate |-> << >>, quiet |-> 0, cooldown |-> Config.cooldown,
                ring |-> kept.ring, write |-> kept.write, count |-> kept.count]
  <2> HIDE DEF open
  <2>1. closed = [open EXCEPT !.active = FALSE, !.candidate = << >>, !.quiet = 0,
                              !.cooldown = Config.cooldown]
    BY DEF Closed
  <2>2. QED
    BY <1>8, <2>1
<1> HIDE DEF open, closed
<1>10. /\ kept.seen \in Nat /\ kept.noise \in BOOLEAN /\ kept.cooldown \in Nat
       /\ kept.ring \in [0 .. P - 1 -> Audio]
       /\ kept.write \in 0 .. P - 1 /\ kept.count \in 0 .. P
  <2> HIDE DEF P
  <2>1. QED
    BY <1>1 DEF Detectors
<1>11. CASE ~d.active /\ ~opens
  BY <1>1, <1>6, <1>11 DEF CandidateFits, after
<1>12. CASE (d.active \/ opens) /\ Finished(Config, Len(captured), quiet)
  <2>1. closed \in Detectors
    <3>1. 0 \in Nat /\ << >> \in Seq(Audio)
      OBVIOUS
    <3> HIDE DEF P
    <3>2. QED
      BY <1>3, <1>9, <1>10, <3>1 DEF Detectors
  <2>2. ~closed.active /\ closed.active \in BOOLEAN /\ closed.candidate = << >>
    BY <1>9
  <2>3. CandidateFits(closed)
    BY <1>3, <2>2 DEF CandidateFits
  <2>4. QED
    BY <1>6, <1>12, <2>1, <2>3 DEF after
<1>13. CASE (d.active \/ opens) /\ ~Finished(Config, Len(captured), quiet)
  <2>1. open \in Detectors
    <3> HIDE DEF P
    <3>1. QED
      BY <1>4, <1>5, <1>8, <1>10 DEF Detectors
  <2>2. open.active = TRUE /\ open.candidate = captured
    BY <1>8
  <2>3. Len(captured) < Config.maximum
    BY <1>3, <1>5, <1>7, <1>13
  <2>4. CandidateFits(open)
    BY <1>5, <2>2, <2>3 DEF CandidateFits
  <2>5. QED
    BY <1>6, <1>13, <2>1, <2>4 DEF after
<1>14. QED
  BY <1>11, <1>12, <1>13 DEF after

\* Nothing is configured, opened, captured or queued at the start.
LEMMA InitTypes == Init => TypeInv
<1> SUFFICES ASSUME Init PROVE TypeInv
  OBVIOUS
<1>1. LifeTypes /\ CaptureTypes /\ ScanTypes
  BY DEF Init, StartInit, LifeTypes, CaptureTypes, ScanTypes, Starting
<1>2. RingTypes
  <2>1. << >> \in Seq(BOOLEAN) /\ Len(<< >>) = 0 /\ 0 <= RingCapacity /\ 0 < Periods
    BY CapacityAssumption
  <2>2. QED
    BY <2>1 DEF Init, RingTypes
<1>3. RadioTypes
  BY DEF Init, RadioTypes, Radio!Init, Radio!States
<1>4. BacklogInv
  BY Sizes DEF Init, BacklogInv
<1>5. DetectorInv
  <2>1. detector = [seen |-> 0, noise |-> FALSE, active |-> FALSE,
                    candidate |-> << >>, quiet |-> 0, cooldown |-> 0,
                    ring |-> [i \in 0 .. P - 1 |-> "audio"], write |-> 0, count |-> 0]
    BY DEF Init, NewDetector, P
  <2>2. P \in Nat /\ P > 0 /\ Config.maximum \in Nat /\ Config.maximum > 0
    BY Sizes
  <2> HIDE DEF P
  <2>3. [i \in 0 .. P - 1 |-> "audio"] \in [0 .. P - 1 -> Audio] /\ << >> \in Seq(Audio)
        /\ 0 \in 0 .. P - 1 /\ 0 \in 0 .. P
    BY <2>2 DEF Audio
  <2>4. detector \in Detectors
    BY <2>1, <2>3 DEF Detectors
  <2>5. CandidateFits(detector)
    BY <2>1, <2>2 DEF CandidateFits
  <2>6. QED
    BY <2>4, <2>5 DEF DetectorInv
<1>6. QED
  BY <1>1, <1>2, <1>3, <1>4, <1>5 DEF TypeInv

\* What the steps leave alone.  Only the main thread moves itself and works the
\* detector, only it and the decoders touch the results.
LEMMA OthersLeave ==
  ASSUME Record \/ DeviceFails \/ CaptureThread \/ Poll \/ Transmit
  PROVE  UNCHANGED <<life, scanning, decoding>>
<1>1. ASSUME NEW step, RadioMoves(step)
      PROVE  UNCHANGED <<life, scanning, decoding>>
  BY <1>1 DEF RadioMoves
<1>2. ASSUME NEW from, NEW to, CaptureMoves(from, to)
      PROVE  UNCHANGED <<life, scanning, decoding>>
  BY <1>2 DEF CaptureMoves
<1>3. CASE Record \/ DeviceFails
  BY <1>3 DEF Record, DeviceFails
<1>4. CASE CaptureThread
  BY <1>2, <1>4 DEF CaptureThread, CheckRunning, ReadStarts, ReadBlock, ReadOverrun,
                    ReadError, Prepare, CheckError, Recover, RecoverFails
<1>5. CASE Poll \/ Transmit
  BY <1>1, <1>5 DEF Poll, Transmit
<1>6. QED
  BY <1>3, <1>4, <1>5

Stopping ==
  \/ StopRequested \/ WorkerJoined \/ NoCapture \/ StopFlag \/ DropPcm
  \/ CaptureJoined \/ DecodersJoined \/ CloseRuntime \/ CloseLine \/ CloseAudio
  \/ ReleaseMemory

LEMMA StoppingLeaves ==
  ASSUME Stopping
  PROVE  /\ UNCHANGED <<mode, audioRing, scanning, decoding, state, late>>
         /\ mainPc \notin Starting /\ mainPc \notin {"pop"}
         /\ mainPc' \notin Starting /\ mainPc' \notin {"pop"}
<1> USE DEF MainMoves, MainCloses, radio, Starting
<1>1. CASE StopRequested \/ WorkerJoined \/ NoCapture \/ StopFlag
  BY <1>1 DEF StopRequested, WorkerJoined, NoCapture, StopFlag
<1>2. CASE DropPcm \/ CaptureJoined \/ DecodersJoined
  BY <1>2 DEF DropPcm, CaptureJoined, DecodersJoined
<1>3. CASE CloseRuntime \/ CloseLine \/ CloseAudio \/ ReleaseMemory
  BY <1>3 DEF CloseRuntime, CloseLine, CloseAudio, ReleaseMemory, TearsDown,
              Radio!Teardown
<1>4. QED
  BY <1>1, <1>2, <1>3 DEF Stopping

Looping == ProcessBlock \/ PopReady \/ PopNothing

\* The steps, in the groups the proofs below go by.
LEMMA NextSplits ==
  ASSUME [Next]_vars
  PROVE  \/ Record \/ DeviceFails \/ CaptureThread \/ Poll \/ Transmit
         \/ GetReady \/ StartCapture \/ Looping \/ Stopping \/ Decode
         \/ UNCHANGED vars
BY DEF Next, Main, Looping, Stopping

\* The main thread goes from one of its places to another, with what it holds.
LEMMA LifeTyped ==
  ASSUME LifeTypes, [Next]_vars
  PROVE  LifeTypes'
<1> USE DEF LifeTypes, Starting
<1>1. CASE Record \/ DeviceFails \/ CaptureThread \/ Poll \/ Transmit
  BY <1>1, OthersLeave DEF life
<1>2. CASE GetReady
  <2>1. Prepares
    BY <1>2 DEF GetReady
  <2>2. PICK what, next :
          /\ Takes(what, next) /\ what \in Starting
          /\ next \in Starting
    BY <2>1 DEF Prepares, LoadConfiguration, InitModem, InitEqualizerModem, InitDetector,
                OpenAudio, OpenLine, InitRuntime, OpenSocket, StartWorker, StartEqualizer,
                StartDecoder, FirstDecoder
  <2>3. QED
    BY <2>2 DEF Takes, GivesUp
<1>3. CASE StartCapture
  BY <1>3 DEF StartCapture, Takes, GivesUp
<1>4. CASE Looping
  BY <1>4 DEF Looping, ProcessBlock, PopReady, PopNothing, MainMoves
<1>5. CASE Stopping
  <2> USE DEF MainMoves, MainCloses
  <2>1. CASE StopRequested \/ WorkerJoined \/ NoCapture \/ StopFlag
    BY <2>1 DEF StopRequested, WorkerJoined, NoCapture, StopFlag
  <2>2. CASE DropPcm \/ CaptureJoined \/ DecodersJoined
    BY <2>2 DEF DropPcm, CaptureJoined, DecodersJoined
  <2>3. CASE CloseRuntime \/ CloseLine \/ CloseAudio \/ ReleaseMemory
    BY <2>3 DEF CloseRuntime, CloseLine, CloseAudio, ReleaseMemory, TearsDown
  <2>4. QED
    BY <1>5, <2>1, <2>2, <2>3 DEF Stopping
<1>6. CASE Decode
  BY <1>6 DEF Decode, life
<1>7. CASE UNCHANGED vars
  BY <1>7 DEF vars, life
<1>8. QED
  BY <1>1, <1>2, <1>3, <1>4, <1>5, <1>6, <1>7, NextSplits

\* The device and the thread that reads it.
LEMMA CaptureTyped ==
  ASSUME CaptureTypes, [Next]_vars
  PROVE  CaptureTypes'
<1> USE DEF CaptureTypes
<1>1. CASE Record \/ DeviceFails
  BY <1>1 DEF Record, DeviceFails
<1>2. CASE CaptureThread
  BY <1>2 DEF CaptureThread, CheckRunning, ReadStarts, ReadBlock, ReadOverrun, ReadError,
              Prepare, CheckError, Recover, RecoverFails, CaptureMoves
<1>3. ASSUME UNCHANGED capture PROVE CaptureTypes'
  BY <1>3 DEF capture
<1>4. CASE Poll \/ Transmit
  <2>1. ASSUME NEW step, RadioMoves(step) PROVE UNCHANGED capture
    BY <2>1 DEF RadioMoves
  <2>2. QED
    BY <1>3, <1>4, <2>1 DEF Poll, Transmit
<1>5. CASE GetReady \/ Looping
  BY <1>3, <1>5 DEF GetReady, Looping, ProcessBlock, PopReady, PopNothing
<1>6. CASE StartCapture
  BY <1>3, <1>6 DEF StartCapture
<1>7. CASE Stopping
  <2>1. CASE StopFlag \/ DropPcm \/ CaptureJoined \/ CloseAudio
    BY <2>1 DEF StopFlag, DropPcm, CaptureJoined, CloseAudio
  <2>2. CASE ~(StopFlag \/ DropPcm \/ CaptureJoined \/ CloseAudio)
    BY <1>3, <1>7, <2>2 DEF Stopping, StopRequested, WorkerJoined, NoCapture,
          DecodersJoined, CloseRuntime, CloseLine, ReleaseMemory, TearsDown
  <2>3. QED
    BY <2>1, <2>2
<1>8. CASE Decode \/ UNCHANGED vars
  BY <1>3, <1>8 DEF Decode, vars
<1>9. QED
  BY <1>1, <1>2, <1>4, <1>5, <1>6, <1>7, <1>8, NextSplits

\* The device and the ring take a block only when they have room for one.
LEMMA RingTyped ==
  ASSUME RingTypes, RadioTypes, [Next]_vars
  PROVE  RingTypes'
<1> USE DEF RingTypes
<1>1. ASSUME UNCHANGED <<recording, audioRing>> PROVE RingTypes'
  BY <1>1 DEF recording
<1>2. CASE GetReady \/ StartCapture \/ Decode \/ UNCHANGED vars
  BY <1>1, <1>2 DEF GetReady, StartCapture, Decode, vars
<1>3. << >> \in Seq(BOOLEAN) /\ Len(<< >>) < Periods
  BY CapacityAssumption
<1>4. CASE Record
  <2>1. echo' \in BOOLEAN /\ (echo \/ ptt) \in BOOLEAN /\ audioRing' = audioRing
    BY <1>4 DEF Record, RadioTypes
  <2>2. CASE Len(periods) + 1 < Periods
    <3>1. periods' = Append(periods, echo \/ ptt)
      BY <1>4, <2>2 DEF Record
    <3>2. periods' \in Seq(BOOLEAN) /\ Len(periods') = Len(periods) + 1
      BY <2>1, <3>1, AppendProperties
    <3>3. QED
      BY <2>1, <2>2, <3>2
  <2>3. CASE ~(Len(periods) + 1 < Periods)
    BY <1>3, <1>4, <2>1, <2>3 DEF Record
  <2>4. QED
    BY <2>2, <2>3
<1>5. CASE DeviceFails
  BY <1>3, <1>5 DEF DeviceFails
<1>6. CASE CaptureThread
  <2>1. CASE ReadBlock
    <3>1. /\ periods # << >> /\ periods' = Tail(periods) /\ echo' = echo
      BY <2>1 DEF ReadBlock
    <3>2. /\ periods' \in Seq(BOOLEAN) /\ Len(periods') = Len(periods) - 1
          /\ Head(periods) \in BOOLEAN
      BY <3>1, HeadTailProperties
    <3>3. Len(periods) \in Nat /\ Periods \in Nat
      BY CapacityAssumption
    <3>4. Len(periods') < Periods
      BY <3>2, <3>3
    <3>5. CASE Len(audioRing) < RingCapacity
      <4>1. audioRing' = Append(audioRing, Head(periods))
        BY <2>1, <3>5 DEF ReadBlock
      <4>2. audioRing' \in Seq(BOOLEAN) /\ Len(audioRing') = Len(audioRing) + 1
        BY <3>2, <4>1, AppendProperties
      <4>3. Len(audioRing) \in Nat /\ RingCapacity \in Nat
        BY CapacityAssumption
      <4>4. QED
        BY <3>1, <3>2, <3>4, <3>5, <4>2, <4>3
    <3>6. CASE ~(Len(audioRing) < RingCapacity)
      BY <2>1, <3>1, <3>2, <3>4, <3>6 DEF ReadBlock
    <3>7. QED
      BY <3>5, <3>6
  <2>2. CASE ReadStarts \/ Prepare \/ Recover
    BY <1>3, <2>2 DEF ReadStarts, Prepare, Recover, RadioTypes
  <2>3. CASE ~(ReadStarts \/ ReadBlock \/ Prepare \/ Recover)
    BY <1>1, <1>6, <2>3 DEF CaptureThread, CheckRunning, ReadOverrun, ReadError,
                            CheckError, RecoverFails
  <2>4. QED
    BY <2>1, <2>2, <2>3
<1>7. ASSUME echo' = (echo \/ ptt'), UNCHANGED <<periods, audioRing>> PROVE RingTypes'
  BY <1>7
<1>8. CASE Poll \/ Transmit
  <2>1. ASSUME NEW step, RadioMoves(step)
        PROVE  echo' = (echo \/ ptt') /\ UNCHANGED <<periods, audioRing>>
    BY <2>1 DEF RadioMoves
  <2>2. QED
    BY <1>7, <1>8, <2>1 DEF Poll, Transmit
<1>9. CASE Looping
  <2>1. CASE ProcessBlock
    <3>1. /\ audioRing # << >> /\ audioRing' = Tail(audioRing)
          /\ echo' = echo /\ periods' = periods
      BY <2>1 DEF ProcessBlock, recording
    <3>2. audioRing' \in Seq(BOOLEAN) /\ Len(audioRing') = Len(audioRing) - 1
      BY <3>1, HeadTailProperties
    <3>3. Len(audioRing) \in Nat /\ RingCapacity \in Nat
      BY CapacityAssumption
    <3>4. QED
      BY <3>1, <3>2, <3>3
  <2>2. CASE PopReady \/ PopNothing
    BY <1>1, <2>2 DEF PopReady, PopNothing
  <2>3. QED
    BY <1>9, <2>1, <2>2 DEF Looping
<1>10. CASE Stopping
  <2>1. CASE CloseRuntime \/ CloseLine
    BY <1>7, <2>1 DEF CloseRuntime, CloseLine, TearsDown
  <2>2. CASE DropPcm
    BY <1>3, <2>2 DEF DropPcm
  <2>3. CASE ~(CloseRuntime \/ CloseLine \/ DropPcm)
    BY <1>1, <1>10, <2>3 DEF Stopping, StopRequested, WorkerJoined, NoCapture, StopFlag,
          CaptureJoined, DecodersJoined, CloseAudio, ReleaseMemory
  <2>4. QED
    BY <2>1, <2>2, <2>3
<1>11. QED
  BY <1>2, <1>4, <1>5, <1>6, <1>8, <1>9, <1>10, NextSplits

\* The transmitter goes through its states.
LEMMA RadioTyped ==
  ASSUME RadioTypes, RingTypes, [Next]_vars
  PROVE  RadioTypes'
<1> USE DEF RadioTypes
<1>1. ASSUME UNCHANGED radio PROVE RadioTypes'
  BY <1>1 DEF radio
<1>2. CASE \/ Record \/ DeviceFails \/ CaptureThread \/ GetReady \/ StartCapture
           \/ Looping \/ Decode
  BY <1>1, <1>2 DEF Record, DeviceFails, CaptureThread, CheckRunning, ReadStarts,
                    ReadBlock, ReadOverrun, ReadError, Prepare, CheckError, Recover,
                    RecoverFails, CaptureMoves, GetReady,
                    StartCapture, Looping, ProcessBlock, PopReady, PopNothing, Decode
<1>3. CASE Poll \/ Transmit
  <2>1. state' \in Radio!States /\ ptt' \in BOOLEAN
    BY <1>3 DEF Poll, Transmit, RadioMoves, Radio!States, Radio!Move, Radio!Wait,
                Radio!GiveUp, Radio!Start, Radio!Key, Radio!KeyFails, Radio!Send,
                Radio!EndSending, Radio!Release, Radio!Guard, Radio!Resume
  <2>2. ASSUME NEW step, RadioMoves(step) PROVE late' \in BOOLEAN
    BY <2>2 DEF RadioMoves
  <2>3. late' \in BOOLEAN
    BY <1>3, <2>2 DEF Poll, Transmit
  <2>4. QED
    BY <2>1, <2>3
<1>4. CASE Stopping
  <2>1. CASE CloseRuntime \/ CloseLine
    BY <2>1 DEF CloseRuntime, CloseLine, TearsDown, Radio!Teardown
  <2>2. CASE ~(CloseRuntime \/ CloseLine)
    BY <1>1, <1>4, <2>2 DEF Stopping, StopRequested, WorkerJoined, NoCapture, StopFlag,
          DropPcm, CaptureJoined, DecodersJoined, CloseAudio, ReleaseMemory
  <2>3. QED
    BY <2>1, <2>2
<1>5. CASE UNCHANGED vars
  BY <1>1, <1>5 DEF vars
<1>6. QED
  BY <1>2, <1>3, <1>4, <1>5, NextSplits

\* A block leaves a detector of the right kind behind.
LEMMA BlockTyped ==
  ASSUME DetectorInv, ScanTypes, ProcessBlock
  PROVE  DetectorInv' /\ ScanTypes'
<1>1. PICK level \in Levels(detector), trigger \in BOOLEAN :
        LET after == Process(detector, Config, "audio", level, trigger)
            own == IF Head(audioRing) THEN "own" ELSE "remote"
        IN /\ detector' = after.detector
           /\ openedBy' = CASE ~after.detector.active -> "nobody"
                            [] detector.active -> openedBy
                            [] OTHER -> own
           /\ channelBusy' =
                IF after.detector.noise /\ after.detector.seen >= Config.warmup
                  THEN after.detector.active ELSE channelBusy
  BY DEF ProcessBlock
<1>2. detector' \in Detectors /\ CandidateFits(detector')
  BY <1>1, ProcessFits DEF DetectorInv
<1>3. DetectorInv'
  BY <1>2 DEF DetectorInv, CandidateFits, Detectors, P
<1>4. ScanTypes'
  <2>1. detector'.active \in BOOLEAN
    BY <1>2 DEF Detectors
  <2>2. channelBusy' \in BOOLEAN
    BY <1>1, <2>1 DEF ScanTypes
  <2>3. openedBy' \in {"nobody", "own", "remote"}
    BY <1>1 DEF ScanTypes
  <2>4. QED
    BY <2>2, <2>3 DEF ScanTypes
<1>5. QED
  BY <1>3, <1>4

LEMMA ScanTyped ==
  ASSUME DetectorInv, ScanTypes, [Next]_vars
  PROVE  DetectorInv' /\ ScanTypes'
<1>1. CASE UNCHANGED scanning
  BY <1>1 DEF scanning, DetectorInv, CandidateFits, ScanTypes, Detectors, P
<1>2. CASE ProcessBlock
  BY <1>2, BlockTyped
<1>3. CASE ~ProcessBlock
  <2>1. UNCHANGED scanning
    BY <1>3, OthersLeave, StoppingLeaves, NextSplits
       DEF GetReady, StartCapture, Looping, PopReady, PopNothing, Decode, vars
  <2>2. QED
    BY <1>1, <2>1
<1>4. QED
  BY <1>2, <1>3

\* What is queued or waits to be popped fits the window, see BacklogInv.
LEMMA BacklogTyped ==
  ASSUME LifeTypes, BacklogInv, [Next]_vars
  PROVE  BacklogInv'
<1>1. QueueCapacity \in Nat /\ QueueCapacity > 0
  BY CapacityAssumption
<1> USE DEF BacklogInv
<1>2. CASE Record \/ DeviceFails \/ CaptureThread \/ Poll \/ Transmit \/ UNCHANGED vars
  BY <1>2, OthersLeave DEF life, decoding, vars
<1>3. CASE GetReady \/ StartCapture
  <2>1. UNCHANGED decoding /\ mainPc \in Starting
    BY <1>3 DEF GetReady, StartCapture, Takes, Starting, Prepares, LoadConfiguration,
         InitModem, InitEqualizerModem, InitDetector, OpenAudio, OpenLine, InitRuntime,
         OpenSocket, StartWorker, StartEqualizer, StartDecoder
  <2>2. QED
    BY <1>1, <2>1 DEF decoding
<1>4. CASE Stopping
  BY <1>4, StoppingLeaves DEF decoding
<1>5. CASE ProcessBlock
  <2>1. mainPc = "loop" /\ mainPc' = "pop" /\ mainPc' \notin Starting
    BY <1>5 DEF ProcessBlock, MainMoves, Starting
  <2>2. \/ UNCHANGED decoding
        \/ queued < QueueCapacity /\ queued' = queued + 1 /\ UNCHANGED ready
        \/ Answered /\ UNCHANGED queued
    BY <1>5 DEF ProcessBlock
  <2>3. QED
    BY <1>1, <2>1, <2>2 DEF decoding, Answered
<1>6. CASE PopReady
  <2>1. mainPc' \notin Starting
    BY <1>6 DEF PopReady, MainMoves, Starting
  <2>2. QED
    BY <1>1, <1>6, <2>1 DEF PopReady, MainMoves
<1>7. CASE PopNothing
  <2>1. mainPc' \notin Starting
    BY <1>7 DEF PopNothing, MainMoves, Starting
  <2>2. QED
    BY <1>1, <1>7, <2>1 DEF PopNothing, MainMoves, decoding
<1>8. CASE Decode
  <2>1. mainPc' = mainPc /\ queued > 0 /\ queued' = queued - 1 /\ Answered
    BY <1>8 DEF Decode, life
  <2>2. QED
    BY <1>1, <2>1 DEF Answered
<1>9. QED
  BY <1>2, <1>3, <1>4, <1>5, <1>6, <1>7, <1>8, NextSplits DEF Looping

LEMMA TypeInvariance == Spec => []TypeInv
<1>1. ASSUME TypeInv, [Next]_vars PROVE TypeInv'
  BY <1>1, LifeTyped, CaptureTyped, RingTyped, RadioTyped, ScanTyped, BacklogTyped
     DEF TypeInv
<1>2. QED
  BY InitTypes, <1>1, PTL DEF Spec

\* Every variable has its type; the audio ring, the decode queue and the
\* candidate buffer never hold more than is configured, and the results that
\* wait are at most one more than the decoders may hold.
THEOREM TypesHold == Spec => []TypeOK
<1>1. TypeInv => TypeOK
  <2> SUFFICES ASSUME TypeInv PROVE TypeOK
    OBVIOUS
  <2>1. /\ QueueCapacity \in Nat /\ queued \in Nat /\ ready \in Nat
        /\ queued <= QueueCapacity /\ queued + ready <= QueueCapacity + 1
    BY CapacityAssumption DEF TypeInv, BacklogInv
  <2>2. queued \in 0 .. QueueCapacity /\ ready \in 0 .. QueueCapacity + 1
    BY <2>1
  <2>3. /\ detector.write \in 0 .. Config.pretrigger - 1
        /\ detector.count \in 0 .. Config.pretrigger
    BY DEF TypeInv, DetectorInv, Detectors, P
  <2>4. /\ Len(detector.candidate) < Config.maximum
        /\ detector.active = (detector.candidate # << >>)
    BY DEF TypeInv, DetectorInv, CandidateFits
  <2>5. QED
    BY <2>2, <2>3, <2>4 DEF TypeInv, LifeTypes, CaptureTypes, RingTypes, RadioTypes,
                            ScanTypes, TypeOK
<1>2. QED
  BY <1>1, TypeInvariance, PTL

-----------------------------------------------------------------------------
(* The echo of the station's own signal. *)

\* Unless the receiver reopened too early, nothing of the station's own signal
\* is on its way while it receives: not in the air, in the ring or the candidate.
EchoInv == state = "RX_IDLE" /\ ~late => ~OwnPending

\* Only the service transmits; its worker is started by no other mode.
ServiceInv ==
  /\ "worker" \in held \/ mainPc \in {"socket", "worker"} => ServiceMode
  /\ ~ServiceMode => state = "RX_IDLE"

\* The worker polls, and goes on with a packet, on behalf of the service only.
LEMMA WorkerServes ==
  ASSUME IInv, ServiceInv, Poll \/ Transmit
  PROVE  ServiceMode
<1>1. CASE Poll
  BY <1>1 DEF Poll, ServiceInv
<1>2. CASE Transmit
  <2>1. ASSUME NEW step, RadioMoves(step) PROVE step
    BY <2>1 DEF RadioMoves
  <2>2. state # "RX_IDLE"
    BY <1>2, <2>1 DEF Transmit, Radio!Key, Radio!KeyFails, Radio!Send, Radio!EndSending,
                      Radio!Release, Radio!Guard, Radio!Resume, Radio!Move
  <2>3. QED
    BY <2>2 DEF ServiceInv
<1>3. QED
  BY <1>1, <1>2

LEMMA ServiceKept ==
  ASSUME IInv, ServiceInv, [Next]_vars
  PROVE  ServiceInv'
<1>1. CASE Poll \/ Transmit
  <2>1. ServiceMode /\ UNCHANGED life
    BY <1>1, OthersLeave, WorkerServes
  <2>2. QED
    BY <2>1 DEF ServiceInv, ServiceMode, life
<1>2. CASE ~(Poll \/ Transmit)
  <2>1. mode' = mode
    <3>1. CASE GetReady
      BY <3>1 DEF GetReady, Prepares, Takes, LoadConfiguration, InitModem,
         InitEqualizerModem, InitDetector, OpenAudio, OpenLine, InitRuntime, OpenSocket,
         StartWorker, StartEqualizer, StartDecoder
    <3>2. CASE ~GetReady
      BY <1>2, <3>2, OthersLeave, StoppingLeaves, NextSplits
         DEF life, StartCapture, Takes, Looping, ProcessBlock, PopReady, PopNothing,
             MainMoves, Decode, vars
    <3>3. QED
      BY <3>1, <3>2
  <2>2. "worker" \in held' \/ mainPc' \in {"socket", "worker"} => ServiceMode
    <3>1. CASE GetReady
      <4> USE DEF ServiceInv, Takes, GivesUp, FirstDecoder
      <4>1. CASE InitRuntime
        BY <4>1 DEF InitRuntime
      <4>2. CASE OpenSocket \/ StartWorker
        BY <4>2 DEF OpenSocket, StartWorker
      <4>3. CASE ~(InitRuntime \/ OpenSocket \/ StartWorker)
        BY <3>1, <4>3 DEF GetReady, Prepares, LoadConfiguration, InitModem,
           InitEqualizerModem, InitDetector, OpenAudio, OpenLine, StartEqualizer,
           StartDecoder
      <4>4. QED
        BY <4>1, <4>2, <4>3
    <3>2. CASE StartCapture
      BY <3>2 DEF StartCapture, Takes, GivesUp, ServiceInv
    <3>3. CASE Looping
      BY <3>3 DEF Looping, ProcessBlock, PopReady, PopNothing, MainMoves, ServiceInv
    <3>4. CASE Stopping
      <4>1. "worker" \in held' => "worker" \in held
        BY <3>4 DEF Stopping, StopRequested, WorkerJoined, NoCapture, StopFlag, DropPcm,
           CaptureJoined, DecodersJoined, CloseRuntime, CloseLine, CloseAudio,
           ReleaseMemory, TearsDown, MainMoves, MainCloses
      <4>2. mainPc' \notin {"socket", "worker"}
        BY <3>4, StoppingLeaves DEF Starting
      <4>3. QED
        BY <4>1, <4>2 DEF ServiceInv
    <3>5. CASE Record \/ DeviceFails \/ CaptureThread \/ Decode \/ UNCHANGED vars
      BY <3>5, OthersLeave DEF Decode, vars, life, ServiceInv
    <3>6. QED
      BY <1>2, <3>1, <3>2, <3>3, <3>4, <3>5, NextSplits
  <2>3. state' = state
    BY <1>2, StoppingLeaves, NextSplits
       DEF Record, DeviceFails, CaptureThread, CheckRunning, ReadStarts, ReadBlock,
           ReadOverrun, ReadError, Prepare, CheckError, Recover, RecoverFails,
           CaptureMoves, GetReady, StartCapture, Looping,
           ProcessBlock, PopReady, PopNothing, Decode, vars, radio
  <2>4. QED
    BY <2>1, <2>2, <2>3 DEF ServiceInv, ServiceMode
<1>3. QED
  BY <1>1, <1>2

\* A step of the transmitter that ends in RX_IDLE judges what is pending then.
LEMMA ReopeningJudges ==
  ASSUME EchoInv, Poll \/ Transmit
  PROVE  EchoInv'
<1> SUFFICES ASSUME state' = "RX_IDLE", ~late' PROVE ~OwnPending'
  BY DEF EchoInv
<1>1. ASSUME NEW step, RadioMoves(step)
      PROVE  /\ step /\ echo' = (echo \/ ptt')
             /\ UNCHANGED <<periods, audioRing, openedBy>>
             /\ state = state' \/ ~OwnPending
  BY <1>1 DEF RadioMoves, scanning
<1>2. /\ echo' = (echo \/ ptt') /\ UNCHANGED <<periods, audioRing, openedBy>>
      /\ state = state' \/ ~OwnPending
  BY <1>1 DEF Poll, Transmit
<1>3. state # "RX_IDLE" /\ ptt' = ptt
  BY <1>1 DEF Poll, Transmit, Radio!Wait, Radio!GiveUp, Radio!Start, Radio!Key,
     Radio!KeyFails, Radio!Send, Radio!EndSending, Radio!Release, Radio!Guard,
     Radio!Resume, Radio!Move
<1>4. ~OwnPending
  BY <1>2, <1>3
<1>5. QED
  BY <1>2, <1>3, <1>4 DEF OwnPending, HoldsOwn

\* A block more, or one less, of blocks that are not the station's own.
LEMMA NoOwnAppended ==
  ASSUME NEW blocks \in Seq(BOOLEAN), ~HoldsOwn(blocks)
  PROVE  ~HoldsOwn(Append(blocks, FALSE))
<1> DEFINE more == Append(blocks, FALSE)
<1>1. /\ Len(more) = Len(blocks) + 1 /\ Len(blocks) \in Nat
      /\ \A i \in 1 .. Len(blocks) : more[i] = blocks[i]
      /\ more[Len(blocks) + 1] = FALSE
  BY AppendProperties
<1> HIDE DEF more
<1>2. \A i \in 1 .. Len(more) : ~more[i]
  BY <1>1 DEF HoldsOwn
<1>3. QED
  BY <1>2 DEF HoldsOwn, more

LEMMA NoOwnTaken ==
  ASSUME NEW blocks \in Seq(BOOLEAN), blocks # << >>, ~HoldsOwn(blocks)
  PROVE  Head(blocks) = FALSE /\ ~HoldsOwn(Tail(blocks))
<1>1. /\ Len(blocks) \in Nat /\ Len(blocks) > 0
      /\ Head(blocks) = blocks[1] /\ Head(blocks) \in BOOLEAN
      /\ Len(Tail(blocks)) = Len(blocks) - 1
      /\ \A i \in 1 .. Len(Tail(blocks)) : Tail(blocks)[i] = blocks[i + 1]
  BY HeadTailProperties
<1>2. 1 \in 1 .. Len(blocks)
  BY <1>1
<1>3. ASSUME NEW i \in 1 .. Len(Tail(blocks)) PROVE ~Tail(blocks)[i]
  <2>1. i + 1 \in 1 .. Len(blocks)
    BY <1>1
  <2>2. QED
    BY <1>1, <2>1 DEF HoldsOwn
<1>4. QED
  BY <1>1, <1>2, <1>3 DEF HoldsOwn

\* What is recorded and read while nothing is pending is not the station's own.
LEMMA CapturingBringsNoEcho ==
  ASSUME RingTypes, RadioTypes, EchoInv, Record \/ DeviceFails \/ CaptureThread
  PROVE  EchoInv'
<1>1. UNCHANGED <<openedBy, state, ptt, late>>
  BY OthersLeave DEF scanning, Record, DeviceFails, CaptureThread, CheckRunning,
     ReadStarts, ReadBlock, ReadOverrun, ReadError, Prepare, CheckError, Recover,
     RecoverFails, CaptureMoves, radio
<1> SUFFICES ASSUME ~OwnPending PROVE ~OwnPending'
  BY <1>1 DEF EchoInv
<1>2. ~echo /\ ~ptt /\ openedBy # "own" /\ ~HoldsOwn(periods) /\ ~HoldsOwn(audioRing)
  BY DEF OwnPending
<1>3. periods \in Seq(BOOLEAN) /\ audioRing \in Seq(BOOLEAN)
  BY DEF RingTypes
<1>4. ~HoldsOwn(<< >>)
  BY DEF HoldsOwn
<1>5. ~echo' /\ ~HoldsOwn(periods') /\ ~HoldsOwn(audioRing')
  <2>1. CASE Record
    <3>1. ~echo' /\ audioRing' = audioRing
      BY <1>2, <2>1 DEF Record
    <3>2. (echo \/ ptt) = FALSE
      BY <1>2
    <3>3. periods' = Append(periods, FALSE) \/ periods' = << >>
      BY <2>1, <3>2 DEF Record
    <3>4. QED
      BY <1>2, <1>3, <1>4, <3>1, <3>3, NoOwnAppended
  <2>2. CASE ReadBlock
    <3>1. /\ ~echo' /\ periods # << >> /\ periods' = Tail(periods)
          /\ audioRing' = audioRing \/ audioRing' = Append(audioRing, Head(periods))
      BY <1>2, <2>2 DEF ReadBlock
    <3>2. Head(periods) = FALSE /\ ~HoldsOwn(Tail(periods))
      BY <1>2, <1>3, <3>1, NoOwnTaken
    <3>3. QED
      BY <1>2, <1>3, <3>1, <3>2, NoOwnAppended
  <2>3. CASE ~(Record \/ ReadBlock)
    <3>1. /\ periods' \in {periods, << >>} /\ audioRing' = audioRing
          /\ echo' = echo \/ echo' = ptt
      BY <2>3 DEF DeviceFails, CaptureThread, CheckRunning, ReadStarts, ReadOverrun,
         ReadError, Prepare, CheckError, Recover, RecoverFails, recording
    <3>2. QED
      BY <1>2, <1>4, <3>1
  <2>4. QED
    BY <2>1, <2>2, <2>3
<1>6. QED
  BY <1>1, <1>2, <1>5 DEF OwnPending

\* A candidate is opened by what is at the head of the ring.
LEMMA BlockBringsNoEcho ==
  ASSUME RingTypes, EchoInv, ProcessBlock
  PROVE  EchoInv'
<1>1. /\ UNCHANGED <<state, ptt, late, periods, echo>>
      /\ audioRing # << >> /\ audioRing' = Tail(audioRing)
  BY DEF ProcessBlock, radio, recording
<1> SUFFICES ASSUME ~OwnPending PROVE ~OwnPending'
  BY <1>1 DEF EchoInv
<1>2. ~echo /\ ~ptt /\ openedBy # "own" /\ ~HoldsOwn(periods) /\ ~HoldsOwn(audioRing)
  BY DEF OwnPending
<1>3. Head(audioRing) = FALSE /\ ~HoldsOwn(Tail(audioRing))
  BY <1>1, <1>2, NoOwnTaken DEF RingTypes
<1>4. openedBy' # "own"
  BY <1>2, <1>3 DEF ProcessBlock
<1>5. QED
  BY <1>1, <1>2, <1>3, <1>4 DEF OwnPending

LEMMA EchoKept ==
  ASSUME RingTypes, RadioTypes, EchoInv, [Next]_vars
  PROVE  EchoInv'
<1>1. ASSUME UNCHANGED <<state, ptt, late, recording, audioRing, openedBy>>
      PROVE  EchoInv'
  BY <1>1 DEF EchoInv, OwnPending, HoldsOwn, recording
<1>2. CASE GetReady \/ StartCapture \/ PopReady \/ PopNothing \/ Decode
             \/ UNCHANGED vars
  BY <1>1, <1>2 DEF GetReady, StartCapture, PopReady, PopNothing, Decode, vars, scanning,
                    radio
<1>3. CASE Stopping
  <2>1. UNCHANGED <<audioRing, openedBy, state, late>>
    BY <1>3, StoppingLeaves DEF scanning
  <2>2. CASE CloseRuntime \/ CloseLine
    <3>1. ptt' \in {FALSE, ptt} /\ echo' = (echo \/ ptt') /\ periods' = periods
      BY <2>2 DEF CloseRuntime, CloseLine, TearsDown, Radio!Teardown
    <3>2. QED
      BY <2>1, <3>1 DEF EchoInv, OwnPending, HoldsOwn
  <2>3. CASE DropPcm
    <3>1. UNCHANGED <<ptt, echo>> /\ periods' = << >>
      BY <2>3 DEF DropPcm, radio
    <3>2. ~HoldsOwn(<< >>)
      BY DEF HoldsOwn
    <3>3. QED
      BY <2>1, <3>1, <3>2 DEF EchoInv, OwnPending
  <2>4. CASE ~(CloseRuntime \/ CloseLine \/ DropPcm)
    <3>1. UNCHANGED <<ptt, recording>>
      BY <1>3, <2>4 DEF Stopping, StopRequested, WorkerJoined, NoCapture, StopFlag,
         CaptureJoined, DecodersJoined, CloseAudio, ReleaseMemory, radio
    <3>2. QED
      BY <1>1, <2>1, <3>1
  <2>5. QED
    BY <2>2, <2>3, <2>4
<1>4. QED
  BY <1>2, <1>3, ReopeningJudges, CapturingBringsNoEcho, BlockBringsNoEcho, NextSplits
     DEF Looping

LEMMA EchoInvariance == Spec => [](IInv /\ TypeInv /\ ServiceInv /\ EchoInv)
<1>1. Init => ServiceInv /\ EchoInv
  BY DEF Init, StartInit, Radio!Init, ServiceInv, EchoInv, OwnPending, HoldsOwn
<1>2. ASSUME IInv, ServiceInv, [Next]_vars PROVE ServiceInv'
  BY <1>2, ServiceKept
<1>3. ASSUME TypeInv, EchoInv, [Next]_vars PROVE EchoInv'
  BY <1>3, EchoKept DEF TypeInv
<1>4. QED
  BY <1>1, <1>2, <1>3, Invariance, TypeInvariance, PTL DEF Spec

\* A candidate that the station's own signal opened goes to a decoder only if
\* the receiver reopened while that signal was still on its way: whatever the
\* detector and the queues are configured to, a guard time that outlasts the
\* backlog is all that keeps the echo out (alsa_rx.c:730).
THEOREM EchoNeedsABacklog == Spec => EchoNeedsBacklog
<1>1. ASSUME TypeInv, ServiceInv, EchoInv, [Next]_vars
      PROVE  [(queued' > queued /\ OwnCandidate) => late]_vars
  <2> SUFFICES ASSUME queued' > queued, OwnCandidate PROVE late
    OBVIOUS
  <2>1. queued \in Nat
    BY <1>1 DEF TypeInv, BacklogInv
  <2>2. ~(queued' = queued) /\ ~(queued' = queued - 1)
    BY <2>1
  <2>3. ProcessBlock
    BY <1>1, <2>2, OthersLeave, StoppingLeaves, NextSplits
       DEF decoding, GetReady, StartCapture, Looping, PopReady, PopNothing, Decode, vars
  <2>4. ReceiveEnabled
    BY <2>2, <2>3 DEF ProcessBlock, decoding
  <2>5. state = "RX_IDLE"
    BY <1>1, <2>4 DEF ReceiveEnabled, ServiceInv
  <2>6. OwnPending
    <3>1. CASE detector.active
      BY <3>1 DEF OwnCandidate, OwnPending
    <3>2. CASE ~detector.active
      <4>1. audioRing # << >> /\ Head(audioRing) /\ audioRing \in Seq(BOOLEAN)
        BY <1>1, <3>2 DEF OwnCandidate, TypeInv, RingTypes
      <4>2. HoldsOwn(audioRing)
        BY <4>1, NoOwnTaken
      <4>3. QED
        BY <4>2 DEF OwnPending
    <3>3. QED
      BY <3>1, <3>2
  <2>7. late \in BOOLEAN
    BY <1>1 DEF TypeInv, RadioTypes
  <2>8. QED
    BY <1>1, <2>5, <2>6, <2>7 DEF EchoInv
<1>2. QED
  BY <1>1, EchoInvariance, PTL DEF Spec, EchoNeedsBacklog

=============================================================================
