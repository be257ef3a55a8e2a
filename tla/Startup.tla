------------------------------- MODULE Startup -------------------------------
(***************************************************************************)
(* How the service (alsa_rx.c, main) comes up: it takes one thing after    *)
(* another, each of which may be refused, and what it must give back is    *)
(* what it remembers to have taken (modem_initialized, thread_started and  *)
(* the like).  A refusal goes to the shutdown of a program that ran.       *)
(***************************************************************************)
CONSTANT ParallelEqualizer   \* workers.parallel_equalizer

ASSUME EqualizerAssumption == ParallelEqualizer \in BOOLEAN

VARIABLES
  mainPc,  \* where the main thread is
  mode,    \* frames, packet or kiss, from the command line
  held     \* what is open, and which threads are not joined

StartInit ==
  /\ mainPc = "configuration"
  /\ mode \in {"frames", "packet", "kiss"}
  /\ held = {}

PacketMode == mode # "frames"
ServiceMode == mode = "kiss"

\* Mutant: a refused start returns at once.
GivesUpAtOnce == "done"

GivesUp == "join worker"

Takes(what, next) ==
  /\ mainPc = what
  /\ \/ mainPc' = next /\ held' = held \union {what}
     \/ mainPc' = GivesUp /\ UNCHANGED held
  /\ UNCHANGED mode

FirstDecoder == IF ParallelEqualizer THEN "equalizer" ELSE "decoder"

\* Also the queues, which hold nothing that must be given back.
LoadConfiguration == Takes("configuration", "modem")

InitModem ==
  Takes("modem", IF ParallelEqualizer THEN "equalizer modem" ELSE "detector")

InitEqualizerModem == Takes("equalizer modem", "detector")

\* The completion window, the detectors, the mixer and the filter.
InitDetector == Takes("detector", "audio")

\* rtnc_audio_init gives back the device it has when it does not get both.
OpenAudio == Takes("audio", IF PacketMode THEN "line" ELSE FirstDecoder)

OpenLine == Takes("line", "runtime")

InitRuntime == Takes("runtime", IF ServiceMode THEN "socket" ELSE FirstDecoder)

OpenSocket == Takes("socket", "worker")

StartWorker == Takes("worker", FirstDecoder)

StartEqualizer == Takes("equalizer", "decoder")

StartDecoder == Takes("decoder", "capture")

\* All that a start does before rtnc_audio_start_capture.
Prepares ==
  \/ LoadConfiguration \/ InitModem \/ InitEqualizerModem \/ InitDetector
  \/ OpenAudio \/ OpenLine \/ InitRuntime \/ OpenSocket \/ StartWorker
  \/ StartEqualizer \/ StartDecoder

Starting == {"configuration", "modem", "equalizer modem", "detector", "audio",
             "line", "runtime", "socket", "worker", "equalizer", "decoder",
             "capture"}
=============================================================================
