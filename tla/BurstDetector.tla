---------------------------- MODULE BurstDetector ----------------------------
(***************************************************************************)
(* The burst detector: after a warm-up it opens on a trigger, puts the     *)
(* audio kept in a ring in front of what follows, and closes into one      *)
(* candidate.  A configuration c and a detector d are records with the     *)
(* fields of rtnc_burst_detector_config_t and rtnc_burst_detector_t.       *)
(*                                                                         *)
(* The two moving averages are floating point.  What the code asks of them *)
(* is how the signal power compares with the noise power times the two     *)
(* ratios, and that answer is the input "level" of a sample:               *)
(*   "quiet"   below the close ratio      "edge"    equal to it            *)
(*   "open"    above the close ratio      "strong"  above the open ratio   *)
(* Above a noise power of zero there is only silence, which is "edge", and *)
(* any signal, which is "strong".                                          *)
(***************************************************************************)
EXTENDS Naturals, Sequences

CONSTANTS
  MaxPretrigger,  \* RTNC_BURST_MAX_PRETRIGGER_SAMPLES
  MaxAudio        \* RTNC_MODEM_MAX_AUDIO_SAMPLES

AboveClose == {"open", "strong"}

\* The first sample sets both averages to the same power, which may be zero.
Levels(d) == IF d.seen = 0 THEN {"quiet", "edge"}
             ELSE IF d.noise THEN {"quiet", "edge"} \union AboveClose
             ELSE {"edge", "strong"}

ConfigIsValid(c) ==
  /\ {c.warmup, c.pretrigger, c.release, c.maximum} \subseteq Nat \ {0}
  /\ {c.cooldown, c.capture} \subseteq Nat
  /\ c.pretrigger <= MaxPretrigger
  /\ c.capture <= c.maximum /\ c.maximum <= MaxAudio
  /\ {c.energy, c.requiresEnergy} \subseteq BOOLEAN

\* rtnc_platform_burst_config: what YAML sets, and what it leaves to the code.
PlatformConfig(warmup, pretrigger, cooldown, maximum) ==
  [warmup |-> warmup, pretrigger |-> pretrigger, release |-> 1,
   cooldown |-> cooldown, capture |-> 0,
   maximum |-> IF maximum > MaxAudio THEN MaxAudio ELSE maximum,
   energy |-> TRUE, requiresEnergy |-> FALSE]

\* rtnc_burst_detector_default_config: pretrigger and cooldown are the same
\* time, and twice the release.
DefaultConfig(warmup, pretrigger, maximum) ==
  [PlatformConfig(warmup, pretrigger, pretrigger, maximum)
     EXCEPT !.release = (pretrigger + 1) \div 2]

\* What the receivers make of it: only the correlator opens, and the window is
\* a frame long, counted from "latency" samples before the trigger.
ReceiverConfig(c, frame, latency) ==
  [c EXCEPT !.cooldown = 0, !.energy = FALSE, !.requiresEnergy = TRUE,
            !.capture = IF c.pretrigger + frame > latency
                          THEN c.pretrigger + frame - latency ELSE 0]

NewDetector(c, blank) ==
  [seen |-> 0, noise |-> FALSE, active |-> FALSE, candidate |-> << >>,
   quiet |-> 0, cooldown |-> 0,
   ring |-> [i \in 0 .. c.pretrigger - 1 |-> blank], write |-> 0, count |-> 0]

-----------------------------------------------------------------------------
(* rtnc_burst_detector_process_triggered, in the order of its parts. *)

Opens(d, c, level, trigger) ==
  /\ ~d.active
  /\ d.cooldown = 0
  /\ d.seen + 1 >= c.warmup
  /\ \/ trigger /\ (c.requiresEnergy => level \in AboveClose)
     \/ c.energy /\ level = "strong"

\* Mutant: the ring is read from its first slot, full or not.
PretriggeredFromZero(d, c) == [i \in 1 .. d.count |-> d.ring[i - 1]]

\* The ring from its oldest sample to its newest.
Pretriggered(d, c) ==
  [i \in 1 .. d.count |->
     d.ring[(d.write + c.pretrigger - d.count + i - 1) % c.pretrigger]]

Captured(d, c, sample, opens) ==
  Append(IF opens THEN Pretriggered(d, c) ELSE d.candidate, sample)

Quieted(d, level, opens) ==
  IF level # "quiet" THEN 0 ELSE IF opens THEN 1 ELSE d.quiet + 1

\* Mutant: a window of fixed length waits for silence as well.
FinishedWhenQuiet(c, length, quiet) ==
  /\ quiet >= c.release
  /\ length >= c.capture

Finished(c, length, quiet) ==
  \/ c.capture > 0 /\ length >= c.capture
  \/ c.capture = 0 /\ quiet >= c.release
  \/ length >= c.maximum

\* Whether the noise power is above zero is settled by the first sample: all
\* receivers require energy, so only a signal at or below the close ratio
\* updates the noise, and of a noise of zero that is silence alone.
Noisy(d, level) == IF d.seen = 0 THEN level = "quiet" ELSE d.noise

\* The sample enters the ring whether or not a candidate is open.
Remembered(d, c, sample, level) ==
  [d EXCEPT !.seen = IF @ < c.warmup THEN @ + 1 ELSE @,
            !.noise = Noisy(d, level),
            !.cooldown = IF ~d.active /\ @ > 0 THEN @ - 1 ELSE @,
            !.ring[d.write] = sample,
            !.write = (@ + 1) % c.pretrigger,
            !.count = IF @ < c.pretrigger THEN @ + 1 ELSE @]

\* Mutant: a finished candidate leaves the detector open.
ClosedStaysOpen(d, c) ==
  [d EXCEPT !.candidate = << >>, !.quiet = 0, !.cooldown = c.cooldown]

Closed(d, c) ==
  [d EXCEPT !.active = FALSE, !.candidate = << >>, !.quiet = 0,
            !.cooldown = c.cooldown]

\* The detector after one sample, and the candidate it closed, if any.
Process(d, c, sample, level, trigger) ==
  LET opens == Opens(d, c, level, trigger)
      captured == Captured(d, c, sample, opens)
      quiet == Quieted(d, level, opens)
      kept == Remembered(d, c, sample, level)
      open == [kept EXCEPT !.active = TRUE, !.candidate = captured,
                           !.quiet = quiet]
  IN CASE ~d.active /\ ~opens -> [detector |-> kept, candidate |-> << >>]
       [] (d.active \/ opens) /\ Finished(c, Len(captured), quiet) ->
            [detector |-> Closed(open, c), candidate |-> captured]
       [] OTHER -> [detector |-> open, candidate |-> << >>]
=============================================================================
