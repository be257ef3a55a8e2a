------------------------------- MODULE HackRfTx -------------------------------
(***************************************************************************)
(* tools/hackrf_tx.c and rtnc_hackrf_tx_audio: the calling thread polls    *)
(* while libhackrf's thread asks a callback for transfer after transfer,   *)
(* and reports by another callback when the last one has left the antenna. *)
(***************************************************************************)
EXTENDS Naturals, Waveform

CONSTANT Total   \* total_iq_samples: lead, waveform and tail, in transfers

ASSUME TotalAssumption == Total \in Nat \ {0}

VARIABLES
  hackPc,     \* build, setup, streaming, stop, done
  generated,  \* generated_iq_samples, in transfers
  radiated,   \* transfers on air
  flush,      \* flush_complete and flush_success: pending, yes, no
  hackSuccess \* what the call returns

hackrf == <<hackPc, generated, radiated, flush, hackSuccess>>

HackInit ==
  /\ hackPc = "build" /\ generated = 0 /\ radiated = 0
  /\ flush = "pending" /\ hackSuccess = FALSE

HackMoves(from, targets) == hackPc = from /\ hackPc' \in targets

\* The waveforms of all frames; a frame that cannot be built ends the tool.
BuildFrames ==
  /\ \E end \in WaveformEnds :
       HackMoves("build", {IF end = "OK" THEN "setup" ELSE "done"})
  /\ UNCHANGED <<generated, radiated, flush, hackSuccess>>

SetUpDevice ==
  /\ HackMoves("setup", {"streaming", "done"})
  /\ UNCHANGED <<generated, radiated, flush, hackSuccess>>

Streams == hackPc \in {"streaming", "stop"} /\ UNCHANGED <<hackPc, hackSuccess>>

\* complete is set with the last transfer; the callback refuses from then on.
TransmitCallback ==
  /\ Streams
  /\ generated < Total
  /\ generated' = generated + 1
  /\ UNCHANGED <<radiated, flush>>

Radiate ==
  /\ Streams
  /\ radiated < generated
  /\ radiated' = radiated + 1
  /\ UNCHANGED <<generated, flush>>

\* The library flushes behind the last transfer, or gives up at any time.
FlushCallback ==
  /\ Streams
  /\ flush = "pending"
  /\ flush' \in IF generated = Total /\ radiated = Total THEN {"yes", "no"}
                                                        ELSE {"no"}
  /\ UNCHANGED <<generated, radiated>>

\* Mutant: the call returns when the last transfer was generated.
StopPollingEarly ==
  /\ HackMoves("streaming", {"stop"})
  /\ hackSuccess' = (generated = Total)
  /\ UNCHANGED <<generated, radiated, flush>>

\* The flush, or the limit on the number of polls, ends the wait.
StopPolling ==
  /\ HackMoves("streaming", {"stop"})
  /\ hackSuccess' = (flush = "yes" /\ generated = Total)
  /\ UNCHANGED <<generated, radiated, flush>>

CloseDevice ==
  /\ HackMoves("stop", {"done"})
  /\ UNCHANGED <<generated, radiated, flush, hackSuccess>>

HackHost == BuildFrames \/ SetUpDevice \/ StopPolling \/ CloseDevice
HackStep == HackHost \/ TransmitCallback \/ Radiate \/ FlushCallback
=============================================================================
