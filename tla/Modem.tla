-------------------------------- MODULE Modem --------------------------------
(***************************************************************************)
(* What one call of rtnc_modem_rx_audio goes through (modem/offline.c).    *)
(* The signal processing is floating point: each pass over the audio is    *)
(* the set of ways it can end, and what is kept is the order of the        *)
(* passes, their retries, and the one setting of the modem a call changes  *)
(* on its way, the rate at which timing recovery delivers symbols.         *)
(***************************************************************************)
EXTENDS Naturals, Waveform

CONSTANT AllowEqualizer  \* FALSE for rtnc_modem_rx_audio_fast

ASSUME EqualizerAssumption == AllowEqualizer \in BOOLEAN

VARIABLES
  pass,     \* idle, first, equalizer, directed
  rate,     \* output rate of the timing synchronizer
  status    \* of the last call that returned

modem == <<pass, rate, status>>

ModemInit == pass = "idle" /\ rate = 1 /\ status = "NONE"

\* No preamble is found; or the candidate is too short for one.
AcquisitionEnds == {"DSP_ERROR", "NO_FRAME"}
\* The symbols do not fit into the workspace.
TimingEnds == {"DSP_ERROR"}
\* The training sequence is not found, or has no energy.
TrainingEnds == {"NO_FRAME"}
\* The frame is longer than the candidate; or the FEC decodes it, and header
\* and CRC decide.
FrameEnds == {"TRUNCATED", "DSP_ERROR"} \union ParseEnds

\* At two samples a symbol the training sequence is not where it should be.
FirstPassEnds ==
  AcquisitionEnds \union TimingEnds \union TrainingEnds
    \union IF rate = 1 THEN FrameEnds ELSE {}

EqualizerTrainingEnds == {"DSP_ERROR", "NO_FRAME", "TRUNCATED"}
EqualizedFrameEnds == {"DSP_ERROR"} \union ParseEnds

-----------------------------------------------------------------------------

BeginReceive == pass = "idle" /\ pass' = "first" /\ UNCHANGED <<rate, status>>

FirstPassReturns ==
  /\ pass = "first" /\ pass' = "idle"
  /\ status' \in FirstPassEnds
  /\ UNCHANGED rate

\* The FEC gives up on the frame.
FecFails ==
  /\ pass = "first" /\ rate = 1
  /\ IF AllowEqualizer
       THEN pass' = "equalizer" /\ rate' = 2 /\ UNCHANGED status
       ELSE pass' = "idle" /\ status' = "REJECTED" /\ UNCHANGED rate

\* Mutant: a pass that finds no frame returns at once, not by the cleanup.
EqualizerPassReturnsEarly ==
  /\ pass \in {"equalizer", "directed"}
  /\ status' \in EqualizerTrainingEnds \union EqualizedFrameEnds
  /\ pass = "equalizer" => status' # "REJECTED"
  /\ pass' = "idle" /\ rate' = IF status' = "NO_FRAME" THEN rate ELSE 1

\* Every end goes through the cleanup.
EqualizerPassReturns ==
  /\ pass \in {"equalizer", "directed"}
  /\ status' \in EqualizerTrainingEnds \union EqualizedFrameEnds
  /\ pass = "equalizer" => status' # "REJECTED"
  /\ pass' = "idle" /\ rate' = 1

\* The cleanup of the first equalizer pass, and its one retry: the timing goes
\* back to one sample a symbol, and to two again.
RetryDirected ==
  /\ pass = "equalizer" /\ pass' = "directed"
  /\ UNCHANGED <<rate, status>>

ModemStep == FirstPassReturns \/ FecFails \/ EqualizerPassReturns \/ RetryDirected
=============================================================================
