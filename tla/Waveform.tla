------------------------------ MODULE Waveform -------------------------------
(***************************************************************************)
(* What becomes of a payload on its way to audio, and of audio's bytes on  *)
(* their way back, as far as the programs around it see.                   *)
(***************************************************************************)

\* The CRC-framed payload, or none: it is empty or too long.
FrameBuildEnds == {"OK", "REJECTED"}

\* Length and CRC decide.
ParseEnds == {"OK", "REJECTED"}

\* rtnc_modem_tx_audio: the frame, its code, and symbol by symbol the audio.
WaveformEnds == FrameBuildEnds \union {"BUFFER_TOO_SMALL", "DSP_ERROR"}
=============================================================================
