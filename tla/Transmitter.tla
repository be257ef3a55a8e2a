----------------------------- MODULE Transmitter -----------------------------
(***************************************************************************)
(* A series sent in one go through the sound card and the PTT line:        *)
(* rtnc_transmit_audio, as tools/packet_tx.c and tools/tx_smoke.c call it. *)
(* Every waveform is in the series before the line is keyed.               *)
(***************************************************************************)
EXTENDS Naturals, Waveform

CONSTANT Frames   \* fragments of packet_tx's packet, frames of tx_smoke

ASSUME FramesAssumption == Frames \in Nat \ {0}

VARIABLES
  tool,     \* packet_tx or tx_smoke
  drop,     \* the fragment packet_tx leaves out on purpose, Frames for none
  keyPc,    \* open, build, send, release, close, done
  built,    \* frames a waveform was asked for
  series,   \* waveforms in the series
  keyed,    \* the level of the line
  played,   \* waveforms written
  drained,  \* the sound card has played them all
  sent,     \* what rtnc_transmit_audio returned
  keySuccess, \* what the tool exits with
  refused   \* history: the line refused a release

making == <<tool, drop, built, series>>
handheld == <<making, keyPc, keyed, played, drained, sent, keySuccess, refused>>

KeyInit ==
  /\ tool \in {"packet_tx", "tx_smoke"}
  /\ drop \in IF tool = "packet_tx" THEN 0 .. Frames ELSE {Frames}
  /\ keyPc = "open" /\ built = 0 /\ series = 0
  /\ keyed = FALSE /\ played = 0 /\ drained = FALSE
  /\ sent = FALSE /\ keySuccess = FALSE /\ refused = FALSE

KeyMoves(from, targets) == keyPc = from /\ keyPc' \in targets

\* The modem, rtnc_audio_init and rtnc_ptt_init; or there is nothing to key.
OpenPacketTool ==
  /\ tool = "packet_tx" /\ KeyMoves("open", {"build", "close"})
  /\ UNCHANGED <<making, keyed, played, drained, sent, keySuccess, refused>>

OpenSmokeTool ==
  /\ tool = "tx_smoke" /\ KeyMoves("open", {"build", "close"})
  /\ UNCHANGED <<making, keyed, played, drained, sent, keySuccess, refused>>

Builds ==
  /\ built < Frames /\ built' = built + 1
  /\ UNCHANGED <<tool, drop, keyed, played, drained, sent, keySuccess, refused>>

\* A fragment without a waveform ends packet_tx.
BuildFragment ==
  \E end \in WaveformEnds :
    /\ tool = "packet_tx" /\ Builds
    /\ KeyMoves("build", {IF end = "OK" THEN "build" ELSE "close"})
    /\ series' = IF end = "OK" /\ built # drop THEN series + 1 ELSE series

\* tx_smoke goes on without it.
BuildSmokeFrame ==
  \E end \in WaveformEnds :
    /\ tool = "tx_smoke" /\ Builds
    /\ KeyMoves("build", {"build"})
    /\ series' = IF end = "OK" THEN series + 1 ELSE series

\* condition_audio, and the check of the arguments: an empty series is refused.
Conditions == series > 0

KeyLine ==
  /\ built = Frames
  /\ KeyMoves("build", IF Conditions THEN {"send", "close"} ELSE {"close"})
  /\ keyed' = (keyPc' = "send")
  /\ UNCHANGED <<making, played, drained, sent, keySuccess, refused>>

\* An underrun is prepared away; what cannot be recovered ends the series.
PlayPiece ==
  /\ played < series
  /\ \/ KeyMoves("send", {"send"}) /\ played' = played + 1
     \/ KeyMoves("send", {"release"}) /\ UNCHANGED played
  /\ UNCHANGED <<making, keyed, drained, sent, keySuccess, refused>>

DrainSeries ==
  /\ played = series
  /\ KeyMoves("send", {"release"})
  /\ drained' \in BOOLEAN
  /\ sent' = drained'
  /\ UNCHANGED <<making, keyed, played, keySuccess, refused>>

ReleaseLine ==
  /\ KeyMoves("release", {"close"})
  /\ \/ keyed' = FALSE /\ UNCHANGED <<sent, refused>>
     \/ sent' = FALSE /\ refused' = TRUE /\ UNCHANGED keyed
  /\ UNCHANGED <<making, played, drained, keySuccess>>

\* rtnc_ptt_deinit tries once more.
CloseLine == keyed' \in {FALSE, keyed /\ refused}

EndPacketTool ==
  /\ tool = "packet_tx" /\ KeyMoves("close", {"done"})
  /\ CloseLine
  /\ keySuccess' = sent
  /\ UNCHANGED <<making, played, drained, sent, refused>>

\* All of its frames count as transmitted, or none.
EndSmokeTool ==
  /\ tool = "tx_smoke" /\ KeyMoves("close", {"done"})
  /\ CloseLine
  /\ keySuccess' = sent
  /\ UNCHANGED <<making, played, drained, sent, refused>>

KeyStep ==
  \/ OpenPacketTool \/ OpenSmokeTool \/ BuildFragment \/ BuildSmokeFrame
  \/ KeyLine \/ PlayPiece \/ DrainSeries \/ ReleaseLine
  \/ EndPacketTool \/ EndSmokeTool
=============================================================================
