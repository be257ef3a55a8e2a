-------------------------------- MODULE Bench --------------------------------
(***************************************************************************)
(* The laboratory bench of docs/bidirectional-smoke.md: one transmitter,   *)
(* the handheld keyed by tools/packet_tx.c or a HackRF driven by           *)
(* tools/hackrf_tx.c, and the HackRF receiver tools/hackrf_rx.c.           *)
(***************************************************************************)
EXTENDS HackRfRx, Transmitter, HackRfTx

VARIABLE station   \* which transmitter is on the bench

vars == <<station, handheld, hackrf, listener>>

Init ==
  /\ station \in {"handheld", "hackrf"}
  /\ KeyInit /\ HackInit /\ RxInit

OnAir == keyed \/ (hackPc \in {"streaming", "stop"} /\ radiated < generated)

Handheld ==
  /\ station = "handheld" /\ KeyStep
  /\ UNCHANGED <<station, hackrf, listener>>

HackRf ==
  /\ station = "hackrf" /\ HackStep
  /\ UNCHANGED <<station, handheld, listener>>

Receiver ==
  /\ MainThread \/ ReceiveCallback(OnAir) \/ Decoder
  /\ UNCHANGED <<station, handheld, hackrf>>

Next == Handheld \/ HackRf \/ Receiver

\* The threads run, the sound card plays, and every wait has its limit; the
\* HackRF may deliver nothing and take nothing.
Fairness ==
  /\ WF_vars(Handheld)
  /\ WF_vars(station = "hackrf" /\ HackHost /\ UNCHANGED <<station, handheld, listener>>)
  /\ WF_vars(MainThread /\ UNCHANGED <<station, handheld, hackrf>>)
  /\ WF_vars(Decoder /\ UNCHANGED <<station, handheld, hackrf>>)

Spec == Init /\ [][Next]_vars /\ Fairness

-----------------------------------------------------------------------------

\* A decode that ends badly leaves nothing to the next: each candidate's first
\* pass runs at one sample a symbol, whatever became of the one before it.
EachDecodeStartsClean == pass \in {"idle", "first"} => rate = 1

\* docs/hackrf-realtime-rx.md: "Only this candidate enters the decoder queue":
\* what is queued and decoded is an unbroken run of samples, oldest first,
\* with what the ring held in front of the trigger.
CandidateIsRecentAudio ==
  \A c \in {jobs[i] : i \in 1 .. Len(jobs)} \union {job} :
    \A i \in 1 .. Len(c) : c[i] = c[1] + i - 1

\* packet_tx and rtnc_transmit_audio: what packet_tx reports sent is the whole
\* packet but for the fragment it was told to leave out, played to the end, and
\* the line is free again unless it refused a release.
HandheldIsHonest ==
  keyPc = "done" =>
    /\ keyed => refused
    /\ keySuccess =>
         /\ drained /\ played = series /\ ~keyed
         /\ tool = "packet_tx" => series + (IF drop = Frames THEN 0 ELSE 1) = Frames

\* docs/hackrf-realtime-tx.md: "returns success only after the library confirms
\* that the final queued USB buffer was transmitted".
HackRfIsHonest == hackSuccess => radiated = Total

\* hackrf_rx joins its decoder before it reports: the exit status is about every
\* candidate that was queued, and one is left over only when the target was met.
ReceiverIsHonest ==
  rxPc = "done" => /\ rxSuccess = (decoded > 0)
                   /\ decoded < Target => jobs = << >> /\ job = << >>

\* What the programs exit with is so, whatever their devices do and in whatever
\* order their threads end.
ReportsAreHonest == HandheldIsHonest /\ HackRfIsHonest /\ ReceiverIsHonest

\* Both programs end, whatever their devices do: the decoder is told to stop on
\* every path, and every wait for a device has its limit.
BenchEnds == <>(rxPc = "done" /\ "done" \in {keyPc, hackPc})
=============================================================================
