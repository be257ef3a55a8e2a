--------------------------- MODULE Fragmentation ---------------------------
(***************************************************************************)
(* Packets cut into radio frames by the sender and put together again by   *)
(* the receiver (fragmentation.c), over a radio link that loses frames.    *)
(*                                                                         *)
(* A frame carries one header byte: a start/continuation flag and the      *)
(* number of fragments still to follow.  There is no packet number.  The   *)
(* receiver sees the frames that decode, in the order they were sent (the  *)
(* completion coordinator restores it); a frame that does not decode, or   *)
(* that arrives while the receiver is transmitting, leaves no trace in     *)
(* reassembly.  Payload bytes are named by packet and offset.              *)
(***************************************************************************)
EXTENDS Naturals, Sequences

CONSTANTS
  DataCapacity,   \* bytes of data per frame: 63 or 127 in the code
  MaxCount,       \* RTNC_FRAGMENT_MAX_COUNT
  Mtu,            \* the receiver's MTU
  Timeout,        \* the receiver's reassembly timeout
  PacketLengths,  \* lengths of the packets the sender sends
  MaxPackets,     \* bound of the model: packets sent
  MaxClock,       \* bound of the model: the last instant
  MaxLossRun      \* the most frames lost one after another

ASSUME FrameAssumption ==
  DataCapacity \in Nat \ {0} /\ MaxCount \in Nat \ {0}
ASSUME ReceiverAssumption == Mtu \in Nat \ {0} /\ Timeout \in Nat \ {0}
ASSUME LengthsAssumption == PacketLengths \subseteq Nat \ {0}
ASSUME BoundsAssumption ==
  MaxPackets \in Nat /\ MaxClock \in Nat /\ MaxLossRun \in Nat

VARIABLES
  sent,        \* lengths of the packets sent so far, the last one in progress
  index,       \* fragment_index of the next frame of that packet
  lossRun,     \* frames lost since the last one received
  intact,      \* history: no frame of the packet in progress was lost ...
  begun,       \* history: ... and its first frame arrived at this instant
  now,         \* the receiver's clock
  active,      \* rtnc_reassembly_t: an assembly is in progress
  remaining,   \* ... fragments still to follow
  started,     \* ... instant of its start frame
  length,      \* ... bytes in the packet buffer
  buffer,      \* ... the packet buffer, as the pieces copied into it
  delivered    \* packets handed on, with the number of the packet sent last

sender == <<sent, index>>
link == <<lossRun, intact, begun>>
reassembly == <<active, remaining, started, length, buffer>>
vars == <<sender, link, now, reassembly, delivered>>

-----------------------------------------------------------------------------
(* rtnc_fragment_count and rtnc_fragment_build *)

FragmentCount(packetLength) ==
  (packetLength + DataCapacity - 1) \div DataCapacity

FragmentLength(packetLength, k) ==
  LET left == packetLength - k * DataCapacity
  IN IF left > DataCapacity THEN DataCapacity ELSE left

BuildFragment(packet, packetLength, k) ==
  [continuation |-> k # 0,
   remaining |-> FragmentCount(packetLength) - k - 1,
   data |-> [packet |-> packet,
             offset |-> k * DataCapacity,
             length |-> FragmentLength(packetLength, k)]]

-----------------------------------------------------------------------------
Init ==
  /\ sent = << >>
  /\ index = 0
  /\ lossRun = 0
  /\ intact = FALSE
  /\ begun = 0
  /\ now = 0
  /\ active = FALSE
  /\ remaining = 0
  /\ started = 0
  /\ length = 0
  /\ buffer = << >>
  /\ delivered = << >>

SendingDone ==
  IF sent = << >> THEN TRUE ELSE index = FragmentCount(sent[Len(sent)])

\* The transmit worker turns to the next packet.  A packet the sender's own
\* MTU lets through may be longer than the receiver's.
NextPacket ==
  /\ SendingDone
  /\ Len(sent) < MaxPackets
  /\ \E packetLength \in PacketLengths :
       /\ FragmentCount(packetLength) <= MaxCount
       /\ sent' = Append(sent, packetLength)
  /\ index' = 0
  /\ intact' = TRUE
  /\ UNCHANGED <<lossRun, begun, now, reassembly, delivered>>

Frame == BuildFragment(Len(sent), sent[Len(sent)], index)

\* A frame is not decoded, or it is rejected by the receiver's own transmission.
LoseFrame ==
  /\ ~SendingDone
  /\ lossRun < MaxLossRun
  /\ index' = index + 1
  /\ lossRun' = lossRun + 1
  /\ intact' = FALSE
  /\ UNCHANGED <<sent, begun, now, reassembly, delivered>>

\* Air time and the sender's waits pass.
Tick ==
  /\ now < MaxClock
  /\ now' = now + 1
  /\ UNCHANGED <<sender, link, reassembly, delivered>>

-----------------------------------------------------------------------------
(* rtnc_reassembly_push *)

\* Mutant: the timeout is one unit late.
ExpiredLate == active /\ now - started > Timeout + 1

Expired == active /\ now - started > Timeout

\* Mutant: any continuation goes on with the assembly.
ContinuesAny(frame) ==
  active /\ ~Expired /\ remaining # 0

Continues(frame) ==
  active /\ ~Expired /\ remaining # 0 /\ frame.remaining + 1 = remaining

Reset ==
  /\ active' = FALSE
  /\ remaining' = 0
  /\ started' = 0
  /\ length' = 0
  /\ buffer' = << >>
  /\ UNCHANGED delivered

\* Mutant: the MTU is compared with the length before this frame.
OverflowsLate(pieces, total) == total > Mtu + DataCapacity

Overflows(pieces, total) == total > Mtu

\* The packet goes into the receive queue, and from there to the main loop
\* before it offers the next frame: the queue has room for it.
HandOn(pieces, since) ==
  delivered' = Append(delivered, [pieces |-> pieces, last |-> Len(sent),
                                  took |-> now - since])

\* append_data: the frame's data goes behind the pieces already there; a frame
\* with nothing to follow completes the packet.
AppendData(frame, pieces, bytes, since) ==
  LET total == bytes + frame.data.length IN
  IF Overflows(pieces, total)
    THEN Reset
    ELSE /\ buffer' = Append(pieces, frame.data)
         /\ length' = total
         /\ remaining' = frame.remaining
         /\ started' = since
         /\ active' = (frame.remaining # 0)
         /\ IF frame.remaining = 0 THEN HandOn(Append(pieces, frame.data), since)
                                   ELSE UNCHANGED delivered

\* Mutant: a start frame does not throw away an unfinished assembly.
StartKeepsOld(frame) == AppendData(frame, buffer, length, now)

\* A start frame begins a new assembly, whatever was in progress.
Start(frame) == AppendData(frame, << >>, 0, now)

\* A continuation out of sequence, or too late, drops the assembly.
Continue(frame) ==
  IF Continues(frame) THEN AppendData(frame, buffer, length, started)
                      ELSE Reset

\* A frame decodes and is pushed into reassembly; one without data, or longer
\* than the payload class, is refused and changes nothing.
ReceiveFrame ==
  /\ ~SendingDone
  /\ IF Frame.data.length \notin 1 .. DataCapacity
       THEN UNCHANGED <<reassembly, delivered>>
       ELSE IF Frame.continuation THEN Continue(Frame) ELSE Start(Frame)
  /\ index' = index + 1
  /\ lossRun' = 0
  /\ begun' = IF index = 0 THEN now ELSE begun
  /\ UNCHANGED <<sent, intact, now>>

Next == NextPacket \/ LoseFrame \/ Tick \/ ReceiveFrame

Spec == Init /\ [][Next]_vars

-----------------------------------------------------------------------------
Piece == [packet : Nat, offset : Nat, length : Nat]

\* Type invariant; the bytes copied never exceed the packet buffer, and the
\* countdown of an assembly in progress is not over.
TypeOK ==
  /\ \A k \in 1 .. Len(sent) : sent[k] \in PacketLengths
  /\ index \in 0 .. MaxCount
  /\ lossRun \in 0 .. MaxLossRun
  /\ intact \in BOOLEAN
  /\ begun \in 0 .. MaxClock
  /\ now \in 0 .. MaxClock
  /\ active \in BOOLEAN
  /\ active => remaining > 0
  /\ remaining \in 0 .. MaxCount - 1
  /\ started \in 0 .. MaxClock
  /\ length \in 0 .. Mtu
  /\ buffer \in Seq(Piece)

\* A whole packet: its pieces, in order, without gap, from first to last byte.
IsPacket(pieces, packet) ==
  /\ Len(pieces) = FragmentCount(sent[packet])
  /\ \A k \in 1 .. Len(pieces) :
       /\ pieces[k].packet = packet
       /\ pieces[k].offset = (k - 1) * DataCapacity
       /\ pieces[k].length = FragmentLength(sent[packet], k - 1)

\* What reassembly hands on is one packet that was sent, byte for byte, and no
\* packet twice or out of order ("The runtime preserves complete packet
\* boundaries from KISS to the radio and back", docs/kiss-runtime.md).
DeliveredAreSent ==
  /\ \A k \in 1 .. Len(delivered) :
       IsPacket(delivered[k].pieces, delivered[k].last)
  /\ \A j, k \in 1 .. Len(delivered) :
       j < k => delivered[j].last < delivered[k].last

\* A packet whose frames all arrived, in time and within the MTU, is handed on
\* whatever was lost before it ("the next start frame immediately recovered",
\* docs/fragmentation.md).
IntactIsDelivered ==
  (sent # << >> /\ SendingDone /\ intact
     /\ sent[Len(sent)] <= Mtu /\ now - begun <= Timeout)
  => /\ delivered # << >>
     /\ delivered[Len(delivered)].last = Len(sent)

\* No packet is completed later than the timeout after its start frame.
NoLateCompletion ==
  \A k \in 1 .. Len(delivered) : delivered[k].took <= Timeout
=============================================================================
