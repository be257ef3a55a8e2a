----------------------------- MODULE LinkProofs -----------------------------
(***************************************************************************)
(* Theorems about the two ends of a packet's way: the KISS connection      *)
(* (KissLink), where a packet becomes a stream of bytes and back, and the  *)
(* radio link (Fragmentation), where it becomes frames and back.           *)
(***************************************************************************)
EXTENDS Fragmentation, KissLink, SequenceTheorems, FiniteSetTheorems,
        WellFoundedInduction, TLAPS

(***************************************************************************)
(* The radio link.                                                         *)
(***************************************************************************)

Last == sent[Len(sent)]

\* The frame in progress belongs to a packet that fits in the countdown.
SenderInv ==
  /\ sent \in Seq(PacketLengths)
  /\ sent = << >> => index = 0
  /\ sent # << >> => /\ FragmentCount(Last) \in 1 .. MaxCount
                     /\ index \in 0 .. FragmentCount(Last)

\* As long as everything of the packet in progress arrived, and in time, the
\* assembly is where the sender is; after its last frame it is handed on.
IntactInv ==
  (/\ sent # << >> /\ intact /\ index > 0
   /\ Last <= Mtu /\ now - begun <= Timeout)
  => /\ index < FragmentCount(Last) =>
          /\ active /\ started = begun
          /\ remaining = FragmentCount(Last) - index
          /\ length = index * DataCapacity
     /\ index = FragmentCount(Last) =>
          /\ delivered # << >>
          /\ delivered[Len(delivered)].last = Len(sent)

Outcome == [pieces : Seq(Piece), last : Nat, took : Nat]

HistoryInv == delivered \in Seq(Outcome)

\* The types of the receiver; no instant it remembers lies in the future.
ReassemblyInv ==
  /\ active \in BOOLEAN
  /\ active => remaining > 0
  /\ remaining \in 0 .. MaxCount - 1
  /\ started \in 0 .. MaxClock
  /\ started <= now
  /\ length \in 0 .. Mtu
  /\ buffer \in Seq(Piece)
  /\ HistoryInv
  /\ NoLateCompletion

\* The types of the link and the clock.
LinkInv ==
  /\ lossRun \in 0 .. MaxLossRun /\ intact \in BOOLEAN
  /\ now \in 0 .. MaxClock /\ begun \in 0 .. MaxClock /\ begun <= now

IInv == SenderInv /\ LinkInv /\ ReassemblyInv /\ IntactInv
-----------------------------------------------------------------------------
(* How a packet is cut. *)

\* The number of frames is the length divided by the capacity, rounded up.
LEMMA CountRoundsUp ==
  ASSUME NEW L \in Nat \ {0}
  PROVE  /\ FragmentCount(L) \in Nat \ {0}
         /\ (FragmentCount(L) - 1) * DataCapacity < L
         /\ L <= FragmentCount(L) * DataCapacity
<1> DEFINE n == FragmentCount(L)
<1>1. DataCapacity \in Nat \ {0}
  BY FrameAssumption
<1>2. n = (L + DataCapacity - 1) \div DataCapacity
  BY DEF FragmentCount
<1>3. n \in Int /\ n * DataCapacity <= L + DataCapacity - 1
      /\ L + DataCapacity - 1 < (n + 1) * DataCapacity
  BY <1>1, <1>2
<1> HIDE DEF n
<1>4. (n + 1) * DataCapacity = n * DataCapacity + DataCapacity
      /\ (n - 1) * DataCapacity = n * DataCapacity - DataCapacity
      /\ n * DataCapacity \in Int
  BY <1>1, <1>3
<1>5. (n - 1) * DataCapacity < L /\ L <= n * DataCapacity
  BY <1>1, <1>3, <1>4
<1>6. n > 0
  <2>1. SUFFICES ASSUME n <= 0 PROVE FALSE
    BY <1>3
  <2>2. n * DataCapacity <= 0
    BY <1>1, <1>3, <2>1
  <2>3. QED
    BY <1>3, <1>4, <1>5, <2>2
<1>7. QED
  BY <1>3, <1>5, <1>6 DEF n

\* A frame is never empty, every frame but the last one is full, and the frames
\* cut so far never hold more than the packet.
LEMMA CutsFit ==
  ASSUME NEW L \in Nat \ {0}, NEW k \in Nat, k < FragmentCount(L)
  PROVE  /\ FragmentLength(L, k) \in 1 .. DataCapacity
         /\ k * DataCapacity \in Nat
         /\ k * DataCapacity + FragmentLength(L, k) <= L
         /\ k + 1 < FragmentCount(L) =>
              k * DataCapacity + FragmentLength(L, k) = (k + 1) * DataCapacity
<1> DEFINE n == FragmentCount(L)
           done == k * DataCapacity
<1>1. DataCapacity \in Nat \ {0} /\ n \in Nat \ {0} /\ (n - 1) * DataCapacity < L
  BY FrameAssumption, CountRoundsUp
<1>2. done \in Nat /\ (k + 1) * DataCapacity = done + DataCapacity
  BY <1>1
<1>3. ASSUME NEW a \in Nat, a <= n - 1 PROVE a * DataCapacity < L
  <2>1. (n - 1 - a) * DataCapacity >= 0
    BY <1>1, <1>3
  <2>2. (n - 1 - a) * DataCapacity = (n - 1) * DataCapacity - a * DataCapacity
    BY <1>1, <1>3
  <2>3. (n - 1) * DataCapacity \in Int /\ a * DataCapacity \in Int
    BY <1>1, <1>3
  <2>4. QED
    BY <1>1, <2>1, <2>2, <2>3
<1>4. done < L
  BY <1>1, <1>3
<1>5. k + 1 < n => done + DataCapacity < L
  BY <1>1, <1>2, <1>3
<1>6. FragmentLength(L, k) = IF L - done > DataCapacity THEN DataCapacity ELSE L - done
  BY DEF FragmentLength
<1>7. k < n
  OBVIOUS
<1> HIDE DEF done, n
<1>8. /\ FragmentLength(L, k) \in 1 .. DataCapacity
      /\ done + FragmentLength(L, k) <= L
      /\ k + 1 < n => done + FragmentLength(L, k) = (k + 1) * DataCapacity
  BY <1>1, <1>2, <1>4, <1>5, <1>6
<1>9. QED
  BY <1>2, <1>8 DEF done, n
-----------------------------------------------------------------------------
(* What one frame does to reassembly. *)

\* The constants are numbers.
LEMMA Sizes ==
  /\ DataCapacity \in Nat \ {0} /\ MaxCount \in Nat \ {0} /\ Mtu \in Nat \ {0}
  /\ Timeout \in Nat \ {0} /\ MaxClock \in Nat /\ MaxLossRun \in Nat
  /\ MaxPackets \in Nat /\ PacketLengths \subseteq Nat \ {0}
BY FrameAssumption, ReceiverAssumption, LengthsAssumption, BoundsAssumption

\* The frame on its way, while there is one.
LEMMA FrameFacts ==
  ASSUME SenderInv, ~SendingDone
  PROVE  /\ sent # << >> /\ Len(sent) \in Nat /\ Last \in Nat \ {0}
         /\ index \in Nat /\ index < FragmentCount(Last)
         /\ FragmentCount(Last) \in 1 .. MaxCount
         /\ Frame.data \in Piece /\ Frame.data.length \in 1 .. DataCapacity
         /\ Frame.data.length = FragmentLength(Last, index)
         /\ Frame.continuation = (index # 0)
         /\ Frame.remaining = FragmentCount(Last) - index - 1
         /\ Frame.remaining \in 0 .. MaxCount - 1
<1>1. sent # << >> /\ index # FragmentCount(Last)
  BY DEF SendingDone, Last
<1>2. sent \in Seq(PacketLengths) /\ FragmentCount(Last) \in 1 .. MaxCount
      /\ index \in 0 .. FragmentCount(Last)
  BY <1>1 DEF SenderInv
<1>3. Len(sent) \in Nat \ {0} /\ Last \in PacketLengths
  BY <1>1, <1>2 DEF Last
<1>4. Last \in Nat \ {0}
  BY <1>3, LengthsAssumption
<1>5. index \in Nat /\ index < FragmentCount(Last)
  BY <1>1, <1>2, Sizes
<1>6. /\ FragmentLength(Last, index) \in 1 .. DataCapacity
      /\ index * DataCapacity \in Nat
  BY <1>4, <1>5, CutsFit
<1>7. Frame = [continuation |-> index # 0,
               remaining |-> FragmentCount(Last) - index - 1,
               data |-> [packet |-> Len(sent), offset |-> index * DataCapacity,
                         length |-> FragmentLength(Last, index)]]
  BY DEF Frame, BuildFragment, Last
<1> HIDE DEF Frame, Last
<1>8. /\ Frame.continuation = (index # 0)
      /\ Frame.remaining = FragmentCount(Last) - index - 1
      /\ Frame.data = [packet |-> Len(sent), offset |-> index * DataCapacity,
                       length |-> FragmentLength(Last, index)]
  BY <1>7
<1>9. Frame.data \in Piece /\ Frame.data.length = FragmentLength(Last, index)
  BY <1>3, <1>6, <1>8, Sizes DEF Piece
<1>10. FragmentCount(Last) - index - 1 \in 0 .. MaxCount - 1
  BY <1>2, <1>5, Sizes
<1>11. QED
  BY <1>1, <1>2, <1>3, <1>4, <1>5, <1>6, <1>8, <1>9, <1>10

\* Dropping an assembly keeps it.
LEMMA ResetKeeps ==
  ASSUME HistoryInv, NoLateCompletion, now \in 0 .. MaxClock, now' = now, Reset
  PROVE  ReassemblyInv'
<1>1. /\ active' = FALSE /\ remaining' = 0 /\ started' = 0 /\ length' = 0
      /\ buffer' = << >> /\ delivered' = delivered
  BY DEF Reset
<1>2. HistoryInv' /\ NoLateCompletion'
  BY <1>1 DEF HistoryInv, NoLateCompletion
<1>3. now' >= 0 /\ 0 \in 0 .. MaxClock /\ 0 \in 0 .. MaxCount - 1 /\ 0 \in 0 .. Mtu
  BY Sizes
<1>4. << >> \in Seq(Piece)
  OBVIOUS
<1>5. QED
  BY <1>1, <1>2, <1>3, <1>4 DEF ReassemblyInv

\* append_data, for an assembly that is not older than the timeout: within the
\* MTU the frame's data is taken, and the last frame completes the packet.
LEMMA AppendEnds ==
  ASSUME SenderInv, ~SendingDone, HistoryInv, NoLateCompletion,
         now \in 0 .. MaxClock, now' = now,
         NEW pieces \in Seq(Piece), NEW bytes \in Nat,
         NEW since \in 0 .. MaxClock, since <= now, now - since <= Timeout,
         AppendData(Frame, pieces, bytes, since)
  PROVE  /\ ReassemblyInv'
         /\ bytes + Frame.data.length <= Mtu =>
              /\ active' = (Frame.remaining # 0) /\ started' = since
              /\ remaining' = Frame.remaining
              /\ length' = bytes + Frame.data.length
              /\ Frame.remaining = 0 =>
                   /\ delivered' # << >>
                   /\ delivered'[Len(delivered')].last = Len(sent)
<1> DEFINE frame == Frame
<1>1. /\ frame.data \in Piece /\ frame.data.length \in 1 .. DataCapacity
      /\ frame.remaining \in 0 .. MaxCount - 1 /\ Len(sent) \in Nat
  BY FrameFacts
<1>2. AppendData(frame, pieces, bytes, since)
  OBVIOUS
<1> HIDE DEF frame
<1> DEFINE total == bytes + frame.data.length
           whole == [pieces |-> Append(pieces, frame.data), last |-> Len(sent),
                     took |-> now - since]
<1>3. total \in Nat
  BY <1>1, Sizes
<1>4. Append(pieces, frame.data) \in Seq(Piece)
  BY <1>1, AppendProperties
<1>5. whole \in Outcome
  <2>1. now - since \in Nat
    BY Sizes
  <2>2. QED
    BY <1>1, <1>4, <2>1 DEF Outcome
<1>6. whole.took <= Timeout /\ whole.last = Len(sent)
  OBVIOUS
<1>7. total > Mtu => Reset
  BY <1>2 DEF AppendData, Overflows
<1>8. total <= Mtu =>
        /\ buffer' = Append(pieces, frame.data) /\ length' = total
        /\ remaining' = frame.remaining /\ started' = since
        /\ active' = (frame.remaining # 0)
        /\ frame.remaining = 0 => delivered' = Append(delivered, whole)
        /\ frame.remaining # 0 => delivered' = delivered
  BY <1>2, <1>3, Sizes DEF AppendData, Overflows, HandOn
<1> HIDE DEF total, whole
<1>9. CASE total > Mtu
  <2>1. ReassemblyInv'
    BY <1>7, <1>9, ResetKeeps
  <2>2. QED
    BY <1>3, <1>9, <2>1, Sizes DEF total, frame
<1>10. CASE total <= Mtu
  <2>1. delivered \in Seq(Outcome) /\ \A k \in 1 .. Len(delivered) : delivered[k].took <= Timeout
    BY DEF HistoryInv, NoLateCompletion, Outcome
  <2>2. CASE frame.remaining = 0
    <3>1. delivered' = Append(delivered, whole)
      BY <1>8, <1>10, <2>2
    <3>2. /\ delivered' \in Seq(Outcome) /\ Len(delivered') = Len(delivered) + 1
          /\ delivered'[Len(delivered) + 1] = whole
          /\ \A k \in 1 .. Len(delivered) : delivered'[k] = delivered[k]
      BY <1>5, <2>1, <3>1, AppendProperties
    <3>3. Len(delivered) \in Nat
          /\ \A k \in 1 .. Len(delivered) + 1 : k \in 1 .. Len(delivered) \/ k = Len(delivered) + 1
      BY <2>1
    <3>4. \A k \in 1 .. Len(delivered') : delivered'[k].took <= Timeout
      BY <1>6, <2>1, <3>2, <3>3
    <3>5. delivered' # << >> /\ delivered'[Len(delivered')].last = Len(sent)
      BY <1>6, <3>2, <3>3
    <3>6. HistoryInv' /\ NoLateCompletion'
      BY <3>2, <3>4 DEF HistoryInv, NoLateCompletion, Outcome
    <3>7. active' = FALSE
      BY <1>8, <1>10, <2>2
    <3>8. /\ remaining' \in 0 .. MaxCount - 1 /\ started' \in 0 .. MaxClock
          /\ started' <= now' /\ length' \in 0 .. Mtu
      BY <1>1, <1>3, <1>8, <1>10, Sizes
    <3>9. buffer' \in Seq(Piece)
      BY <1>4, <1>8, <1>10
    <3>10. ReassemblyInv'
      BY <3>6, <3>7, <3>8, <3>9 DEF ReassemblyInv
    <3>11. QED
      BY <1>8, <1>10, <2>2, <3>5, <3>10 DEF total, frame
  <2>3. CASE frame.remaining # 0
    <3>1. delivered' = delivered /\ active' = TRUE
      BY <1>8, <1>10, <2>3
    <3>2. HistoryInv' /\ NoLateCompletion'
      BY <3>1 DEF HistoryInv, NoLateCompletion
    <3>3. /\ remaining' \in 0 .. MaxCount - 1 /\ remaining' > 0
          /\ started' \in 0 .. MaxClock /\ started' <= now' /\ length' \in 0 .. Mtu
      BY <1>1, <1>3, <1>8, <1>10, <2>3, Sizes
    <3>4. buffer' \in Seq(Piece)
      BY <1>4, <1>8, <1>10
    <3>5. ReassemblyInv'
      BY <3>1, <3>2, <3>3, <3>4 DEF ReassemblyInv
    <3>6. QED
      BY <1>8, <1>10, <2>3, <3>5 DEF total, frame
  <2>4. QED
    BY <2>2, <2>3
<1>11. QED
  BY <1>3, <1>9, <1>10, Sizes

-----------------------------------------------------------------------------
(* The inductive invariant. *)

\* Nothing is sent at the start.
LEMMA InitInvariant == Init => IInv
<1> SUFFICES ASSUME Init PROVE IInv
  OBVIOUS
<1>1. SenderInv /\ IntactInv
  BY DEF Init, SenderInv, IntactInv
<1>2. LinkInv
  <2>1. 0 \in 0 .. MaxLossRun /\ 0 \in 0 .. MaxClock /\ 0 <= 0
    BY Sizes
  <2>2. QED
    BY <2>1 DEF Init, LinkInv
<1>3. HistoryInv /\ NoLateCompletion
  BY DEF Init, HistoryInv, NoLateCompletion
<1>4. ReassemblyInv
  <2>1. /\ 0 \in 0 .. MaxCount - 1 /\ 0 \in 0 .. MaxClock /\ 0 <= 0
        /\ 0 \in 0 .. Mtu /\ << >> \in Seq(Piece)
    BY Sizes
  <2>2. QED
    BY <1>3, <2>1 DEF Init, ReassemblyInv
<1>5. QED
  BY <1>1, <1>2, <1>4 DEF IInv

\* A new packet is not begun.
LEMMA NextPacketInvariant == IInv /\ NextPacket => IInv'
<1> SUFFICES ASSUME IInv, NextPacket PROVE IInv'
  OBVIOUS
<1>1. PICK packetLength \in PacketLengths :
        FragmentCount(packetLength) <= MaxCount /\ sent' = Append(sent, packetLength)
  BY DEF NextPacket
<1>2. /\ index' = 0 /\ intact' = TRUE
      /\ UNCHANGED <<lossRun, begun, now, active, remaining, started, length, buffer,
                     delivered>>
  BY DEF NextPacket, reassembly
<1>3. FragmentCount(packetLength) \in 1 .. MaxCount
  BY <1>1, CountRoundsUp, Sizes
<1>4. sent \in Seq(PacketLengths)
  BY DEF IInv, SenderInv
<1>5. /\ sent' \in Seq(PacketLengths) /\ sent' # << >>
      /\ sent'[Len(sent')] = packetLength
  BY <1>1, <1>4, AppendProperties
<1>6. SenderInv'
  BY <1>2, <1>3, <1>5 DEF SenderInv, Last
<1>7. IntactInv'
  BY <1>2 DEF IntactInv
<1>8. ReassemblyInv'
  BY <1>2 DEF IInv, LinkInv, ReassemblyInv, HistoryInv, NoLateCompletion
<1>9. QED
  BY <1>2, <1>6, <1>7, <1>8 DEF IInv, LinkInv

\* A lost frame: the packet is not intact any more.
LEMMA LoseFrameInvariant == IInv /\ LoseFrame => IInv'
<1> SUFFICES ASSUME IInv, LoseFrame PROVE IInv'
  OBVIOUS
<1>1. /\ index' = index + 1 /\ lossRun < MaxLossRun /\ lossRun' = lossRun + 1
      /\ intact' = FALSE
      /\ UNCHANGED <<sent, begun, now, active, remaining, started, length, buffer,
                     delivered>>
  BY DEF LoseFrame, reassembly
<1>2. /\ sent # << >> /\ index \in Nat /\ index < FragmentCount(Last)
      /\ FragmentCount(Last) \in 1 .. MaxCount /\ SenderInv
  BY FrameFacts DEF IInv, LoseFrame
<1>3. SenderInv'
  BY <1>1, <1>2, Sizes DEF SenderInv, Last
<1>4. IntactInv'
  BY <1>1 DEF IntactInv
<1>5. ReassemblyInv'
  BY <1>1 DEF IInv, LinkInv, ReassemblyInv, HistoryInv, NoLateCompletion
<1>6. lossRun' \in 0 .. MaxLossRun
  BY <1>1, Sizes DEF IInv, LinkInv
<1>7. QED
  BY <1>1, <1>3, <1>4, <1>5, <1>6 DEF IInv, LinkInv

\* Time passes: what was in time yesterday may be late today, never the reverse.
LEMMA TickInvariant == IInv /\ Tick => IInv'
<1> SUFFICES ASSUME IInv, Tick PROVE IInv'
  OBVIOUS
<1>1. /\ now < MaxClock /\ now' = now + 1
      /\ UNCHANGED <<sent, index, lossRun, intact, begun, active, remaining, started,
                     length, buffer, delivered>>
  BY DEF Tick, sender, link, reassembly
<1>2. now \in 0 .. MaxClock /\ begun \in 0 .. MaxClock /\ begun <= now
      /\ started \in 0 .. MaxClock /\ started <= now
  BY DEF IInv, LinkInv, ReassemblyInv
<1>3. now' \in 0 .. MaxClock /\ begun' <= now' /\ started' <= now'
      /\ (now' - begun' <= Timeout => now - begun <= Timeout)
  BY <1>1, <1>2, Sizes
<1>4. SenderInv'
  BY <1>1 DEF IInv, SenderInv, Last
<1>5. IntactInv'
  BY <1>1, <1>3 DEF IInv, IntactInv, Last
<1>6. ReassemblyInv'
  BY <1>1, <1>3 DEF IInv, LinkInv, ReassemblyInv, HistoryInv, NoLateCompletion
<1>7. QED
  BY <1>1, <1>3, <1>4, <1>5, <1>6 DEF IInv, LinkInv

\* A frame is received: a start frame of an intact packet begins its assembly,
\* and each continuation finds the assembly where the sender is.
LEMMA ReceiveFrameInvariant == IInv /\ ReceiveFrame => IInv'
<1> SUFFICES ASSUME IInv, ReceiveFrame PROVE IInv'
  OBVIOUS
<1>1. /\ index' = index + 1 /\ lossRun' = 0
      /\ begun' = IF index = 0 THEN now ELSE begun
      /\ sent' = sent /\ intact' = intact /\ now' = now /\ ~SendingDone
  BY DEF ReceiveFrame
<1>2. /\ SenderInv /\ IntactInv /\ ReassemblyInv /\ HistoryInv /\ NoLateCompletion
      /\ now \in 0 .. MaxClock /\ begun \in 0 .. MaxClock /\ begun <= now
      /\ intact \in BOOLEAN
  BY DEF IInv, LinkInv, ReassemblyInv
<1>3. /\ sent # << >> /\ Last \in Nat \ {0}
      /\ index \in Nat /\ index < FragmentCount(Last)
      /\ FragmentCount(Last) \in 1 .. MaxCount
      /\ Frame.data.length \in 1 .. DataCapacity
      /\ Frame.data.length = FragmentLength(Last, index)
      /\ Frame.continuation = (index # 0)
      /\ Frame.remaining = FragmentCount(Last) - index - 1
  BY <1>1, <1>2, FrameFacts
<1>4. /\ index * DataCapacity \in Nat
      /\ index * DataCapacity + Frame.data.length <= Last
      /\ index + 1 < FragmentCount(Last) =>
           index * DataCapacity + Frame.data.length = (index + 1) * DataCapacity
  BY <1>3, CutsFit
<1>5. SenderInv'
  BY <1>1, <1>2, <1>3, Sizes DEF SenderInv, Last
<1>6. begun' \in 0 .. MaxClock /\ begun' <= now' /\ lossRun' \in 0 .. MaxLossRun
  BY <1>1, <1>2, Sizes
<1>7. CASE index = 0
  <2>1. AppendData(Frame, << >>, 0, now)
    BY <1>3, <1>7 DEF ReceiveFrame, Start
  <2>2. now - now <= Timeout /\ now <= now /\ 0 \in Nat /\ << >> \in Seq(Piece)
    BY <1>2, Sizes
  <2>3. /\ ReassemblyInv'
        /\ 0 + Frame.data.length <= Mtu =>
             /\ active' = (Frame.remaining # 0) /\ started' = now
             /\ remaining' = Frame.remaining
             /\ length' = 0 + Frame.data.length
             /\ Frame.remaining = 0 =>
                  /\ delivered' # << >>
                  /\ delivered'[Len(delivered')].last = Len(sent)
    BY <1>1, <1>2, <2>1, <2>2, AppendEnds
  <2>4. index * DataCapacity = 0
    BY <1>7, Sizes
  <2>5. ASSUME Last <= Mtu
        PROVE  /\ index' < FragmentCount(Last) =>
                    /\ active' /\ started' = begun'
                    /\ remaining' = FragmentCount(Last) - index'
                    /\ length' = index' * DataCapacity
               /\ index' = FragmentCount(Last) =>
                    /\ delivered' # << >>
                    /\ delivered'[Len(delivered')].last = Len(sent)
    <3> DEFINE size == Frame.data.length
               left == Frame.remaining
               all == FragmentCount(Last)
    <3>1. /\ size \in Nat /\ left = all - index - 1 /\ all \in Nat
          /\ 0 + size <= Last
          /\ index + 1 < all => 0 + size = (index + 1) * DataCapacity
      <4>1. /\ index * DataCapacity + size <= Last
            /\ index + 1 < all =>
                 index * DataCapacity + size = (index + 1) * DataCapacity
        BY <1>4
      <4>2. size \in Nat /\ left = all - index - 1 /\ all \in Nat
        BY <1>3, Sizes
      <4> DEFINE before == index * DataCapacity
                 after == (index + 1) * DataCapacity
      <4>3. /\ before = 0 /\ before + size <= Last
            /\ index + 1 < all => before + size = after
        BY <2>4, <4>1, Zenon
      <4> HIDE DEF size, all, left, before, after
      <4>4. 0 + size <= Last /\ (index + 1 < all => 0 + size = after)
        BY <4>2, <4>3
      <4>5. QED
        BY <4>2, <4>4 DEF after
    <3>2. index' = index + 1
      BY <1>1
    <3>3. Last \in Nat /\ Mtu \in Nat
      BY <1>3, Sizes
    <3> HIDE DEF size, left, all
    <3>4. 0 + size <= Mtu /\ 0 + size = size
      BY <2>5, <3>1, <3>3
    <3>5. index' < all => left # 0
          /\ left = all - index'
          /\ size = index' * DataCapacity
      BY <1>7, <3>1, <3>2
    <3>6. index' = all => left = 0
      BY <1>7, <3>1, <3>2
    <3> USE DEF size, left, all
    <3>7. QED
      BY <1>1, <1>7, <2>3, <3>4, <3>5, <3>6
  <2>6. IntactInv'
    BY <1>1, <2>5 DEF IntactInv, Last
  <2>7. QED
    BY <1>1, <1>2, <1>5, <1>6, <2>3, <2>6 DEF IInv, LinkInv
<1>8. CASE index # 0
  <2>1. Continue(Frame)
    BY <1>3, <1>8 DEF ReceiveFrame
  <2>2. begun' = begun
    BY <1>1, <1>8
  <2>3. CASE Continues(Frame)
    <3>1. AppendData(Frame, buffer, length, started)
      BY <2>1, <2>3 DEF Continue
    <3>2. /\ buffer \in Seq(Piece) /\ length \in Nat /\ started \in 0 .. MaxClock
          /\ started <= now /\ now - started <= Timeout
      BY <1>2, <2>3, Sizes DEF ReassemblyInv, Continues, Expired
    <3>3. /\ ReassemblyInv'
          /\ length + Frame.data.length <= Mtu =>
               /\ active' = (Frame.remaining # 0) /\ started' = started
               /\ remaining' = Frame.remaining
               /\ length' = length + Frame.data.length
               /\ Frame.remaining = 0 =>
                    /\ delivered' # << >>
                    /\ delivered'[Len(delivered')].last = Len(sent)
      BY <1>1, <1>2, <3>1, <3>2, AppendEnds
    <3>4. ASSUME Last <= Mtu, intact, now - begun <= Timeout
          PROVE  /\ index' < FragmentCount(Last) =>
                      /\ active' /\ started' = begun'
                      /\ remaining' = FragmentCount(Last) - index'
                      /\ length' = index' * DataCapacity
                 /\ index' = FragmentCount(Last) =>
                      /\ delivered' # << >>
                      /\ delivered'[Len(delivered')].last = Len(sent)
      <4>1. started = begun /\ length = index * DataCapacity
        BY <1>2, <1>3, <1>8, <3>4 DEF IntactInv
      <4>2. length + Frame.data.length <= Mtu
        BY <1>3, <1>4, <3>4, <4>1, Sizes
      <4>3. index' < FragmentCount(Last) => /\ Frame.remaining # 0
                        /\ Frame.remaining = FragmentCount(Last) - index'
                        /\ length + Frame.data.length = index' * DataCapacity
        BY <1>1, <1>3, <1>4, <4>1, Sizes
      <4>4. index' = FragmentCount(Last) => Frame.remaining = 0
        BY <1>1, <1>3, Sizes
      <4>5. QED
        BY <1>1, <2>2, <3>3, <4>1, <4>2, <4>3, <4>4
    <3>5. IntactInv'
      BY <1>1, <2>2, <3>4 DEF IntactInv, Last
    <3>6. QED
      BY <1>1, <1>2, <1>5, <1>6, <3>3, <3>5 DEF IInv, LinkInv
  <2>4. CASE ~Continues(Frame)
    <3>1. ReassemblyInv'
      BY <1>1, <1>2, <2>1, <2>4, ResetKeeps DEF Continue
    <3>2. ASSUME Last <= Mtu, intact, now - begun <= Timeout
          PROVE  FALSE
      <4>1. active /\ started = begun /\ remaining = FragmentCount(Last) - index
        BY <1>2, <1>3, <1>8, <3>2 DEF IntactInv
      <4>2. ~Expired
        BY <3>2, <4>1, <1>2, Sizes DEF Expired
      <4>3. remaining # 0 /\ Frame.remaining + 1 = remaining
        BY <1>3, <4>1, Sizes
      <4>4. QED
        BY <2>4, <4>1, <4>2, <4>3 DEF Continues
    <3>3. IntactInv'
      BY <1>1, <2>2, <3>2 DEF IntactInv, Last
    <3>4. QED
      BY <1>1, <1>2, <1>5, <1>6, <3>1, <3>3 DEF IInv, LinkInv
  <2>5. QED
    BY <2>3, <2>4
<1>9. QED
  BY <1>7, <1>8

\* Every reachable state has the invariant.
LEMMA Invariance == Spec => []IInv
<1>1. IInv /\ UNCHANGED vars => IInv'
  BY DEF IInv, SenderInv, LinkInv, ReassemblyInv, IntactInv, HistoryInv, NoLateCompletion,
         Last, vars, sender, link, reassembly
<1>2. IInv /\ [Next]_vars => IInv'
  BY <1>1, NextPacketInvariant, LoseFrameInvariant, TickInvariant,
     ReceiveFrameInvariant DEF Next
<1>3. QED
  BY InitInvariant, <1>2, PTL DEF Spec

-----------------------------------------------------------------------------
\* The type invariant: among others, the bytes copied never exceed the packet
\* buffer, whatever the peer sends.
THEOREM TypesHold == Spec => []TypeOK
<1>1. IInv => TypeOK
  <2> SUFFICES ASSUME IInv PROVE TypeOK
    OBVIOUS
  <2>1. index \in 0 .. MaxCount /\ \A k \in 1 .. Len(sent) : sent[k] \in PacketLengths
    BY Sizes DEF IInv, SenderInv
  <2>2. QED
    BY <2>1 DEF IInv, LinkInv, ReassemblyInv, TypeOK
<1>2. QED
  BY <1>1, Invariance, PTL

\* No packet is completed later than the timeout after its start frame.
THEOREM CompletionsAreTimely == Spec => []NoLateCompletion
<1>1. IInv => NoLateCompletion
  BY DEF IInv, ReassemblyInv
<1>2. QED
  BY <1>1, Invariance, PTL

\* A packet whose frames all arrived, in time and within the MTU, is handed on,
\* whatever was lost before it.
THEOREM IntactGetsThrough == Spec => []IntactIsDelivered
<1>1. IInv => IntactIsDelivered
  <2> SUFFICES ASSUME IInv, sent # << >>, SendingDone, intact,
                      sent[Len(sent)] <= Mtu, now - begun <= Timeout
               PROVE  delivered # << >> /\ delivered[Len(delivered)].last = Len(sent)
    BY DEF IntactIsDelivered
  <2>1. index = FragmentCount(Last) /\ FragmentCount(Last) \in 1 .. MaxCount
    BY DEF SendingDone, Last, IInv, SenderInv
  <2>2. index > 0
    BY <2>1, Sizes
  <2>3. Last <= Mtu /\ IntactInv
    BY DEF Last, IInv
  <2>4. QED
    BY <2>1, <2>2, <2>3 DEF IntactInv
<1>2. QED
  BY <1>1, Invariance, PTL
-----------------------------------------------------------------------------
(* What is handed on was sent. *)

\* Every run of losses is shorter than a packet of more than one frame.
LossesAreShort ==
  \A L \in PacketLengths :
    FragmentCount(L) \in 2 .. MaxCount => MaxLossRun < FragmentCount(L)

PieceOf(p, k) ==
  [packet |-> p, offset |-> k * DataCapacity,
   length |-> FragmentLength(sent[p], k)]

\* The first frames of a packet.
BeginsPacket(pieces, p) ==
  \A k \in 1 .. Len(pieces) : pieces[k] = PieceOf(p, k - 1)

\* The assembly is the beginning of one packet, and every frame sent since its
\* last piece was lost: the rest of that packet, and all of the packet in
\* progress so far if that is a later one.
AssemblyInv ==
  active =>
    \E p \in 1 .. Len(sent) :
      /\ BeginsPacket(buffer, p)
      /\ Len(buffer) + remaining = FragmentCount(sent[p])
      /\ p = Len(sent) => Len(buffer) <= index /\ index - Len(buffer) <= lossRun
      /\ p < Len(sent) => remaining + index <= lossRun

\* Packets are handed on whole and in order, the one in progress only at its end.
DeliveredInv ==
  /\ DeliveredAreSent
  /\ \A k \in 1 .. Len(delivered) :
       /\ delivered[k].last \in 1 .. Len(sent)
       /\ delivered[k].last = Len(sent) => index = FragmentCount(Last)

SplicelessInv == IInv /\ AssemblyInv /\ DeliveredInv

\* The next frame carries the next piece of the packet in progress.
LEMMA FrameIsNextPiece ==
  ASSUME SenderInv, ~SendingDone
  PROVE  Frame.data = PieceOf(Len(sent), index)
BY DEF Frame, BuildFragment, PieceOf

\* append_data, for the beginning of the packet in progress up to the frame
\* that arrives: it is one piece longer, or a whole packet, or gone.
LEMMA AppendSplicesNothing ==
  ASSUME IInv, DeliveredInv, ~SendingDone,
         sent' = sent, index' = index + 1, lossRun' = 0,
         NEW pieces \in Seq(Piece), NEW bytes, NEW since,
         Len(pieces) = index, BeginsPacket(pieces, Len(sent)),
         AppendData(Frame, pieces, bytes, since)
  PROVE  AssemblyInv' /\ DeliveredInv'
<1>1. PICK P : P = Len(sent)
  OBVIOUS
<1>2. PICK longer : longer = Append(pieces, Frame.data)
  OBVIOUS
<1>3. PICK whole : whole = [pieces |-> longer, last |-> P, took |-> now - since]
  OBVIOUS
<1>4. /\ sent # << >> /\ P \in Nat \ {0} /\ index \in Nat
      /\ index < FragmentCount(Last) /\ FragmentCount(Last) \in 1 .. MaxCount
      /\ Frame.data \in Piece /\ Frame.remaining = FragmentCount(Last) - index - 1
      /\ Last = sent[P]
  <2>1. sent \in Seq(PacketLengths) /\ SenderInv
    BY DEF IInv, SenderInv
  <2>2. QED
    BY <1>1, <2>1, FrameFacts DEF Last
<1>5. FragmentCount(Last) \in Nat
  BY <1>4, Sizes
<1>6. /\ longer \in Seq(Piece) /\ Len(longer) = index + 1
      /\ \A k \in 1 .. Len(longer) : longer[k] = PieceOf(P, k - 1)
  <2>1. /\ Len(longer) = index + 1 /\ longer \in Seq(Piece)
        /\ longer[index + 1] = Frame.data
        /\ \A k \in 1 .. index : longer[k] = pieces[k]
    BY <1>4, <1>2, AppendProperties
  <2>2. Frame.data = PieceOf(P, index)
    BY <1>1, FrameIsNextPiece DEF IInv
  <2>3. \A k \in 1 .. index : pieces[k] = PieceOf(P, k - 1)
    BY <1>1 DEF BeginsPacket
  <2>4. \A k \in 1 .. index + 1 : k \in 1 .. index \/ (k = index + 1 /\ k - 1 = index)
    BY <1>4
  <2>5. QED
    BY <2>1, <2>2, <2>3, <2>4
<1>7. \/ Reset
      \/ /\ buffer' = longer /\ remaining' = Frame.remaining
         /\ active' = (Frame.remaining # 0)
         /\ Frame.remaining = 0 => delivered' = Append(delivered, whole)
         /\ Frame.remaining # 0 => delivered' = delivered
  BY <1>1, <1>2, <1>3 DEF AppendData, HandOn
<1>8. BeginsPacket(longer, P)'
  BY <1>6 DEF BeginsPacket, PieceOf
<1>9. CASE Reset
  <2>1. active' = FALSE /\ delivered' = delivered
    BY <1>9 DEF Reset
  <2>2. DeliveredInv'
    <3>1. DeliveredAreSent'
      BY <2>1 DEF DeliveredInv, DeliveredAreSent, IsPacket
    <3>2. ASSUME NEW k \in 1 .. Len(delivered), delivered[k].last = Len(sent)
          PROVE  FALSE
      BY <1>4, <3>2 DEF DeliveredInv
    <3>3. QED
      BY <2>1, <3>1, <3>2 DEF DeliveredInv
  <2>3. QED
    BY <2>1, <2>2 DEF AssemblyInv
<1>10. CASE ~Reset /\ Frame.remaining # 0
  <2>1. /\ buffer' = longer /\ remaining' = Frame.remaining /\ delivered' = delivered
    BY <1>7, <1>10
  <2>2. AssemblyInv'
    <3>1. P \in 1 .. Len(sent') /\ P = Len(sent')
      BY <1>4, <1>1
    <3>2. BeginsPacket(buffer, P)'
      BY <1>8, <2>1 DEF BeginsPacket, PieceOf
    <3>3. Len(buffer') + remaining' = FragmentCount(sent'[P])
      BY <1>4, <1>5, <1>6, <2>1
    <3>4. Len(buffer') <= index' /\ index' - Len(buffer') <= lossRun'
      BY <1>4, <1>6, <2>1
    <3>5. QED
      BY <3>1, <3>2, <3>3, <3>4 DEF AssemblyInv
  <2>3. DeliveredInv'
    <3>1. DeliveredAreSent'
      BY <2>1 DEF DeliveredInv, DeliveredAreSent, IsPacket
    <3>2. ASSUME NEW k \in 1 .. Len(delivered), delivered[k].last = Len(sent)
          PROVE  FALSE
      BY <1>4, <3>2 DEF DeliveredInv
    <3>3. QED
      BY <2>1, <3>1, <3>2 DEF DeliveredInv
  <2>4. QED
    BY <2>2, <2>3
<1>11. CASE ~Reset /\ Frame.remaining = 0
  <2>1. active' = FALSE /\ delivered' = Append(delivered, whole)
    BY <1>7, <1>11
  <2>2. index + 1 = FragmentCount(Last)
    BY <1>4, <1>5, <1>11
  <2>3. /\ whole.pieces = longer /\ whole.last = P
    BY <1>3
  <2>4. delivered \in Seq(Outcome)
    BY DEF IInv, ReassemblyInv, HistoryInv
  <2>5. /\ Len(delivered) \in Nat /\ Len(delivered') = Len(delivered) + 1
        /\ delivered'[Len(delivered) + 1] = whole
        /\ \A k \in 1 .. Len(delivered) : delivered'[k] = delivered[k]
        /\ \A k \in 1 .. Len(delivered') :
             k \in 1 .. Len(delivered) \/ k = Len(delivered) + 1
    BY <2>1, <2>4, AppendProperties
  <2>6. ASSUME NEW k \in 1 .. Len(delivered)
        PROVE  /\ delivered[k].last \in 1 .. P - 1
               /\ IsPacket(delivered[k].pieces, delivered[k].last)'
    <3>1. delivered[k].last \in 1 .. P /\ delivered[k].last # P
      BY <1>4, <1>1 DEF DeliveredInv
    <3>2. IsPacket(delivered[k].pieces, delivered[k].last)
      BY DEF DeliveredInv, DeliveredAreSent
    <3>3. delivered'[k] = delivered[k]
      BY <2>5
    <3>4. QED
      BY <1>4, <3>1, <3>2, <3>3 DEF IsPacket
  <2>7. IsPacket(longer, P)'
    <3>1. Len(longer) = FragmentCount(sent'[P])
      BY <1>4, <1>6, <2>2
    <3>2. \A k \in 1 .. Len(longer) :
            /\ longer[k].packet = P
            /\ longer[k].offset = (k - 1) * DataCapacity
            /\ longer[k].length = FragmentLength(sent[P], k - 1)
      BY <1>6 DEF PieceOf
    <3>3. QED
      BY <3>1, <3>2 DEF IsPacket
  <2>8. DeliveredAreSent'
    <3>1. \A k \in 1 .. Len(delivered') :
            IsPacket(delivered[k].pieces, delivered[k].last)'
      BY <2>3, <2>5, <2>6, <2>7 DEF IsPacket
    <3>2. \A j, k \in 1 .. Len(delivered') :
            j < k => delivered'[j].last < delivered'[k].last
      <4>1. SUFFICES ASSUME NEW j \in 1 .. Len(delivered'),
                            NEW k \in 1 .. Len(delivered'), j < k
                     PROVE  delivered'[j].last < delivered'[k].last
        OBVIOUS
      <4>2. j \in 1 .. Len(delivered)
        BY <2>5, <4>1
      <4>3. CASE k \in 1 .. Len(delivered)
        BY <2>5, <4>1, <4>2, <4>3 DEF DeliveredInv, DeliveredAreSent
      <4>4. CASE k = Len(delivered) + 1
        BY <1>4, <2>3, <2>5, <2>6, <4>2, <4>4
      <4>5. QED
        BY <2>5, <4>3, <4>4
    <3>3. QED
      BY <3>1, <3>2 DEF DeliveredAreSent
  <2>9. \A k \in 1 .. Len(delivered') :
          /\ delivered'[k].last \in 1 .. Len(sent')
          /\ delivered'[k].last = Len(sent') => index' = FragmentCount(Last')
    <3>1. Last' = Last /\ Len(sent') = P
      BY <1>1 DEF Last
    <3>2. index' = FragmentCount(Last')
      BY <2>2, <3>1
    <3>3. ASSUME NEW k \in 1 .. Len(delivered')
          PROVE  delivered'[k].last \in 1 .. P
      <4>1. CASE k \in 1 .. Len(delivered)
        BY <1>4, <2>5, <2>6, <4>1
      <4>2. CASE k = Len(delivered) + 1
        BY <1>4, <2>3, <2>5, <4>2
      <4>3. QED
        BY <2>5, <4>1, <4>2
    <3>4. QED
      BY <3>1, <3>2, <3>3
  <2>10. QED
    BY <2>1, <2>8, <2>9 DEF AssemblyInv, DeliveredInv
<1>12. QED
  BY <1>9, <1>10, <1>11

\* With short losses no continuation finds the assembly of another packet.
LEMMA ReceiveSplicesNothing ==
  ASSUME LossesAreShort, SplicelessInv, ReceiveFrame
  PROVE  AssemblyInv' /\ DeliveredInv'
<1>1. /\ IInv /\ SenderInv /\ AssemblyInv /\ DeliveredInv /\ ~SendingDone
      /\ sent' = sent /\ index' = index + 1 /\ lossRun' = 0
      /\ buffer \in Seq(Piece) /\ remaining \in Nat
      /\ lossRun \in 0 .. MaxLossRun
  BY Sizes DEF ReceiveFrame, SplicelessInv, IInv, ReassemblyInv, LinkInv
<1>2. /\ sent # << >> /\ Len(sent) \in Nat \ {0} /\ Last \in PacketLengths
      /\ index \in Nat /\ index < FragmentCount(Last)
      /\ FragmentCount(Last) \in 1 .. MaxCount
      /\ Frame.data.length \in 1 .. DataCapacity
      /\ Frame.continuation = (index # 0)
      /\ Frame.remaining = FragmentCount(Last) - index - 1
      /\ Last = sent[Len(sent)]
  BY <1>1, FrameFacts DEF SenderInv, Last
<1>3. Reset => AssemblyInv' /\ DeliveredInv'
  <2>1. SUFFICES ASSUME Reset PROVE AssemblyInv' /\ DeliveredInv'
    OBVIOUS
  <2>2. active' = FALSE /\ delivered' = delivered
    BY <2>1 DEF Reset
  <2>3. DeliveredAreSent'
    BY <1>1, <2>2 DEF DeliveredInv, DeliveredAreSent, IsPacket
  <2>4. \A k \in 1 .. Len(delivered) :
          delivered[k].last \in 1 .. Len(sent) /\ delivered[k].last # Len(sent)
    BY <1>1, <1>2 DEF DeliveredInv
  <2>5. QED
    BY <1>1, <2>2, <2>3, <2>4 DEF AssemblyInv, DeliveredInv
<1>4. CASE index = 0
  <2>1. AppendData(Frame, << >>, 0, now)
    BY <1>2, <1>4 DEF ReceiveFrame, Start
  <2>2. BeginsPacket(<< >>, Len(sent)) /\ Len(<< >>) = index /\ << >> \in Seq(Piece)
    BY <1>4 DEF BeginsPacket
  <2>3. QED
    BY <1>1, <2>1, <2>2, AppendSplicesNothing
<1>5. CASE index # 0
  <2>1. Continue(Frame)
    BY <1>2, <1>5 DEF ReceiveFrame
  <2>2. CASE ~Continues(Frame)
    BY <1>3, <2>1, <2>2 DEF Continue
  <2>3. CASE Continues(Frame)
    <3>1. /\ AppendData(Frame, buffer, length, started)
          /\ active /\ Frame.remaining + 1 = remaining
      BY <2>1, <2>3 DEF Continue, Continues
    <3>2. PICK p \in 1 .. Len(sent) :
            /\ BeginsPacket(buffer, p)
            /\ Len(buffer) + remaining = FragmentCount(sent[p])
            /\ p = Len(sent) => Len(buffer) <= index /\ index - Len(buffer) <= lossRun
            /\ p < Len(sent) => remaining + index <= lossRun
      BY <1>1, <3>1 DEF AssemblyInv
    <3>3. remaining + index = FragmentCount(Last)
      BY <1>1, <1>2, <3>1, Sizes
    <3>4. p = Len(sent)
      <4>1. SUFFICES ASSUME p < Len(sent) PROVE FALSE
        BY <1>2
      <4>2. FragmentCount(Last) <= MaxLossRun
        BY <1>1, <1>2, <3>2, <3>3, <4>1, Sizes
      <4>3. FragmentCount(Last) \in 2 .. MaxCount
        BY <1>2, <1>5, Sizes
      <4>4. MaxLossRun < FragmentCount(Last)
        BY <1>2, <4>3 DEF LossesAreShort
      <4>5. QED
        BY <4>2, <4>3, <4>4, Sizes
    <3>5. Len(buffer) = index
      BY <1>1, <1>2, <3>2, <3>3, <3>4
    <3>6. QED
      BY <1>1, <3>1, <3>2, <3>4, <3>5, AppendSplicesNothing
  <2>4. QED
    BY <2>2, <2>3
<1>6. QED
  BY <1>4, <1>5

\* A new packet, a lost frame: what the assembly waits for is lost already.
LEMMA SendingSplicesNothing ==
  ASSUME SplicelessInv, NextPacket \/ LoseFrame
  PROVE  AssemblyInv' /\ DeliveredInv'
<1>1. /\ IInv /\ SenderInv /\ AssemblyInv /\ DeliveredInv
      /\ buffer \in Seq(Piece) /\ remaining \in Nat /\ lossRun \in Nat
      /\ sent \in Seq(PacketLengths) /\ index \in Nat
      /\ active' = active /\ buffer' = buffer /\ remaining' = remaining
      /\ delivered' = delivered
  BY Sizes DEF SplicelessInv, IInv, SenderInv, LinkInv, ReassemblyInv, NextPacket,
               LoseFrame, reassembly
<1>2. /\ Len(sent) \in Nat
      /\ \A p \in 1 .. Len(sent) : p \in 1 .. Len(sent') /\ sent'[p] = sent[p]
  BY <1>1, AppendProperties DEF NextPacket, LoseFrame
<1>3. ASSUME NEW p \in 1 .. Len(sent), BeginsPacket(buffer, p)
      PROVE  BeginsPacket(buffer, p)'
  <2>1. sent'[p] = sent[p]
    BY <1>2
  <2>2. QED
    BY <1>1, <1>3, <2>1 DEF BeginsPacket, PieceOf
<1>4. DeliveredAreSent'
  <2>1. ASSUME NEW k \in 1 .. Len(delivered)
        PROVE  IsPacket(delivered[k].pieces, delivered[k].last)'
    <3>1. IsPacket(delivered[k].pieces, delivered[k].last)
      BY <1>1 DEF DeliveredInv, DeliveredAreSent
    <3>2. delivered[k].last \in 1 .. Len(sent)
      BY <1>1 DEF DeliveredInv
    <3>3. QED
      BY <1>1, <1>2, <3>1, <3>2 DEF IsPacket
  <2>2. QED
    BY <1>1, <2>1 DEF DeliveredInv, DeliveredAreSent
<1>5. CASE NextPacket
  <2>1. /\ SendingDone /\ index' = 0 /\ lossRun' = lossRun
        /\ Len(sent') = Len(sent) + 1
    BY <1>1, <1>5, AppendProperties DEF NextPacket
  <2>2. sent # << >> => index = FragmentCount(sent[Len(sent)])
    BY <2>1 DEF SendingDone
  <2>3. AssemblyInv'
    <3>1. SUFFICES ASSUME active PROVE AssemblyInv'
      BY <1>1 DEF AssemblyInv
    <3>2. PICK p \in 1 .. Len(sent) :
            /\ BeginsPacket(buffer, p)
            /\ Len(buffer) + remaining = FragmentCount(sent[p])
            /\ p = Len(sent) => Len(buffer) <= index /\ index - Len(buffer) <= lossRun
            /\ p < Len(sent) => remaining + index <= lossRun
      BY <1>1, <3>1 DEF AssemblyInv
    <3>3. p < Len(sent') /\ p \in 1 .. Len(sent') /\ sent'[p] = sent[p]
      BY <1>2, <2>1
    <3>4. remaining + index' <= lossRun'
      <4>1. Len(buffer) \in Nat
        BY <1>1
      <4>2. CASE p = Len(sent)
        BY <1>1, <2>1, <2>2, <3>2, <4>1, <4>2
      <4>3. CASE p < Len(sent)
        BY <1>1, <2>1, <3>2, <4>3
      <4>4. QED
        BY <1>2, <4>2, <4>3
    <3>5. BeginsPacket(buffer, p)'
      BY <1>3, <3>2
    <3>6. /\ Len(buffer') + remaining' = FragmentCount(sent'[p])
          /\ p # Len(sent')
      BY <1>1, <1>2, <3>2, <3>3
    <3>7. QED
      BY <1>1, <3>3, <3>4, <3>5, <3>6 DEF AssemblyInv
  <2>4. \A k \in 1 .. Len(delivered) :
          delivered[k].last \in 1 .. Len(sent') /\ delivered[k].last # Len(sent')
    BY <1>1, <1>2, <2>1 DEF DeliveredInv
  <2>5. QED
    BY <1>1, <1>4, <2>3, <2>4 DEF DeliveredInv
<1>6. CASE LoseFrame
  <2>1. /\ ~SendingDone /\ index' = index + 1 /\ lossRun' = lossRun + 1
        /\ sent' = sent
    BY <1>6 DEF LoseFrame
  <2>2. index < FragmentCount(Last) /\ FragmentCount(Last) \in Nat
    BY <1>1, <2>1, FrameFacts, Sizes
  <2>3. AssemblyInv'
    <3>1. SUFFICES ASSUME active PROVE AssemblyInv'
      BY <1>1 DEF AssemblyInv
    <3>2. PICK p \in 1 .. Len(sent) :
            /\ BeginsPacket(buffer, p)
            /\ Len(buffer) + remaining = FragmentCount(sent[p])
            /\ p = Len(sent) => Len(buffer) <= index /\ index - Len(buffer) <= lossRun
            /\ p < Len(sent) => remaining + index <= lossRun
      BY <1>1, <3>1 DEF AssemblyInv
    <3>3. Len(buffer) \in Nat
      BY <1>1
    <3>4. /\ p = Len(sent) => Len(buffer) <= index' /\ index' - Len(buffer) <= lossRun'
          /\ p < Len(sent) => remaining + index' <= lossRun'
      BY <1>1, <2>1, <3>2, <3>3
    <3>5. BeginsPacket(buffer, p)'
      BY <1>3, <3>2
    <3>6. QED
      BY <1>1, <2>1, <3>2, <3>4, <3>5 DEF AssemblyInv
  <2>4. \A k \in 1 .. Len(delivered) :
          delivered[k].last \in 1 .. Len(sent) /\ delivered[k].last # Len(sent)
    BY <1>1, <2>2, Sizes DEF DeliveredInv
  <2>5. QED
    BY <1>1, <1>4, <2>1, <2>3, <2>4 DEF DeliveredInv
<1>7. QED
  BY <1>5, <1>6

\* Whatever the link loses in runs shorter than the packets of more than one
\* frame, what reassembly hands on is packets that were sent, whole, in order,
\* and each at most once.
THEOREM NothingIsSpliced ==
  ASSUME LossesAreShort
  PROVE  Spec => []DeliveredAreSent
<1>1. Init => SplicelessInv
  BY InitInvariant DEF Init, SplicelessInv, AssemblyInv, DeliveredInv, DeliveredAreSent
<1>2. SplicelessInv /\ [Next]_vars => SplicelessInv'
  <2> SUFFICES ASSUME SplicelessInv, [Next]_vars PROVE SplicelessInv'
    OBVIOUS
  <2>1. IInv'
    <3>1. IInv /\ UNCHANGED vars => IInv'
      BY DEF IInv, SenderInv, LinkInv, ReassemblyInv, IntactInv, HistoryInv,
             NoLateCompletion, Last, vars, sender, link, reassembly
    <3>2. QED
      BY <3>1, NextPacketInvariant, LoseFrameInvariant, TickInvariant,
         ReceiveFrameInvariant DEF Next, SplicelessInv
  <2>2. CASE Tick \/ UNCHANGED vars
    <3>1. UNCHANGED <<sent, index, lossRun, active, remaining, buffer, delivered>>
      BY <2>2 DEF Tick, vars, sender, link, reassembly
    <3>2. AssemblyInv' /\ DeliveredInv'
      BY <3>1 DEF SplicelessInv, AssemblyInv, DeliveredInv, DeliveredAreSent,
                  BeginsPacket, PieceOf, IsPacket, Last
    <3>3. QED
      BY <2>1, <3>2 DEF SplicelessInv
  <2>3. QED
    BY <2>1, <2>2, ReceiveSplicesNothing, SendingSplicesNothing DEF Next, SplicelessInv
<1>3. SplicelessInv => DeliveredAreSent
  BY DEF SplicelessInv, DeliveredInv
<1>4. QED
  BY <1>1, <1>2, <1>3, PTL DEF Spec

(***************************************************************************)
(* The KISS connection.  Its encoder is a recursive function and its       *)
(* reference counts through sets; induction over both is by the least      *)
(* counterexample.                                                         *)
(***************************************************************************)

-----------------------------------------------------------------------------
(* Counting through a set of numbers. *)

\* A set of natural numbers has a smallest one: what induction is made of here.
LEMMA LeastNumber ==
  ASSUME NEW T, T \subseteq Nat, T # {}
  PROVE  \E m \in T : \A k \in T : m <= k
<1>1. PICK m \in T : \A k \in T : <<k, m>> \notin OpToRel(<, Nat)
  BY NatLessThanWellFounded, WFMin, Zenon
<1>2. \A k \in T : ~(k < m)
  BY <1>1, Zenon DEF OpToRel
<1>3. QED
  BY <1>2

Rank(S, i) == Cardinality({j \in S : j <= i})

LEMMA RankIsBounded ==
  ASSUME NEW n \in Nat, NEW S, S \subseteq 1 .. n, NEW i
  PROVE  /\ IsFiniteSet(S) /\ Cardinality(S) \in Nat
         /\ Rank(S, i) \in Nat /\ Rank(S, i) <= Cardinality(S)
<1>1. IsFiniteSet(1 .. n)
  BY FS_Interval
<1>2. IsFiniteSet(S)
  BY <1>1, FS_Subset
<1> DEFINE T == {j \in S : j <= i}
<1>3. T \in SUBSET S
  OBVIOUS
<1>4. IsFiniteSet(T) /\ Cardinality(T) <= Cardinality(S)
  BY <1>2, <1>3, FS_Subset
<1>5. Cardinality(T) \in Nat /\ Cardinality(S) \in Nat
  BY <1>2, <1>4, FS_CardinalityType
<1>6. QED
  BY <1>2, <1>4, <1>5 DEF Rank

\* Every number up to the size of the set is the rank of one of its members.
LEMMA NthIsMember ==
  ASSUME NEW n \in Nat, NEW S, S \subseteq 1 .. n, NEW k \in 1 .. Cardinality(S)
  PROVE  Nth(S, k) \in S /\ Rank(S, Nth(S, k)) = k
<1> DEFINE T == {i \in Nat : Rank(S, i) >= k}
<1>00. \A j \in S : j \in Nat /\ j > 0 /\ j <= n
  OBVIOUS
<1>0. /\ IsFiniteSet(S) /\ Cardinality(S) \in Nat
      /\ \A i \in Nat : Rank(S, i) \in Nat
  BY RankIsBounded
<1>1. n \in T
  <2>1. {j \in S : j <= n} = S
    BY <1>00
  <2>2. QED
    BY <1>0, <2>1 DEF Rank
<1>2. PICK i \in T : \A m \in T : i <= m
  BY <1>1, LeastNumber
<1>3. i # 0
  <2>1. \A j \in S : ~(j <= 0)
    BY <1>00
  <2>2. {j \in S : j <= 0} = {}
    BY <2>1
  <2>3. Rank(S, 0) = 0
    BY <2>2, FS_EmptySet DEF Rank
  <2>4. QED
    BY <1>0, <2>3
<1>4. i - 1 \in Nat /\ Rank(S, i - 1) < k
  <2>1. i - 1 \in Nat /\ i - 1 \notin T
    BY <1>2, <1>3
  <2>2. QED
    BY <1>0, <2>1
<1> DEFINE U == {j \in S : j <= i - 1}
           V == {j \in S : j <= i}
<1>5. IsFiniteSet(U)
  <2>1. U \in SUBSET S
    OBVIOUS
  <2>2. QED
    BY <1>0, <2>1, FS_Subset
<1>6. i \in S
  <2>1. SUFFICES ASSUME i \notin S PROVE FALSE
    OBVIOUS
  <2>2. U = V
    <3>1. \A j \in S : j <= i <=> j <= i - 1
      BY <1>00, <1>4, <2>1
    <3>2. QED
      BY <3>1
  <2>3. QED
    BY <1>0, <1>4, <2>2 DEF Rank
<1>7. V = U \cup {i} /\ i \notin U
  <2>1. \A j \in S : j <= i <=> j <= i - 1 \/ j = i
    BY <1>00, <1>4
  <2>2. ~(i <= i - 1)
    BY <1>4
  <2>3. QED
    BY <1>6, <2>1, <2>2
<1>8. Cardinality(V) = Cardinality(U) + 1
  BY <1>5, <1>7, FS_AddElement
<1>9. Rank(S, i) = k
  <2>1. Rank(S, i) = Rank(S, i - 1) + 1
    BY <1>8 DEF Rank
  <2>2. Rank(S, i) >= k /\ Rank(S, i - 1) \in Nat /\ k \in Nat
    BY <1>0, <1>2, <1>4
  <2>3. QED
    BY <1>4, <2>1, <2>2
<1>10. QED
  BY <1>6, <1>9 DEF Nth, Rank

\* A number above all others comes after them, and they stay where they are.
LEMMA NthOfMore ==
  ASSUME NEW n \in Nat, NEW S, S \subseteq 1 .. n, NEW T, T = S \cup {n + 1}
  PROVE  /\ Cardinality(T) = Cardinality(S) + 1
         /\ \A k \in 1 .. Cardinality(S) : Nth(T, k) = Nth(S, k)
         /\ Nth(T, Cardinality(S) + 1) = n + 1
<1> DEFINE c == Cardinality(S)
<1>1. n + 1 \notin S /\ \A j \in S : j \in Nat /\ j <= n /\ ~(n + 1 <= j)
  OBVIOUS
<1>2. IsFiniteSet(S) /\ c \in Nat /\ \A i : Rank(S, i) \in Nat /\ Rank(S, i) <= c
  BY RankIsBounded
<1>3. Cardinality(T) = c + 1
  BY <1>1, <1>2, FS_AddElement
<1>4. Rank(T, n + 1) = c + 1
  <2>1. \A j \in T : j <= n + 1
    BY <1>1
  <2>2. {j \in T : j <= n + 1} = T
    BY <2>1
  <2>3. QED
    BY <1>3, <2>2 DEF Rank
<1>5. ASSUME NEW i \in S PROVE Rank(T, i) = Rank(S, i)
  <2>1. {j \in T : j <= i} = {j \in S : j <= i}
    BY <1>1
  <2>2. QED
    BY <2>1 DEF Rank
<1>6. ASSUME NEW k \in 1 .. c PROVE Nth(T, k) = Nth(S, k)
  <2>1. Nth(S, k) \in S /\ Rank(S, Nth(S, k)) = k
    BY NthIsMember
  <2>2. \A i : (i \in T /\ Rank(T, i) = k) <=> (i \in S /\ Rank(S, i) = k)
    <3>1. c + 1 # k
      BY <1>2
    <3>2. QED
      BY <1>1, <1>4, <1>5, <3>1
  <2>3. (CHOOSE i \in T : Rank(T, i) = k) = (CHOOSE i \in S : Rank(S, i) = k)
    BY <2>2
  <2>4. QED
    BY <2>3 DEF Nth, Rank
<1>7. Nth(T, c + 1) = n + 1
  <2>1. \A i \in T : Rank(T, i) = c + 1 <=> i = n + 1
    BY <1>2, <1>4, <1>5
  <2>2. (CHOOSE i \in T : Rank(T, i) = c + 1) = n + 1
    BY <2>1
  <2>3. QED
    BY <2>2 DEF Nth, Rank
<1>8. QED
  BY <1>3, <1>6, <1>7

-----------------------------------------------------------------------------
(* The content of a body. *)

EndsInEscape(s) == s # << >> /\ s[Len(s)] = "FESC"

\* What is kept of a body is a sequence of bytes.
LEMMA ContentIsBytes ==
  ASSUME NEW s \in Seq(Byte)
  PROVE  /\ Kept(s) \subseteq 1 .. Len(s)
         /\ Cardinality(Kept(s)) \in Nat
         /\ Content(s) \in Seq(Byte) /\ Len(Content(s)) = Cardinality(Kept(s))
<1>1. Kept(s) \subseteq 1 .. Len(s) /\ Len(s) \in Nat
  BY DEF Kept
<1>2. Cardinality(Kept(s)) \in Nat
  BY <1>1, RankIsBounded
<1>3. ASSUME NEW k \in 1 .. Cardinality(Kept(s))
      PROVE  Meaning(s, Nth(Kept(s), k)) \in Byte
  <2>1. PICK i \in 1 .. Len(s) : i = Nth(Kept(s), k)
    BY <1>1, NthIsMember
  <2>2. s[i] \in Byte
    BY <1>1
  <2>3. Meaning(s, i) \in Byte
    BY <2>2 DEF Meaning, Unescaped, Byte
  <2>4. QED
    BY <2>1, <2>3
<1>4. Content(s) \in [1 .. Cardinality(Kept(s)) -> Byte]
  BY <1>3 DEF Content
<1>5. QED
  BY <1>1, <1>2, <1>4

\* An escape adds nothing to the content, and any other byte one.
LEMMA ContentGrows ==
  ASSUME NEW s \in Seq(Byte), NEW b \in Byte
  PROVE  Content(Append(s, b)) =
           IF b = "FESC" THEN Content(s)
             ELSE Append(Content(s), IF EndsInEscape(s) THEN Unescaped(b) ELSE b)
<1> DEFINE t == Append(s, b)
           n == Len(s)
           c == Cardinality(Kept(s))
<1>1. /\ n \in Nat /\ t \in Seq(Byte) /\ Len(t) = n + 1 /\ t[n + 1] = b
      /\ \A i \in 1 .. n : t[i] = s[i]
  BY AppendProperties
<1>2. /\ Kept(s) \subseteq 1 .. n /\ c \in Nat
      /\ Content(s) \in Seq(Byte) /\ Len(Content(s)) = c
      /\ Content(t) \in Seq(Byte) /\ Len(Content(t)) = Cardinality(Kept(t))
  BY <1>1, ContentIsBytes
<1>3. ASSUME NEW i \in 1 .. n PROVE Meaning(t, i) = Meaning(s, i)
  <2>1. i > 1 => i - 1 \in 1 .. n
    BY <1>1
  <2>2. QED
    BY <1>1, <2>1 DEF Meaning
<1>4. Meaning(t, n + 1) = IF EndsInEscape(s) THEN Unescaped(b) ELSE b
  <2>1. n + 1 > 1 <=> s # << >>
    BY <1>1
  <2>2. n + 1 > 1 => n \in 1 .. n /\ n + 1 - 1 = n
    BY <1>1
  <2>3. QED
    BY <1>1, <2>1, <2>2 DEF Meaning, EndsInEscape
<1>5. CASE b = "FESC"
  <2>1. Kept(t) = Kept(s)
    <3>1. \A i : (i \in 1 .. n + 1 /\ t[i] # "FESC") <=> (i \in 1 .. n /\ s[i] # "FESC")
      BY <1>1, <1>5
    <3>2. QED
      BY <1>1, <3>1 DEF Kept
  <2>2. \A k \in 1 .. c : Meaning(t, Nth(Kept(s), k)) = Meaning(s, Nth(Kept(s), k))
    BY <1>1, <1>2, <1>3, NthIsMember
  <2>3. Content(t) = Content(s)
    BY <2>1, <2>2 DEF Content
  <2>4. QED
    BY <1>5, <2>3
<1>6. CASE b # "FESC"
  <2>1. Kept(t) = Kept(s) \cup {n + 1}
    <3>1. \A i : (i \in 1 .. n + 1 /\ t[i] # "FESC")
                   <=> (i \in 1 .. n /\ s[i] # "FESC") \/ i = n + 1
      BY <1>1, <1>6
    <3>2. QED
      BY <1>1, <3>1 DEF Kept
  <2>2. /\ Cardinality(Kept(t)) = c + 1
        /\ \A k \in 1 .. c : Nth(Kept(t), k) = Nth(Kept(s), k)
        /\ Nth(Kept(t), c + 1) = n + 1
    BY <1>1, <1>2, <2>1, NthOfMore
  <2> DEFINE v == IF EndsInEscape(s) THEN Unescaped(b) ELSE b
             u == Append(Content(s), v)
  <2>3. v \in Byte
    BY DEF Unescaped, Byte
  <2>4. /\ u \in Seq(Byte) /\ Len(u) = c + 1 /\ u[c + 1] = v
        /\ \A k \in 1 .. c : u[k] = Content(s)[k]
    BY <1>2, <2>3, AppendProperties
  <2>5. ASSUME NEW k \in 1 .. c PROVE Content(t)[k] = Content(s)[k]
    <3>1. Nth(Kept(s), k) \in 1 .. n
      BY <1>1, <1>2, NthIsMember
    <3>2. k \in 1 .. c + 1
      BY <1>2
    <3>3. QED
      BY <1>3, <2>2, <3>1, <3>2 DEF Content
  <2>6. Content(t)[c + 1] = v
    <3>1. c + 1 \in 1 .. c + 1
      BY <1>2
    <3>2. QED
      BY <1>4, <2>2, <3>1 DEF Content
  <2>7. Content(t) = u
    <3>1. \A k \in 1 .. c + 1 : Content(t)[k] = u[k]
      BY <1>2, <2>4, <2>5, <2>6
    <3>2. QED
      BY <1>2, <2>2, <2>4, <3>1, SeqEqual
  <2>8. QED
    BY <1>6, <2>7
<1>7. QED
  BY <1>5, <1>6

\* The byte behind an escape decides whether it was good.
LEMMA EscapesGrow ==
  ASSUME NEW s \in Seq(Byte), NEW b \in Byte
  PROVE  /\ EscapesAreGood(Append(s, b)) <=>
              EscapesAreGood(s) /\ (EndsInEscape(s) => b \in {"TFEND", "TFESC"})
         /\ EndsInEscape(Append(s, b)) <=> b = "FESC"
<1> DEFINE t == Append(s, b)
           n == Len(s)
<1>1. /\ n \in Nat /\ t \in Seq(Byte) /\ Len(t) = n + 1 /\ t[n + 1] = b
      /\ \A i \in 1 .. n : t[i] = s[i]
  BY AppendProperties
<1>2. s # << >> <=> n \in 1 .. n
  BY <1>1
<1> HIDE DEF t, n
<1>3. EscapesAreGood(t) <=> \A i \in 1 .. n : t[i] = "FESC" => t[i + 1] \in {"TFEND", "TFESC"}
  BY <1>1 DEF EscapesAreGood
<1>4. EscapesAreGood(s) <=>
        \A i \in 1 .. n - 1 : s[i] = "FESC" => s[i + 1] \in {"TFEND", "TFESC"}
  BY DEF EscapesAreGood, n
<1>5. EndsInEscape(s) <=> n \in 1 .. n /\ s[n] = "FESC"
  BY <1>2 DEF EndsInEscape, n
<1>6. \A i \in 1 .. n - 1 : t[i] = s[i] /\ t[i + 1] = s[i + 1] /\ i \in 1 .. n
  <2>1. \A i \in 1 .. n - 1 : i \in 1 .. n /\ i + 1 \in 1 .. n
    BY <1>1
  <2>2. QED
    BY <1>1, <2>1
<1>7. \A i \in 1 .. n : i \in 1 .. n - 1 \/ i = n
  BY <1>1
<1>8. EscapesAreGood(t) <=>
        EscapesAreGood(s) /\ (EndsInEscape(s) => b \in {"TFEND", "TFESC"})
  BY <1>1, <1>3, <1>4, <1>5, <1>6, <1>7
<1>9. EndsInEscape(t) <=> b = "FESC"
  BY <1>1 DEF EndsInEscape
<1>10. QED
  BY <1>8, <1>9 DEF t

-----------------------------------------------------------------------------
(* The parser and the reference. *)

Parsers ==
  {p \in [active : BOOLEAN, escaped : BOOLEAN, rejected : BOOLEAN, frame : Seq(Byte)] :
     Len(p.frame) <= MaxFrame}

\* Nothing was wrong with the body so far.
Sound(s) == EscapesAreGood(s) /\ Len(Content(s)) <= MaxFrame

\* Where the parser is, by what came since the last FEND, if there was one.
Follows(p, s, ended) ==
  /\ p.active <=> ended
  /\ ended => /\ p.rejected <=> ~Sound(s)
              /\ ~p.rejected => /\ p.frame = Content(s)
                                /\ p.escaped <=> EndsInEscape(s)

\* An empty body has no content, and nothing is wrong with it.
LEMMA EmptyBody ==
  /\ << >> \in Seq(Byte) /\ Content(<< >>) = << >> /\ Len(Content(<< >>)) = 0
  /\ EscapesAreGood(<< >>) /\ ~EndsInEscape(<< >>) /\ Sound(<< >>) /\ ~IsFrame(<< >>)
<1>1. << >> \in Seq(Byte) /\ Len(<< >>) = 0
  OBVIOUS
<1>2. Kept(<< >>) = {}
  BY <1>1 DEF Kept
<1>3. Cardinality(Kept(<< >>)) = 0
  BY <1>2, FS_EmptySet
<1>4. Content(<< >>) \in Seq(Byte) /\ Len(Content(<< >>)) = 0
  BY <1>1, <1>3, ContentIsBytes
<1>5. Content(<< >>) = << >>
  BY <1>4
<1>6. EscapesAreGood(<< >>) /\ ~EndsInEscape(<< >>)
  BY <1>1 DEF EscapesAreGood, EndsInEscape
<1>7. QED
  BY <1>1, <1>4, <1>5, <1>6, MaxFrameAssumption DEF Sound, IsFrame

LEMMA NewParserFollows ==
  NewParser \in Parsers /\ Follows(NewParser, << >>, FALSE)
BY EmptyBody, MaxFrameAssumption DEF NewParser, Parsers, Follows

\* A byte more: the body is sound as long as the parser does not reject it.
LEMMA SoundGrows ==
  ASSUME NEW s \in Seq(Byte), NEW b \in Byte
  PROVE  Sound(Append(s, b)) <=>
           /\ Sound(s)
           /\ EndsInEscape(s) => b \in {"TFEND", "TFESC"}
           /\ b # "FESC" => Len(Content(s)) < MaxFrame
<1>1. /\ Content(s) \in Seq(Byte) /\ Len(Content(s)) \in Nat /\ MaxFrame \in Nat
  BY ContentIsBytes, MaxFrameAssumption
<1>2. /\ b = "FESC" => Len(Content(Append(s, b))) = Len(Content(s))
      /\ b # "FESC" => Len(Content(Append(s, b))) = Len(Content(s)) + 1
  <2>1. (IF EndsInEscape(s) THEN Unescaped(b) ELSE b) \in Byte
    BY DEF Unescaped, Byte
  <2>2. QED
    BY <1>1, <2>1, ContentGrows, AppendProperties
<1>3. QED
  BY <1>1, <1>2, EscapesGrow DEF Sound

\* What one byte does to the parser, and whether it completes a frame.
LEMMA PushFollows ==
  ASSUME NEW p \in Parsers, NEW s \in Seq(Byte), NEW ended \in BOOLEAN, NEW b \in Byte,
         Follows(p, s, ended)
  PROVE  /\ Push(p, b) \in Parsers
         /\ Follows(Push(p, b), IF b = "FEND" THEN << >> ELSE Append(s, b),
                    ended \/ b = "FEND")
         /\ Completes(p, b) <=> b = "FEND" /\ ended /\ IsFrame(s)
         /\ Completes(p, b) => p.frame = Content(s)
<1> DEFINE q == Push(p, b)
           v == Unescaped(b)
<1>1. /\ p.active \in BOOLEAN /\ p.escaped \in BOOLEAN /\ p.rejected \in BOOLEAN
      /\ p.frame \in Seq(Byte) /\ Len(p.frame) \in Nat /\ Len(p.frame) <= MaxFrame
      /\ MaxFrame \in Nat
      /\ p = [active |-> p.active, escaped |-> p.escaped, rejected |-> p.rejected,
              frame |-> p.frame]
  BY MaxFrameAssumption DEF Parsers
<1>2. Content(s) \in Seq(Byte) /\ Len(Content(s)) \in Nat
  BY ContentIsBytes
<1>3. /\ Completes(p, b) <=> b = "FEND" /\ ended /\ IsFrame(s)
      /\ Completes(p, b) => p.frame = Content(s)
  <2>1. Content(s) # << >> <=> Len(Content(s)) > 0
    BY <1>2
  <2>2. IsFrame(s) <=> Sound(s) /\ Content(s) # << >>
    BY <1>1, <1>2, <2>1 DEF IsFrame, Sound
  <2>3. QED
    BY <2>2 DEF Completes, Follows
<1>4. CASE b = "FEND"
  <2>1. q = [active |-> TRUE, escaped |-> FALSE, rejected |-> FALSE, frame |-> << >>]
    BY <1>4 DEF Push, EndFrame, NewParser
  <2>2. q \in Parsers
    BY <1>1, <2>1, EmptyBody DEF Parsers
  <2>3. Follows(q, << >>, TRUE)
    BY <2>1, EmptyBody DEF Follows
  <2>4. QED
    BY <1>3, <1>4, <2>2, <2>3
<1>5. CASE b # "FEND" /\ (~p.active \/ p.rejected)
  <2>1. q = p
    BY <1>5 DEF Push
  <2>2. Follows(p, Append(s, b), ended)
    BY <1>5, SoundGrows DEF Follows
  <2>3. QED
    BY <1>3, <1>5, <2>1, <2>2
<1>6. CASE b # "FEND" /\ p.active /\ ~p.rejected
  <2>1. /\ ended /\ Sound(s) /\ p.frame = Content(s) /\ (p.escaped <=> EndsInEscape(s))
    BY <1>6 DEF Follows
  <2>2. CASE b = "FESC" /\ ~p.escaped
    <3>1. q = [p EXCEPT !.escaped = TRUE]
      BY <1>6, <2>2 DEF Push
    <3>2. q = [active |-> TRUE, escaped |-> TRUE, rejected |-> FALSE, frame |-> p.frame]
      BY <1>1, <1>6, <3>1
    <3>3. q \in Parsers
      BY <1>1, <3>2 DEF Parsers
    <3>4. Sound(Append(s, b)) /\ Content(Append(s, b)) = Content(s)
          /\ EndsInEscape(Append(s, b))
      BY <2>1, <2>2, SoundGrows, ContentGrows, EscapesGrow
    <3>5. Follows(q, Append(s, b), ended)
      BY <2>1, <3>2, <3>4 DEF Follows
    <3>6. QED
      BY <1>3, <1>6, <3>3, <3>5
  <2>3. CASE p.escaped /\ b \notin {"TFEND", "TFESC"}
    <3>1. q = [p EXCEPT !.escaped = FALSE, !.rejected = TRUE]
      BY <1>6, <2>3 DEF Push
    <3>2. q = [active |-> TRUE, escaped |-> FALSE, rejected |-> TRUE, frame |-> p.frame]
      BY <1>1, <1>6, <3>1
    <3>3. q \in Parsers
      BY <1>1, <3>2 DEF Parsers
    <3>4. ~Sound(Append(s, b))
      BY <2>1, <2>3, SoundGrows
    <3>5. Follows(q, Append(s, b), ended)
      BY <2>1, <3>2, <3>4 DEF Follows
    <3>6. QED
      BY <1>3, <1>6, <3>3, <3>5
  <2>4. CASE IF p.escaped THEN b \in {"TFEND", "TFESC"} ELSE b # "FESC"
    <3> DEFINE w == IF p.escaped THEN v ELSE b
    <3>1. q = Keep(p, w) /\ b # "FESC" /\ w \in Byte
      BY <1>6, <2>4 DEF Push, Unescaped, Byte
    <3>2. Content(Append(s, b)) = Append(Content(s), w)
      BY <2>1, <3>1, ContentGrows
    <3>3. ~EndsInEscape(Append(s, b))
      BY <3>1, EscapesGrow
    <3>4. Sound(Append(s, b)) <=> Len(p.frame) < MaxFrame
      BY <2>1, <2>4, <3>1, SoundGrows
    <3> HIDE DEF w
    <3>5. CASE Len(p.frame) >= MaxFrame
      <4>1. q = [p EXCEPT !.escaped = FALSE, !.rejected = TRUE]
        BY <3>1, <3>5 DEF Keep
      <4>2. q = [active |-> TRUE, escaped |-> FALSE, rejected |-> TRUE, frame |-> p.frame]
        BY <1>1, <1>6, <4>1
      <4>3. q \in Parsers
        BY <1>1, <4>2 DEF Parsers
      <4>4. Follows(q, Append(s, b), ended)
        BY <1>1, <2>1, <3>4, <3>5, <4>2 DEF Follows
      <4>5. QED
        BY <1>3, <1>6, <4>3, <4>4
    <3>6. CASE Len(p.frame) < MaxFrame
      <4>1. q = [p EXCEPT !.escaped = FALSE, !.frame = Append(p.frame, w)]
        BY <1>1, <3>1, <3>6 DEF Keep
      <4>2. q = [active |-> TRUE, escaped |-> FALSE, rejected |-> FALSE,
                 frame |-> Append(p.frame, w)]
        BY <1>1, <1>6, <4>1
      <4>3. Append(p.frame, w) \in Seq(Byte)
            /\ Len(Append(p.frame, w)) = Len(p.frame) + 1
        BY <1>1, <3>1, AppendProperties
      <4>4. q \in Parsers
        BY <1>1, <3>6, <4>2, <4>3 DEF Parsers
      <4>5. Follows(q, Append(s, b), ended)
        BY <2>1, <3>2, <3>3, <3>4, <3>6, <4>2 DEF Follows
      <4>6. QED
        BY <1>3, <1>6, <4>4, <4>5
    <3>7. QED
      BY <1>1, <3>5, <3>6
  <2>5. QED
    BY <2>2, <2>3, <2>4
<1>7. QED
  BY <1>1, <1>4, <1>5, <1>6

-----------------------------------------------------------------------------
(* The encoder. *)

\* A function that says what is written of p from its a-th byte on.
Writes(f, p, a) ==
  f = [i \in a .. Len(p) + 1 |->
         IF i > Len(p) THEN <<"FEND">> ELSE Escape(p[i]) \o f[i + 1]]

\* There is one: from the last byte on, it is the one from the next byte on
\* with one byte in front.
LEMMA WritesExists ==
  ASSUME NEW p, Len(p) \in Nat
  PROVE  \E f : Writes(f, p, 1)
<1> DEFINE n == Len(p)
           T == {m \in 0 .. n : ~ \E f : Writes(f, p, n + 1 - m)}
<1>1. SUFFICES ASSUME T # {} PROVE FALSE
  <2>1. n \in 0 .. n /\ n + 1 - n = 1
    OBVIOUS
  <2>2. QED
    BY <2>1
<1>2. T \subseteq Nat
  OBVIOUS
<1> HIDE DEF T
<1>3. PICK m \in T : \A k \in T : m <= k
  BY <1>1, <1>2, LeastNumber
<1>4. m \in 0 .. n /\ ~ \E f : Writes(f, p, n + 1 - m)
  BY <1>3 DEF T
<1>5. CASE m = 0
  <2> DEFINE g == [i \in n + 1 .. n + 1 |-> <<"FEND">>]
  <2>1. \A i \in n + 1 .. n + 1 : i > n
    OBVIOUS
  <2>2. g = [i \in n + 1 .. n + 1 |-> IF i > n THEN <<"FEND">> ELSE Escape(p[i]) \o g[i + 1]]
    BY <2>1
  <2>3. Writes(g, p, n + 1)
    BY <2>2 DEF Writes
  <2>4. n + 1 - m = n + 1
    BY <1>5
  <2>5. QED
    BY <1>4, <2>3, <2>4
<1>6. CASE m # 0
  <2> DEFINE a == n + 1 - m
  <2>1. a \in 1 .. n /\ n + 1 - (m - 1) = a + 1
    BY <1>4, <1>6
  <2>2. m - 1 \in 0 .. n /\ m - 1 \notin T
    BY <1>3, <1>4, <1>6
  <2>3. PICK f : Writes(f, p, a + 1)
    BY <2>1, <2>2 DEF T
  <2> DEFINE g == [i \in a .. n + 1 |-> IF i = a THEN Escape(p[a]) \o f[a + 1] ELSE f[i]]
  <2> HIDE DEF a
  <2>4. ASSUME NEW i \in a .. n + 1
        PROVE  g[i] = IF i > n THEN <<"FEND">> ELSE Escape(p[i]) \o g[i + 1]
    <3>1. CASE i = a
      <4>1. a \in a .. n + 1 /\ a + 1 \in a .. n + 1 /\ a + 1 # a /\ ~(a > n)
        BY <2>1
      <4>2. g[a + 1] = f[a + 1] /\ g[a] = Escape(p[a]) \o f[a + 1]
        BY <4>1
      <4>3. QED
        BY <3>1, <4>1, <4>2
    <3>2. CASE i # a
      <4>1. i \in a + 1 .. n + 1
        BY <2>1, <3>2
      <4>2. f[i] = IF i > n THEN <<"FEND">> ELSE Escape(p[i]) \o f[i + 1]
        BY <2>3, <4>1 DEF Writes
      <4>3. ~(i > n) => i + 1 \in a .. n + 1 /\ i + 1 # a
        BY <2>1, <4>1
      <4>4. ~(i > n) => g[i + 1] = f[i + 1]
        BY <4>3
      <4>5. g[i] = f[i]
        BY <3>2
      <4>6. QED
        BY <4>2, <4>4, <4>5
    <3>3. QED
      BY <3>1, <3>2
  <2>5. g = [i \in a .. n + 1 |-> IF i > n THEN <<"FEND">> ELSE Escape(p[i]) \o g[i + 1]]
    BY <2>4
  <2>6. Writes(g, p, a)
    BY <2>5 DEF Writes
  <2>7. QED
    BY <1>4, <2>6 DEF a
<1>7. QED
  BY <1>5, <1>6

\* So the encoder's definition means what it says.
LEMMA WrittenUnfolds ==
  ASSUME NEW p, Len(p) \in Nat, NEW i \in 1 .. Len(p) + 1
  PROVE  Written(p)[i] = IF i > Len(p) THEN <<"FEND">>
                                       ELSE Escape(p[i]) \o Written(p)[i + 1]
<1>1. Written(p) = CHOOSE f : Writes(f, p, 1)
  BY DEF Written, Writes
<1>2. Writes(Written(p), p, 1)
  BY <1>1, WritesExists
<1>3. QED
  BY <1>2 DEF Writes

\* What is written is never nothing.
LEMMA WrittenIsBytes ==
  ASSUME NEW p \in Seq(Byte)
  PROVE  \A i \in 1 .. Len(p) + 1 : Written(p)[i] \in Seq(Byte) /\ Written(p)[i] # << >>
<1> DEFINE n == Len(p)
           W(i) == Written(p)[i] \in Seq(Byte) /\ Written(p)[i] # << >>
           T == {m \in 0 .. n : ~W(n + 1 - m)}
<1>1. n \in Nat
  OBVIOUS
<1>2. \A i \in 1 .. n + 1 :
        Written(p)[i] = IF i > n THEN <<"FEND">> ELSE Escape(p[i]) \o Written(p)[i + 1]
  BY <1>1, WrittenUnfolds
<1>3. ASSUME NEW i \in 1 .. n
      PROVE  Escape(p[i]) \in Seq(Byte) /\ Escape(p[i]) # << >>
  <2>1. \A x, y \in Byte : /\ <<x, y>> \in Seq(Byte) /\ <<x, y>> # << >>
                           /\ <<x>> \in Seq(Byte) /\ <<x>> # << >>
    OBVIOUS
  <2>2. p[i] \in Byte /\ "FESC" \in Byte /\ "TFEND" \in Byte /\ "TFESC" \in Byte
    BY DEF Byte
  <2>3. QED
    BY <2>1, <2>2 DEF Escape
<1> HIDE DEF n, W
<1>4. T = {}
  <2>1. SUFFICES ASSUME T # {} PROVE FALSE
    OBVIOUS
  <2>2. T \subseteq Nat
    BY <1>1
  <2>3. PICK m \in T : \A k \in T : m <= k
    BY <2>1, <2>2, LeastNumber
  <2>4. m \in 0 .. n /\ ~W(n + 1 - m)
    BY <2>3
  <2>5. CASE m = 0
    <3>1. n + 1 - m = n + 1 /\ n + 1 \in 1 .. n + 1 /\ n + 1 > n
      BY <1>1, <2>5
    <3>2. Written(p)[n + 1] = <<"FEND">>
      BY <1>2, <3>1
    <3>3. <<"FEND">> \in Seq(Byte) /\ <<"FEND">> # << >>
      BY DEF Byte
    <3>4. QED
      BY <2>4, <3>1, <3>2, <3>3 DEF W
  <2>6. CASE m # 0
    <3>1. m - 1 \in 0 .. n /\ ~(m <= m - 1) /\ n + 1 - (m - 1) = n + 1 - m + 1
          /\ n + 1 - m \in 1 .. n /\ n + 1 - m \in 1 .. n + 1 /\ ~(n + 1 - m > n)
      BY <1>1, <2>4, <2>6
    <3>2. W(n + 1 - m + 1)
      BY <2>3, <3>1
    <3> DEFINE i == n + 1 - m
    <3>3. Written(p)[i] = Escape(p[i]) \o Written(p)[i + 1] /\ i \in 1 .. n
      BY <1>2, <3>1
    <3> HIDE DEF i
    <3>4. W(i + 1)
      BY <3>2 DEF i
    <3>5. W(i)
      BY <1>3, <3>3, <3>4, ConcatProperties DEF W
    <3>6. QED
      BY <2>4, <3>5 DEF i
  <2>7. QED
    BY <2>5, <2>6
<1>5. ASSUME NEW i \in 1 .. n + 1 PROVE W(i)
  <2>1. n + 1 - i \in 0 .. n /\ n + 1 - (n + 1 - i) = i
    BY <1>1
  <2>2. QED
    BY <1>4, <2>1
<1>6. QED
  BY <1>5 DEF W, n

-----------------------------------------------------------------------------
(* Uplink: the parser is where the reference says it is, on every step. *)

UplinkInv ==
  /\ parser \in Parsers
  /\ body \in Seq(Byte) /\ Len(body) <= MaxBody
  /\ synced \in BOOLEAN
  /\ Follows(parser, body, synced)
  /\ offered = meant

LEMMA ParseFollows ==
  ASSUME UplinkInv, Parse
  PROVE  UplinkInv'
<1>1. PICK byte \in Alphabet :
        /\ byte # "FEND" => Len(body) < MaxBody
        /\ parser' = Push(parser, byte)
        /\ offered' = IF Completes(parser, byte) /\ IsActedUpon(parser.frame)
                        THEN Append(offered, parser.frame) ELSE offered
        /\ meant' = IF /\ byte = "FEND" /\ synced /\ IsFrame(body)
                       /\ IsActedUpon(Content(body))
                      THEN Append(meant, Content(body)) ELSE meant
        /\ body' = IF byte = "FEND" THEN << >> ELSE Append(body, byte)
        /\ synced' = (synced \/ byte = "FEND")
  BY DEF Parse
<1>2. byte \in Byte
  BY AlphabetAssumption
<1>3. /\ Push(parser, byte) \in Parsers
      /\ Follows(Push(parser, byte), IF byte = "FEND" THEN << >> ELSE Append(body, byte),
                 synced \/ byte = "FEND")
      /\ Completes(parser, byte) <=> byte = "FEND" /\ synced /\ IsFrame(body)
      /\ Completes(parser, byte) => parser.frame = Content(body)
  BY <1>2, PushFollows DEF UplinkInv
<1>4. parser' \in Parsers /\ Follows(parser', body', synced')
  BY <1>1, <1>3
<1>5. body' \in Seq(Byte) /\ Len(body') <= MaxBody
  <2>1. MaxBody \in Nat /\ Len(body) \in Nat /\ Len(<< >>) = 0 /\ << >> \in Seq(Byte)
    BY BoundAssumption DEF UplinkInv
  <2>2. CASE byte = "FEND"
    BY <1>1, <2>1, <2>2
  <2>3. CASE byte # "FEND"
    BY <1>1, <1>2, <2>1, <2>3, AppendProperties DEF UplinkInv
  <2>4. QED
    BY <2>2, <2>3
<1>6. offered' = meant'
  <2>1. offered = meant
    BY DEF UplinkInv
  <2>2. CASE Completes(parser, byte) /\ IsActedUpon(parser.frame)
    BY <1>1, <1>3, <2>1, <2>2
  <2>3. CASE ~(Completes(parser, byte) /\ IsActedUpon(parser.frame))
    BY <1>1, <1>3, <2>1, <2>3
  <2>4. QED
    BY <2>2, <2>3
<1>7. synced' \in BOOLEAN
  BY <1>1
<1>8. QED
  BY <1>4, <1>5, <1>6, <1>7 DEF UplinkInv

LEMMA UplinkStep ==
  ASSUME UplinkInv, [KissNext]_kissVars
  PROVE  UplinkInv'
<1>1. CASE Parse
  BY <1>1, ParseFollows
<1>2. CASE Accept
  <2>1. /\ parser' = NewParser /\ body' = << >> /\ synced' = FALSE
        /\ offered' = << >> /\ meant' = << >>
    BY <1>2 DEF Accept
  <2>2. Len(<< >>) <= MaxBody
    BY BoundAssumption
  <2>3. QED
    BY <2>1, <2>2, NewParserFollows, EmptyBody DEF UplinkInv
<1>3. CASE NoPacket
  BY <1>3 DEF NoPacket, UplinkInv
<1>4. CASE UNCHANGED uplink
  BY <1>4 DEF uplink, UplinkInv
<1>5. ASSUME Leave \/ Signal \/ Stop \/ NoAccept \/ Receive \/ ReceiveNothing \/ ReceiveEnd
               \/ BeginSend \/ SendFails \/ SendByte \/ SendInterrupted
      PROVE  UNCHANGED uplink
  BY <1>5 DEF Leave, Signal, Stop, NoAccept, Receive, ReceiveNothing, ReceiveEnd,
              BeginSend, SendFails, SendByte, SendInterrupted, Abandon
<1>6. QED
  BY <1>1, <1>2, <1>3, <1>4, <1>5 DEF KissNext, Main, kissVars, uplink

LEMMA UplinkHolds == KissSpec => []UplinkInv
<1>1. KissInit => UplinkInv
  <2>1. Len(<< >>) <= MaxBody
    BY BoundAssumption
  <2>2. QED
    BY <2>1, NewParserFollows, EmptyBody DEF KissInit, UplinkInv
<1>2. UplinkInv /\ [KissNext]_kissVars => UplinkInv'
  BY UplinkStep
<1>3. QED
  BY <1>1, <1>2, PTL DEF KissSpec

\* What was submitted or set is what the bytes of the connection mean, for
\* every cut of the stream into chunks, and after whatever the last client
\* left in the parser.
THEOREM StreamMeansItsFrames == KissSpec => []FramesAreTheStream
<1>1. UplinkInv => FramesAreTheStream
  BY DEF UplinkInv, FramesAreTheStream
<1>2. QED
  BY <1>1, UplinkHolds, PTL

-----------------------------------------------------------------------------
(* Types. *)

\* What the run's type invariant says of the loop and of the downlink.
LinkTypes ==
  /\ mainPc \in {"head", "receive", "parse", "deliver", "sending", "done"}
  /\ {attached, stopRequested} \subseteq BOOLEAN
  /\ client \in {"open", "shut", "reset"}
  /\ byteIndex \in 0 .. MaxChunk - 1
  /\ packet \in Packets \union {<< >>}
  /\ unsent \in Seq(Byte) /\ (unsent # << >>) = (mainPc = "sending")

LEMMA PacketsAreBytes ==
  ASSUME NEW p \in Packets
  PROVE  p \in Seq(Byte) /\ Len(p) \in 1 .. MaxFrame - 1
<1>1. PICK n \in 1 .. MaxFrame - 1 : p \in [1 .. n -> PacketBytes]
  BY DEF Packets
<1>2. n \in Nat /\ p \in [1 .. n -> Byte]
  BY <1>1, AlphabetAssumption, MaxFrameAssumption
<1>3. QED
  BY <1>1, <1>2

LEMMA EncodeIsBytes ==
  ASSUME NEW p \in Packets
  PROVE  Encode(p) \in Seq(Byte) /\ Encode(p) # << >>
<1>1. p \in Seq(Byte) /\ 1 \in 1 .. Len(p) + 1
  BY PacketsAreBytes
<1>2. Written(p)[1] \in Seq(Byte)
  BY <1>1, WrittenIsBytes
<1>3. <<"FEND", "zero">> \in Seq(Byte) /\ <<"FEND", "zero">> # << >>
  BY DEF Byte
<1>4. QED
  BY <1>2, <1>3, ConcatProperties DEF Encode

LEMMA LinkTypesStep ==
  ASSUME LinkTypes, [KissNext]_kissVars
  PROVE  LinkTypes'
<1> USE DEF LinkTypes
<1>1. CASE UNCHANGED kissVars
  BY <1>1 DEF kissVars, connection, uplink, downlink
<1>2. CASE Leave \/ Signal \/ Stop \/ Accept \/ NoAccept \/ NoPacket
  BY <1>2 DEF Leave, Signal, Stop, Accept, NoAccept, NoPacket, MainMoves,
              connection, uplink, downlink
<1>3. CASE Receive \/ ReceiveNothing \/ ReceiveEnd
  BY <1>3 DEF Receive, ReceiveNothing, ReceiveEnd, Receives, MainMoves,
              connection, uplink, downlink
<1>4. CASE Parse
  <2>1. byteIndex' \in 0 .. MaxChunk - 1
    BY <1>4, BoundAssumption DEF Parse
  <2>2. QED
    BY <1>4, <2>1 DEF Parse, connection, downlink
<1>5. CASE BeginSend
  BY <1>5, EncodeIsBytes DEF BeginSend, MainMoves, connection, uplink
<1>6. CASE SendByte
  <2>1. unsent \in Seq(Byte) /\ unsent # << >>
    BY <1>6 DEF SendByte
  <2>2. Tail(unsent) \in Seq(Byte)
    BY <2>1
  <2>3. QED
    BY <1>6, <2>2 DEF SendByte, connection, uplink
<1>7. CASE SendFails \/ SendInterrupted
  BY <1>7, EmptyBody DEF SendFails, SendInterrupted, Abandon, MainMoves, uplink
<1>8. QED
  BY <1>1, <1>2, <1>3, <1>4, <1>5, <1>6, <1>7 DEF KissNext, Main

LEMMA LinkTypesHold == KissSpec => []LinkTypes
<1>1. KissInit => LinkTypes
  <2>1. 0 \in 0 .. MaxChunk - 1 /\ << >> \in Seq(Byte)
    BY BoundAssumption, EmptyBody
  <2>2. QED
    BY <2>1 DEF KissInit, LinkTypes
<1>2. LinkTypes /\ [KissNext]_kissVars => LinkTypes'
  BY LinkTypesStep
<1>3. QED
  BY <1>1, <1>2, PTL DEF KissSpec

\* The parser's buffer is never written past its end, whatever a client sends
\* and however the stream is cut, and the loop is in send as long as there is
\* something unsent.
THEOREM KissTypesHold == KissSpec => []KissTypeOK
<1>1. UplinkInv /\ LinkTypes => KissTypeOK
  BY DEF UplinkInv, LinkTypes, KissTypeOK, Parsers
<1>2. QED
  BY <1>1, UplinkHolds, LinkTypesHold, PTL

-----------------------------------------------------------------------------
(* Downlink: what the client reads back. *)

LastEnd(s) == Nth(Ends(s), Cardinality(Ends(s)))

\* What was sent since the last FEND.
Pending(s) == IF Ends(s) = {} THEN << >> ELSE SubSeq(s, LastEnd(s) + 1, Len(s))

\* The first bytes of a packet's frame: its type, and the packet before its i-th byte.
Sent(p, i) == <<"zero">> \o SubSeq(p, 1, i - 1)

\* The send of p is before its i-th byte, or in the middle of its escape, with
\* u left to send and s sent.
Before(p, u, s, i) ==
  /\ u = Written(p)[i]
  /\ ~EndsInEscape(Pending(s))
Within(p, u, s, i) ==
  /\ i <= Len(p) /\ p[i] \in {"FEND", "FESC"}
  /\ u = <<Escape(p[i])[2]>> \o Written(p)[i + 1]
  /\ EndsInEscape(Pending(s))

\* Where a send may be, which is at its very first byte, behind the first FEND,
\* or in the packet.
InFlight(p, u, s) ==
  \/ u = Encode(p) /\ Pending(s) = << >>
  \/ /\ u = <<"zero">> \o Written(p)[1]
     /\ Pending(s) = << >> /\ Ends(s) # {}
  \/ \E i \in 1 .. Len(p) + 1 :
       /\ Before(p, u, s, i) \/ Within(p, u, s, i)
       /\ Ends(s) # {}
       /\ Content(Pending(s)) = Sent(p, i) /\ EscapesAreGood(Pending(s))

DownlinkInv ==
  /\ seen \in Seq(Byte)
  /\ completed \in Seq(Packets)
  /\ ClientSeesWholePackets
  /\ attached /\ mainPc # "sending" => Pending(seen) = << >>
  /\ mainPc = "sending" => packet \in Packets /\ InFlight(packet, unsent, seen)

\* A byte more changes nothing of what stands before it.
LEMMA SubSeqOfAppend ==
  ASSUME NEW s \in Seq(Byte), NEW b \in Byte, NEW m \in 1 .. Len(s) + 1, NEW n \in 0 .. Len(s)
  PROVE  /\ SubSeq(s, m, n) \in Seq(Byte)
         /\ SubSeq(Append(s, b), m, n) = SubSeq(s, m, n)
         /\ SubSeq(Append(s, b), m, Len(s) + 1) = Append(SubSeq(s, m, Len(s)), b)
<1> DEFINE t == Append(s, b)
<1>1. /\ t \in Seq(Byte) /\ Len(t) = Len(s) + 1 /\ t[Len(s) + 1] = b
      /\ \A i \in 1 .. Len(s) : t[i] = s[i] /\ t[i] \in Byte
  BY AppendProperties
<1> HIDE DEF t
<1>2. \A k \in 0 .. Len(s) : SubSeq(s, m, k) \in Seq(Byte) /\ SubSeq(t, m, k) = SubSeq(s, m, k)
  <2>1. SUFFICES ASSUME NEW k \in 0 .. Len(s)
                 PROVE  SubSeq(s, m, k) \in Seq(Byte) /\ SubSeq(t, m, k) = SubSeq(s, m, k)
    OBVIOUS
  <2>2. m \in Int /\ k \in Int /\ \A i \in m .. k : i \in 1 .. Len(s)
    OBVIOUS
  <2>3. \A i \in m .. k : s[i] \in Byte /\ t[i] \in Byte
    BY <1>1, <2>2
  <2>4. /\ SubSeq(s, m, k) \in Seq(Byte)
        /\ Len(SubSeq(s, m, k)) = IF m <= k THEN k - m + 1 ELSE 0
        /\ \A i \in 1 .. k - m + 1 : SubSeq(s, m, k)[i] = s[m + i - 1]
    BY <2>2, <2>3, SubSeqProperties
  <2>5. /\ SubSeq(t, m, k) \in Seq(Byte)
        /\ Len(SubSeq(t, m, k)) = IF m <= k THEN k - m + 1 ELSE 0
        /\ \A i \in 1 .. k - m + 1 : SubSeq(t, m, k)[i] = t[m + i - 1]
    BY <2>2, <2>3, SubSeqProperties
  <2>6. \A i \in 1 .. Len(SubSeq(s, m, k)) : i \in 1 .. k - m + 1 /\ m + i - 1 \in 1 .. Len(s)
    BY <2>2, <2>4
  <2>7. \A i \in 1 .. Len(SubSeq(s, m, k)) : SubSeq(t, m, k)[i] = SubSeq(s, m, k)[i]
    BY <1>1, <2>4, <2>5, <2>6
  <2>8. QED
    BY <2>4, <2>5, <2>7, SeqEqual
<1>3. SubSeq(t, m, Len(s) + 1) = Append(SubSeq(s, m, Len(s)), b)
  <2>1. /\ m \in 1 .. Len(t) /\ Len(s) + 1 \in m .. Len(t)
        /\ Len(s) + 1 - 1 = Len(s) /\ Len(s) \in 0 .. Len(s)
    BY <1>1
  <2>0. ASSUME NEW k \in m .. Len(t)
        PROVE  SubSeq(t, m, k) = SubSeq(t, m, k - 1) \o <<t[k]>>
    BY <1>1, <2>1, SubSeqRecursiveSecond
  <2>2. SubSeq(t, m, Len(s) + 1) = SubSeq(t, m, Len(s)) \o <<b>>
    <3>1. PICK k \in m .. Len(t) : k = Len(s) + 1
      BY <2>1
    <3>2. k - 1 = Len(s) /\ t[k] = b
      BY <1>1, <2>1, <3>1
    <3>3. SubSeq(t, m, k) = SubSeq(t, m, k - 1) \o <<t[k]>>
      BY <2>0
    <3>4. QED
      BY <3>1, <3>2, <3>3
  <2>3. QED
    BY <1>2, <2>1, <2>2, AppendIsConcat
<1>4. QED
  BY <1>2, <1>3 DEF t

\* Where a stream ends its frames.
LEMMA EndsAreCounted ==
  ASSUME NEW s \in Seq(Byte)
  PROVE  /\ Ends(s) \subseteq 1 .. Len(s) /\ Len(s) \in Nat
         /\ Cardinality(Ends(s)) \in Nat
         /\ Ends(s) = {} <=> Cardinality(Ends(s)) = 0
         /\ \A k \in 1 .. Cardinality(Ends(s)) : Nth(Ends(s), k) \in 1 .. Len(s)
         /\ Pending(s) \in Seq(Byte)
<1>1. Ends(s) \subseteq 1 .. Len(s) /\ Len(s) \in Nat
  BY DEF Ends
<1>2. IsFiniteSet(Ends(s)) /\ Cardinality(Ends(s)) \in Nat
  BY <1>1, RankIsBounded
<1>3. Ends(s) = {} <=> Cardinality(Ends(s)) = 0
  BY <1>2, FS_EmptySet
<1>4. \A k \in 1 .. Cardinality(Ends(s)) : Nth(Ends(s), k) \in 1 .. Len(s)
  BY <1>1, NthIsMember
<1>5. Pending(s) \in Seq(Byte)
  <2>1. CASE Ends(s) = {}
    BY <2>1, EmptyBody DEF Pending
  <2>2. CASE Ends(s) # {}
    <3>1. LastEnd(s) \in 1 .. Len(s)
      BY <1>2, <1>3, <1>4, <2>2 DEF LastEnd
    <3>2. LastEnd(s) + 1 \in 1 .. Len(s) + 1 /\ Len(s) \in 0 .. Len(s) /\ "one" \in Byte
      BY <1>1, <3>1 DEF Byte
    <3>3. QED
      BY <2>2, <3>2, SubSeqOfAppend DEF Pending
  <2>3. QED
    BY <2>1, <2>2
<1>6. QED
  BY <1>1, <1>2, <1>3, <1>4, <1>5

LEMMA EndsGrow ==
  ASSUME NEW s \in Seq(Byte), NEW b \in Byte, NEW t, t = Append(s, b)
  PROVE  /\ t \in Seq(Byte) /\ Len(t) = Len(s) + 1
         /\ b # "FEND" => Ends(t) = Ends(s)
         /\ b = "FEND" => /\ Ends(t) = Ends(s) \cup {Len(s) + 1}
                          /\ Cardinality(Ends(t)) = Cardinality(Ends(s)) + 1
                          /\ Nth(Ends(t), Cardinality(Ends(t))) = Len(s) + 1
<1> DEFINE n == Len(s)
<1>1. /\ n \in Nat /\ t \in Seq(Byte) /\ Len(t) = n + 1 /\ t[n + 1] = b
      /\ \A i \in 1 .. n : t[i] = s[i]
  BY AppendProperties
<1>2. Ends(s) \subseteq 1 .. n
  BY EndsAreCounted
<1>3. \A i \in 1 .. n + 1 : i \in 1 .. n \/ i = n + 1
  BY <1>1
<1>4. \A i \in 1 .. n : i \in 1 .. n + 1
  BY <1>1
<1>5. n + 1 \in 1 .. n + 1 /\ n + 1 \notin 1 .. n
  BY <1>1
<1> HIDE DEF n
<1>6. CASE b # "FEND"
  <2>1. \A i : i \in Ends(t) <=> i \in Ends(s)
    BY <1>1, <1>3, <1>4, <1>6 DEF Ends, n
  <2>2. Ends(t) = Ends(s)
    BY <2>1
  <2>3. QED
    BY <1>1, <1>6, <2>2 DEF n
<1>7. CASE b = "FEND"
  <2>1. \A i : i \in Ends(t) <=> i \in Ends(s) \/ i = n + 1
    BY <1>1, <1>3, <1>4, <1>5, <1>7 DEF Ends, n
  <2>2. Ends(t) = Ends(s) \cup {n + 1}
    BY <2>1
  <2>3. /\ Cardinality(Ends(t)) = Cardinality(Ends(s)) + 1
        /\ Nth(Ends(t), Cardinality(Ends(s)) + 1) = n + 1
    BY <1>1, <1>2, <2>2, NthOfMore
  <2>4. QED
    BY <1>1, <1>7, <2>2, <2>3 DEF n
<1>8. QED
  BY <1>6, <1>7

\* A FEND leaves nothing pending; another byte is pending after the others.
LEMMA PendingGrows ==
  ASSUME NEW s \in Seq(Byte), NEW b \in Byte, NEW t, t = Append(s, b)
  PROVE  /\ b = "FEND" => Pending(t) = << >> /\ Ends(t) # {}
         /\ b # "FEND" /\ Ends(s) # {} =>
              Pending(t) = Append(Pending(s), b) /\ Ends(t) # {}
<1>1. t \in Seq(Byte) /\ Len(t) = Len(s) + 1 /\ Len(s) \in Nat
  BY EndsGrow
<1>2. CASE b = "FEND"
  <2>1. LastEnd(t) = Len(s) + 1
    BY <1>2, EndsGrow DEF LastEnd
  <2>2. LastEnd(t) + 1 \in Int /\ Len(t) \in Int /\ Len(t) < LastEnd(t) + 1
    BY <1>1, <2>1
  <2>3. SubSeq(t, LastEnd(t) + 1, Len(t)) = << >>
    BY <2>2, SubSeqEmpty
  <2>4. Ends(t) # {}
    <3>1. Ends(t) = Ends(s) \cup {Len(s) + 1}
      BY <1>2, EndsGrow
    <3>2. QED
      BY <3>1
  <2>5. QED
    BY <1>2, <2>3, <2>4 DEF Pending
<1>3. CASE b # "FEND" /\ Ends(s) # {}
  <2>1. Ends(t) = Ends(s)
    BY <1>3, EndsGrow
  <2>2. Cardinality(Ends(s)) \in 1 .. Cardinality(Ends(s))
    BY <1>3, EndsAreCounted
  <2>3. LastEnd(t) = LastEnd(s) /\ LastEnd(s) \in 1 .. Len(s)
    BY <2>1, <2>2, EndsAreCounted DEF LastEnd
  <2>4. LastEnd(s) + 1 \in 1 .. Len(s) + 1 /\ Len(s) \in 0 .. Len(s)
    BY <1>1, <2>3
  <2>5. SubSeq(t, LastEnd(s) + 1, Len(s) + 1) = Append(SubSeq(s, LastEnd(s) + 1, Len(s)), b)
    BY <2>4, SubSeqOfAppend
  <2>6. QED
    BY <1>1, <1>3, <2>1, <2>3, <2>5 DEF Pending
<1>4. QED
  BY <1>2, <1>3

\* Frames that were ended stay as they are.
LEMMA BodiesStay ==
  ASSUME NEW s \in Seq(Byte), NEW b \in Byte, NEW t, t = Append(s, b)
  PROVE  /\ \A k \in 1 .. Cardinality(Ends(s)) - 1 : Body(t, k) = Body(s, k)
         /\ b = "FEND" /\ Ends(s) # {} => Body(t, Cardinality(Ends(s))) = Pending(s)
<1> DEFINE c == Cardinality(Ends(s))
<1>1. /\ b # "FEND" => Ends(t) = Ends(s)
      /\ b = "FEND" => /\ Ends(t) = Ends(s) \cup {Len(s) + 1}
                       /\ Cardinality(Ends(t)) = c + 1
                       /\ Nth(Ends(t), Cardinality(Ends(t))) = Len(s) + 1
  BY EndsGrow, Zenon
<1>2. /\ c \in Nat /\ Len(s) \in Nat
      /\ \A k \in 1 .. c : Nth(Ends(t), k) = Nth(Ends(s), k) /\ Nth(Ends(s), k) \in 1 .. Len(s)
  <2>1. c \in Nat /\ Len(s) \in Nat /\ \A k \in 1 .. c : Nth(Ends(s), k) \in 1 .. Len(s)
    BY EndsAreCounted
  <2>2. ASSUME b = "FEND" PROVE \A k \in 1 .. c : Nth(Ends(t), k) = Nth(Ends(s), k)
    <3> DEFINE n == Len(s)
               E == Ends(s)
    <3>1. n \in Nat /\ E \subseteq 1 .. n
      BY EndsAreCounted
    <3>2. Ends(t) = E \cup {n + 1}
      BY <1>1, <2>2
    <3> HIDE DEF n, E
    <3>3. \A T : T = E \cup {n + 1} =>
            /\ Cardinality(T) = Cardinality(E) + 1
            /\ \A k \in 1 .. Cardinality(E) : Nth(T, k) = Nth(E, k)
            /\ Nth(T, Cardinality(E) + 1) = n + 1
      BY <3>1, NthOfMore
    <3>4. QED
      BY <3>2, <3>3 DEF E
  <2>3. QED
    BY <1>1, <2>1, <2>2
<1>3. ASSUME NEW k \in 1 .. c - 1 PROVE Body(t, k) = Body(s, k)
  <2>1. k \in 1 .. c /\ k + 1 \in 1 .. c
    BY <1>2
  <2>2. Nth(Ends(s), k) + 1 \in 1 .. Len(s) + 1 /\ Nth(Ends(s), k + 1) - 1 \in 0 .. Len(s)
    BY <1>2, <2>1
  <2>3. SubSeq(t, Nth(Ends(s), k) + 1, Nth(Ends(s), k + 1) - 1)
          = SubSeq(s, Nth(Ends(s), k) + 1, Nth(Ends(s), k + 1) - 1)
    BY <2>2, SubSeqOfAppend
  <2>4. QED
    BY <1>2, <2>1, <2>3 DEF Body
<1>4. ASSUME b = "FEND", Ends(s) # {} PROVE Body(t, c) = Pending(s)
  <2>1. c \in 1 .. c
    BY <1>2, <1>4, EndsAreCounted
  <2>2. Nth(Ends(t), c) = LastEnd(s) /\ LastEnd(s) \in 1 .. Len(s)
    BY <1>2, <2>1 DEF LastEnd
  <2>3. Nth(Ends(t), c + 1) = Len(s) + 1
    BY <1>1, <1>4
  <2>4. /\ LastEnd(s) + 1 \in 1 .. Len(s) + 1 /\ Len(s) \in 0 .. Len(s)
        /\ Len(s) + 1 - 1 = Len(s)
    BY <1>2, <2>2
  <2>5. SubSeq(t, LastEnd(s) + 1, Len(s)) = SubSeq(s, LastEnd(s) + 1, Len(s))
    BY <2>4, SubSeqOfAppend
  <2>6. QED
    BY <1>4, <2>2, <2>3, <2>4, <2>5 DEF Body, Pending
<1>5. QED
  BY <1>3, <1>4

\* What the client reads back after a byte more.
LEMMA FramesGrow ==
  ASSUME NEW s \in Seq(Byte), NEW b \in Byte, NEW t, t = Append(s, b)
  PROVE  Frames(t) = IF b = "FEND" /\ Ends(s) # {} /\ IsFrame(Pending(s))
                       THEN Append(Frames(s), Content(Pending(s))) ELSE Frames(s)
<1> DEFINE c == Cardinality(Ends(s))
           G == GoodBodies(s)
           H == GoodBodies(t)
           g == Cardinality(G)
           ends == b = "FEND" /\ Ends(s) # {} /\ IsFrame(Pending(s))
<1>1. /\ c \in Nat /\ (Ends(s) = {} <=> c = 0)
      /\ \A k \in 1 .. c - 1 : Body(t, k) = Body(s, k)
      /\ b = "FEND" /\ Ends(s) # {} => Body(t, c) = Pending(s)
      /\ b = "FEND" => Cardinality(Ends(t)) = c + 1
      /\ b # "FEND" => Cardinality(Ends(t)) = c
  <2>1. c \in Nat /\ (Ends(s) = {} <=> c = 0)
    BY EndsAreCounted
  <2>2. /\ b = "FEND" => Cardinality(Ends(t)) = c + 1
        /\ b # "FEND" => Cardinality(Ends(t)) = c
    BY EndsGrow
  <2>3. /\ \A k \in 1 .. c - 1 : Body(t, k) = Body(s, k)
        /\ b = "FEND" /\ Ends(s) # {} => Body(t, c) = Pending(s)
    BY BodiesStay
  <2>4. QED
    BY <2>1, <2>2, <2>3
<1>2. \A k : k \in G <=> k \in 1 .. c - 1 /\ IsFrame(Body(s, k))
  BY DEF GoodBodies
<1>3. \A k : k \in H <=> k \in 1 .. Cardinality(Ends(t)) - 1 /\ IsFrame(Body(t, k))
  BY DEF GoodBodies
<1> HIDE DEF c, G, H
<1>4. ~ends => H = G
  <2>1. CASE b # "FEND"
    BY <1>1, <1>2, <1>3, <2>1
  <2>2. CASE b = "FEND" /\ Ends(s) = {}
    <3>1. 1 .. Cardinality(Ends(t)) - 1 = {} /\ 1 .. c - 1 = {}
      BY <1>1, <2>2
    <3>2. QED
      BY <1>2, <1>3, <3>1
  <2>3. CASE b = "FEND" /\ Ends(s) # {} /\ ~IsFrame(Pending(s))
    <3>1. \A k : k \in 1 .. Cardinality(Ends(t)) - 1 <=> k \in 1 .. c - 1 \/ k = c
      BY <1>1, <2>3
    <3>2. \A k : k \in H <=> k \in G
      BY <1>1, <1>2, <1>3, <2>3, <3>1
    <3>3. QED
      BY <3>2
  <2>4. QED
    BY <2>1, <2>2, <2>3
<1>5. ends => H = G \cup {c}
  <2>1. SUFFICES ASSUME ends PROVE H = G \cup {c}
    OBVIOUS
  <2>2. \A k : k \in 1 .. Cardinality(Ends(t)) - 1 <=> k \in 1 .. c - 1 \/ k = c
    BY <1>1, <2>1
  <2>3. \A k : k \in H <=> k \in G \/ k = c
    BY <1>1, <1>2, <1>3, <2>1, <2>2
  <2>4. QED
    BY <2>3
<1>6. g \in Nat /\ \A m \in 1 .. g : Nth(G, m) \in G /\ Nth(G, m) \in 1 .. c - 1
  <2>1. CASE c = 0
    <3>1. \A k : k \notin 1 .. c - 1
      BY <2>1
    <3>2. G = {}
      BY <1>2, <3>1
    <3>3. g = 0
      BY <3>2, FS_EmptySet
    <3>4. QED
      BY <3>3
  <2>2. CASE c # 0
    <3>1. c - 1 \in Nat /\ G \subseteq 1 .. c - 1
      BY <1>1, <1>2, <2>2
    <3>2. g \in Nat
      BY <3>1, RankIsBounded
    <3>3. QED
      BY <3>1, <3>2, NthIsMember
  <2>3. QED
    BY <2>1, <2>2
<1>7. \A m \in 1 .. g : Content(Body(t, Nth(G, m))) = Content(Body(s, Nth(G, m)))
  BY <1>1, <1>6
<1>8. Frames(s) = [m \in 1 .. g |-> Content(Body(s, Nth(G, m)))]
  BY DEF Frames, G
<1>9. Frames(t) = [m \in 1 .. Cardinality(H) |-> Content(Body(t, Nth(H, m)))]
  BY DEF Frames, H
<1> HIDE DEF g
<1>10. CASE ~ends
  <2>1. Frames(t) = [m \in 1 .. g |-> Content(Body(t, Nth(G, m)))]
    BY <1>4, <1>9, <1>10 DEF g
  <2>2. Frames(t) = Frames(s)
    BY <1>7, <1>8, <2>1
  <2>3. QED
    BY <1>10, <2>2
<1>11. CASE ends
  <2>1. c - 1 \in Nat /\ G \subseteq 1 .. c - 1 /\ H = G \cup {c - 1 + 1}
    BY <1>1, <1>2, <1>5, <1>11
  <2>2. /\ Cardinality(H) = g + 1
        /\ \A m \in 1 .. g : Nth(H, m) = Nth(G, m)
        /\ Nth(H, g + 1) = c - 1 + 1
    <3> DEFINE n == c - 1
    <3>1. n \in Nat /\ G \subseteq 1 .. n /\ H = G \cup {n + 1}
      BY <2>1
    <3> HIDE DEF n
    <3>2. \A T : T = G \cup {n + 1} =>
            /\ Cardinality(T) = Cardinality(G) + 1
            /\ \A m \in 1 .. Cardinality(G) : Nth(T, m) = Nth(G, m)
            /\ Nth(T, Cardinality(G) + 1) = n + 1
      BY <3>1, NthOfMore
    <3>3. QED
      BY <3>1, <3>2 DEF g, n
  <2>3. c - 1 + 1 = c /\ Body(t, c) = Pending(s)
    BY <1>1, <1>11
  <2>4. Frames(t) = [m \in 1 .. g + 1 |-> IF m = g + 1 THEN Content(Pending(s)) ELSE Frames(s)[m]]
    <3>1. ASSUME NEW m \in 1 .. g + 1
          PROVE  Content(Body(t, Nth(H, m)))
                   = IF m = g + 1 THEN Content(Pending(s)) ELSE Frames(s)[m]
      <4>1. CASE m = g + 1
        BY <2>2, <2>3, <4>1
      <4>2. CASE m # g + 1
        <5>1. m \in 1 .. g
          BY <1>6, <4>2
        <5>2. QED
          BY <1>7, <1>8, <2>2, <4>2, <5>1
      <4>3. QED
        BY <4>1, <4>2
    <3>2. QED
      BY <1>9, <2>2, <3>1
  <2> DEFINE R == {Frames(s)[m] : m \in 1 .. g} \cup {Content(Pending(s))}
             u == Append(Frames(s), Content(Pending(s)))
  <2>5. Frames(s) \in Seq(R) /\ Len(Frames(s)) = g /\ Content(Pending(s)) \in R
    <3>1. Frames(s) \in [1 .. g -> R] /\ Content(Pending(s)) \in R
      BY <1>8
    <3> HIDE DEF R
    <3>2. QED
      BY <1>6, <3>1
  <2>6. Frames(t) \in Seq(R) /\ Len(Frames(t)) = g + 1
    <3>1. Frames(t) \in [1 .. g + 1 -> R]
      <4>1. \A m \in 1 .. g + 1 : m = g + 1 \/ m \in 1 .. g
        BY <1>6
      <4>2. QED
        BY <2>4, <4>1
    <3>2. g + 1 \in Nat
      BY <1>6
    <3> HIDE DEF R
    <3>3. QED
      BY <3>1, <3>2
  <2> HIDE DEF R
  <2>8. /\ u \in Seq(R) /\ Len(u) = g + 1 /\ u[g + 1] = Content(Pending(s))
        /\ \A m \in 1 .. g : u[m] = Frames(s)[m]
    BY <2>5, AppendProperties
  <2>9. \A m \in 1 .. g + 1 : Frames(t)[m] = u[m]
    <3>1. \A m \in 1 .. g + 1 : m = g + 1 \/ m \in 1 .. g
      BY <1>6
    <3>2. QED
      BY <2>4, <2>8, <3>1
  <2>10. Frames(t) = u
    BY <2>6, <2>8, <2>9, SeqEqual
  <2>7. QED
    BY <1>11, <2>10
<1>12. QED
  BY <1>10, <1>11

LEMMA HeadTailOfMore ==
  ASSUME NEW x \in Byte, NEW y \in Byte, NEW w \in Seq(Byte)
  PROVE  /\ Head(<<x>> \o w) = x /\ Tail(<<x>> \o w) = w /\ <<x>> \o w # << >>
         /\ Head(<<x, y>> \o w) = x /\ Tail(<<x, y>> \o w) = <<y>> \o w
         /\ Head(<<x>>) = x /\ Tail(<<x>>) = << >>
<1>1. \A v \in Seq(Byte) : Head(<<x>> \o v) = x /\ Tail(<<x>> \o v) = v /\ <<x>> \o v # << >>
  <2>1. SUFFICES ASSUME NEW v \in Seq(Byte)
                 PROVE  /\ Head(<<x>> \o v) = x /\ Tail(<<x>> \o v) = v
                        /\ <<x>> \o v # << >>
    OBVIOUS
  <2>2. <<x>> \in Seq(Byte) /\ Len(<<x>>) = 1 /\ <<x>>[1] = x /\ Len(v) \in Nat
    OBVIOUS
  <2>3. /\ <<x>> \o v \in Seq(Byte) /\ Len(<<x>> \o v) = 1 + Len(v)
        /\ \A i \in 1 .. 1 + Len(v) :
             (<<x>> \o v)[i] = IF i <= 1 THEN <<x>>[i] ELSE v[i - 1]
    BY <2>2, ConcatProperties
  <2>4. <<x>> \o v # << >>
    BY <2>2, <2>3
  <2>5. Head(<<x>> \o v) = x
    BY <2>2, <2>3, <2>4
  <2>6. /\ Tail(<<x>> \o v) \in Seq(Byte) /\ Len(Tail(<<x>> \o v)) = Len(v)
        /\ \A i \in 1 .. Len(v) : Tail(<<x>> \o v)[i] = (<<x>> \o v)[i + 1]
    BY <2>2, <2>3, <2>4, HeadTailProperties
  <2>7. \A i \in 1 .. Len(v) : (<<x>> \o v)[i + 1] = v[i]
    <3>1. \A i \in 1 .. Len(v) : i + 1 \in 1 .. 1 + Len(v) /\ ~(i + 1 <= 1) /\ i + 1 - 1 = i
      BY <2>2
    <3>2. QED
      BY <2>3, <3>1
  <2>8. Tail(<<x>> \o v) = v
    BY <2>6, <2>7, SeqEqual
  <2>9. QED
    BY <2>4, <2>5, <2>8
<1>2. <<x, y>> \o w = <<x>> \o (<<y>> \o w)
  <2>1. <<x, y>> = <<x>> \o <<y>> /\ <<x>> \in Seq(Byte) /\ <<y>> \in Seq(Byte)
    <3>1. /\ <<x>> \in Seq(Byte) /\ Len(<<x>>) = 1 /\ <<x>>[1] = x
          /\ <<y>> \in Seq(Byte) /\ Len(<<y>>) = 1 /\ <<y>>[1] = y
      OBVIOUS
    <3>2. /\ <<x, y>> \in Seq(Byte) /\ Len(<<x, y>>) = 2
          /\ <<x, y>>[1] = x /\ <<x, y>>[2] = y
      OBVIOUS
    <3>3. /\ <<x>> \o <<y>> \in Seq(Byte) /\ Len(<<x>> \o <<y>>) = 2
          /\ \A i \in 1 .. 2 :
               (<<x>> \o <<y>>)[i] = IF i <= 1 THEN <<x>>[i] ELSE <<y>>[i - 1]
      BY <3>1, ConcatProperties
    <3>4. \A i \in 1 .. 2 : (<<x>> \o <<y>>)[i] = <<x, y>>[i]
      <4>1. (<<x>> \o <<y>>)[1] = x /\ (<<x>> \o <<y>>)[2] = y
        BY <3>1, <3>3
      <4>2. \A i \in 1 .. 2 : i = 1 \/ i = 2
        OBVIOUS
      <4>3. QED
        BY <3>2, <4>1, <4>2
    <3>5. QED
      BY <3>1, <3>2, <3>3, <3>4, SeqEqual
  <2>2. QED
    BY <2>1, ConcatAssociative
<1>3. <<y>> \o w \in Seq(Byte)
  <2>1. <<y>> \in Seq(Byte)
    OBVIOUS
  <2>2. QED
    BY <2>1, ConcatProperties
<1>4. Head(<<x>>) = x /\ Tail(<<x>>) = << >>
  OBVIOUS
<1>5. QED
  BY <1>1, <1>2, <1>3, <1>4

LEMMA SentGrows ==
  ASSUME NEW p \in Packets
  PROVE  /\ Sent(p, 1) = <<"zero">>
         /\ Sent(p, Len(p) + 1) = <<"zero">> \o p /\ Len(<<"zero">> \o p) = Len(p) + 1
         /\ \A i \in 1 .. Len(p) : Append(Sent(p, i), p[i]) = Sent(p, i + 1)
<1>1. p \in Seq(Byte) /\ Len(p) \in Nat /\ <<"zero">> \in Seq(Byte) /\ Len(<<"zero">>) = 1
  BY PacketsAreBytes DEF Byte
<1>2. Sent(p, 1) = <<"zero">>
  <2>1. SubSeq(p, 1, 1 - 1) = << >>
    BY SubSeqEmpty
  <2>2. <<"zero">> \o << >> = <<"zero">>
    BY <1>1, ConcatEmptySeq
  <2>3. QED
    BY <2>1, <2>2 DEF Sent
<1>3. Sent(p, Len(p) + 1) = <<"zero">> \o p /\ Len(<<"zero">> \o p) = Len(p) + 1
  <2>1. Len(p) + 1 - 1 = Len(p) /\ SubSeq(p, 1, Len(p)) = p
    BY <1>1, SubSeqFull
  <2>2. Len(<<"zero">> \o p) = Len(p) + 1
    BY <1>1, ConcatProperties
  <2>3. QED
    BY <2>1, <2>2 DEF Sent
<1>4. ASSUME NEW i \in 1 .. Len(p) PROVE Append(Sent(p, i), p[i]) = Sent(p, i + 1)
  <2>1. /\ 1 \in 1 .. Len(p) /\ i \in 1 .. Len(p) /\ i + 1 - 1 = i /\ p[i] \in Byte
        /\ \A j \in 1 .. i - 1 : j \in 1 .. Len(p)
    BY <1>1
  <2>2. SubSeq(p, 1, i) = SubSeq(p, 1, i - 1) \o <<p[i]>>
    BY <1>1, <2>1, SubSeqRecursiveSecond
  <2>3. SubSeq(p, 1, i - 1) \in Seq(Byte) /\ <<p[i]>> \in Seq(Byte)
    <3>1. \A j \in 1 .. i - 1 : p[j] \in Byte
      BY <1>1, <2>1
    <3>2. QED
      BY <2>1, <3>1, SubSeqProperties
  <2>4. Sent(p, i + 1) = (<<"zero">> \o SubSeq(p, 1, i - 1)) \o <<p[i]>>
    BY <1>1, <2>1, <2>2, <2>3, ConcatAssociative DEF Sent
  <2>5. Sent(p, i) \in Seq(Byte)
    BY <1>1, <2>3, ConcatProperties DEF Sent
  <2>6. QED
    BY <2>1, <2>4, <2>5, AppendIsConcat DEF Sent
<1>5. QED
  BY <1>2, <1>3, <1>4

\* A byte of a packet goes out, or the second half of its escape: whatever was
\* read back before is still read back, and the frame in progress has the
\* packet up to the next byte.
LEMMA PacketByteSent ==
  ASSUME NEW p \in Packets, NEW i \in 1 .. Len(p), NEW s \in Seq(Byte), NEW u,
         Before(p, u, s, i) \/ Within(p, u, s, i), Ends(s) # {},
         Content(Pending(s)) = Sent(p, i), EscapesAreGood(Pending(s))
  PROVE  /\ Head(u) \in Byte /\ Tail(u) # << >>
         /\ InFlight(p, Tail(u), Append(s, Head(u)))
         /\ Frames(Append(s, Head(u))) = Frames(s)
<1> DEFINE w == Written(p)[i + 1]
           q == Pending(s)
<1>1. /\ p \in Seq(Byte) /\ p[i] \in Byte /\ i + 1 \in 1 .. Len(p) + 1 /\ i \in 1 .. Len(p) + 1
      /\ ~(i > Len(p)) /\ q \in Seq(Byte) /\ Len(p) \in Nat
  <2>1. p \in Seq(Byte) /\ Len(p) \in Nat
    BY PacketsAreBytes
  <2>2. q \in Seq(Byte)
    BY EndsAreCounted
  <2>3. QED
    BY <2>1, <2>2
<1>2. Written(p)[i] = Escape(p[i]) \o w
  BY <1>1, WrittenUnfolds
<1>3. w \in Seq(Byte) /\ w # << >>
  BY <1>1, WrittenIsBytes
<1>4. Append(Sent(p, i), p[i]) = Sent(p, i + 1)
  BY SentGrows
<1>5. \A b \in Byte : b # "FEND" =>
        /\ Frames(Append(s, b)) = Frames(s)
        /\ Pending(Append(s, b)) = Append(q, b) /\ Ends(Append(s, b)) # {}
  BY FramesGrow, PendingGrows
<1>6. \A b \in Byte :
        /\ Content(Append(q, b)) =
             IF b = "FESC" THEN Content(q)
               ELSE Append(Content(q), IF EndsInEscape(q) THEN Unescaped(b) ELSE b)
        /\ EscapesAreGood(Append(q, b)) <=>
             EscapesAreGood(q) /\ (EndsInEscape(q) => b \in {"TFEND", "TFESC"})
        /\ EndsInEscape(Append(q, b)) <=> b = "FESC"
  BY <1>1, ContentGrows, EscapesGrow
<1>7. {"FEND", "FESC", "TFEND", "TFESC"} \subseteq Byte
  BY DEF Byte
<1> HIDE DEF w, q
<1>8. CASE Before(p, u, s, i) /\ p[i] \notin {"FEND", "FESC"}
  <2>1. u = <<p[i]>> \o w /\ ~EndsInEscape(q)
    BY <1>2, <1>8 DEF Before, Escape, q
  <2>2. Head(u) = p[i] /\ Tail(u) = w
    BY <1>1, <1>3, <2>1, HeadTailOfMore
  <2> DEFINE t == Append(s, p[i])
  <2>3. Frames(t) = Frames(s) /\ Pending(t) = Append(q, p[i]) /\ Ends(t) # {}
    BY <1>1, <1>5, <1>8
  <2>4. /\ Content(Pending(t)) = Sent(p, i + 1) /\ EscapesAreGood(Pending(t))
        /\ ~EndsInEscape(Pending(t))
    BY <1>1, <1>4, <1>6, <1>8, <2>1, <2>3 DEF q
  <2>5. InFlight(p, w, t)
    BY <1>1, <2>3, <2>4 DEF InFlight, Before, w
  <2>6. QED
    BY <1>1, <1>3, <2>2, <2>3, <2>5
<1>9. CASE Before(p, u, s, i) /\ p[i] \in {"FEND", "FESC"}
  <2> DEFINE x == Escape(p[i])[2]
  <2>1. Escape(p[i]) = <<"FESC", x>> /\ x \in Byte
    BY <1>7, <1>9 DEF Escape
  <2> HIDE DEF x
  <2>2. u = <<"FESC", x>> \o w /\ ~EndsInEscape(q)
    BY <1>2, <1>9, <2>1 DEF Before, q
  <2>3. Head(u) = "FESC" /\ Tail(u) = <<x>> \o w /\ <<x>> \o w # << >>
    BY <1>3, <1>7, <2>1, <2>2, HeadTailOfMore
  <2> DEFINE t == Append(s, "FESC")
  <2>4. Frames(t) = Frames(s) /\ Pending(t) = Append(q, "FESC") /\ Ends(t) # {}
    BY <1>5, <1>7
  <2>5. /\ Content(Pending(t)) = Sent(p, i) /\ EscapesAreGood(Pending(t))
        /\ EndsInEscape(Pending(t))
    BY <1>6, <1>7, <2>2, <2>4 DEF q
  <2>6. InFlight(p, <<x>> \o w, t)
    <3>1. Within(p, <<x>> \o w, t, i)
      BY <1>1, <1>9, <2>5 DEF Within, w, x
    <3> HIDE DEF t
    <3>2. QED
      BY <1>1, <2>4, <2>5, <3>1 DEF InFlight
  <2>7. QED
    BY <1>7, <2>3, <2>4, <2>6
<1>10. CASE Within(p, u, s, i)
  <2> DEFINE x == Escape(p[i])[2]
  <2>1. x \in {"TFEND", "TFESC"} /\ Unescaped(x) = p[i]
    BY <1>10 DEF Within, Escape, Unescaped
  <2>2. u = <<x>> \o w /\ EndsInEscape(q)
    BY <1>10 DEF Within, q, w
  <2> HIDE DEF x
  <2>3. Head(u) = x /\ Tail(u) = w /\ x \in Byte /\ x # "FEND" /\ x # "FESC"
    BY <1>3, <1>7, <2>1, <2>2, HeadTailOfMore
  <2> DEFINE t == Append(s, x)
  <2>4. Frames(t) = Frames(s) /\ Pending(t) = Append(q, x) /\ Ends(t) # {}
    BY <1>5, <2>3
  <2>5. /\ Content(Pending(t)) = Sent(p, i + 1) /\ EscapesAreGood(Pending(t))
        /\ ~EndsInEscape(Pending(t))
    BY <1>4, <1>6, <2>1, <2>2, <2>3, <2>4 DEF q
  <2>6. InFlight(p, w, t)
    BY <1>1, <2>4, <2>5 DEF InFlight, Before, w
  <2>7. QED
    BY <1>3, <2>3, <2>4, <2>6
<1>11. QED
  BY <1>8, <1>9, <1>10

\* One byte of a send: only its last one adds a frame to what is read back, and
\* that frame is the packet.
LEMMA ByteSent ==
  ASSUME NEW p \in Packets, NEW s \in Seq(Byte), NEW u, InFlight(p, u, s)
  PROVE  /\ Head(u) \in Byte
         /\ Tail(u) # << >> => /\ InFlight(p, Tail(u), Append(s, Head(u)))
                               /\ Frames(Append(s, Head(u))) = Frames(s)
         /\ Tail(u) = << >> => /\ Pending(Append(s, Head(u))) = << >>
                               /\ Frames(Append(s, Head(u)))
                                    = Append(Frames(s), <<"zero">> \o p)
<1> DEFINE w == Written(p)[1]
<1>1. /\ p \in Seq(Byte) /\ Len(p) \in 1 .. MaxFrame - 1 /\ 1 \in 1 .. Len(p) + 1
      /\ MaxFrame \in Nat /\ "FEND" \in Byte /\ "zero" \in Byte
  BY PacketsAreBytes, MaxFrameAssumption DEF Byte
<1>2. w \in Seq(Byte) /\ w # << >>
  BY <1>1, WrittenIsBytes
<1> HIDE DEF w
<1>3. CASE u = Encode(p) /\ Pending(s) = << >>
  <2> DEFINE t == Append(s, "FEND")
  <2>1. u = <<"FEND", "zero">> \o w
    BY <1>3 DEF Encode, w
  <2>2. Head(u) = "FEND" /\ Tail(u) = <<"zero">> \o w /\ <<"zero">> \o w # << >>
    BY <1>1, <1>2, <2>1, HeadTailOfMore
  <2>3. Frames(t) = Frames(s)
    BY <1>1, <1>3, FramesGrow, EmptyBody
  <2>4. Pending(t) = << >> /\ Ends(t) # {}
    BY <1>1, PendingGrows
  <2>5. InFlight(p, <<"zero">> \o w, t)
    BY <2>4 DEF InFlight, w
  <2>6. QED
    BY <1>1, <2>2, <2>3, <2>5
<1>4. CASE u = <<"zero">> \o w /\ Pending(s) = << >> /\ Ends(s) # {}
  <2> DEFINE t == Append(s, "zero")
  <2>1. Head(u) = "zero" /\ Tail(u) = w
    BY <1>1, <1>2, <1>4, HeadTailOfMore
  <2>2. Frames(t) = Frames(s)
    BY <1>1, FramesGrow
  <2>3. Pending(t) = Append(<< >>, "zero") /\ Ends(t) # {}
    BY <1>1, <1>4, PendingGrows
  <2>4. /\ Content(Pending(t)) = Sent(p, 1) /\ EscapesAreGood(Pending(t))
        /\ ~EndsInEscape(Pending(t))
    <3>1. Content(Pending(t)) = Append(<< >>, "zero")
      BY <1>1, <2>3, EmptyBody, ContentGrows
    <3>2. Append(<< >>, "zero") = <<"zero">>
      OBVIOUS
    <3>3. EscapesAreGood(Pending(t)) /\ ~EndsInEscape(Pending(t))
      BY <1>1, <2>3, EmptyBody, EscapesGrow
    <3>4. QED
      BY <3>1, <3>2, <3>3, SentGrows
  <2>5. InFlight(p, w, t)
    BY <1>1, <2>3, <2>4 DEF InFlight, Before, w
  <2>6. QED
    BY <1>1, <1>2, <2>1, <2>2, <2>5
<1>5. ASSUME NEW i \in 1 .. Len(p) + 1,
             Before(p, u, s, i) \/ Within(p, u, s, i), Ends(s) # {},
             Content(Pending(s)) = Sent(p, i), EscapesAreGood(Pending(s))
      PROVE  /\ Head(u) \in Byte
             /\ Tail(u) # << >> => /\ InFlight(p, Tail(u), Append(s, Head(u)))
                                   /\ Frames(Append(s, Head(u))) = Frames(s)
             /\ Tail(u) = << >> => /\ Pending(Append(s, Head(u))) = << >>
                                   /\ Frames(Append(s, Head(u)))
                                        = Append(Frames(s), <<"zero">> \o p)
  <2>1. CASE i \in 1 .. Len(p)
    BY <1>5, <2>1, PacketByteSent
  <2>2. CASE i \notin 1 .. Len(p)
    <3>1. i = Len(p) + 1 /\ i > Len(p) /\ ~(i <= Len(p))
      BY <1>1, <2>2
    <3>2. Written(p)[i] = <<"FEND">>
      BY <1>1, <3>1, WrittenUnfolds
    <3>3. u = <<"FEND">>
      BY <1>5, <3>1, <3>2 DEF Before, Within
    <3>4. Head(u) = "FEND" /\ Tail(u) = << >>
      BY <3>3
    <3>5. Content(Pending(s)) = <<"zero">> \o p /\ Len(<<"zero">> \o p) = Len(p) + 1
      BY <1>5, <3>1, SentGrows
    <3>6. IsFrame(Pending(s))
      BY <1>1, <1>5, <3>5 DEF IsFrame
    <3>7. Frames(Append(s, "FEND")) = Append(Frames(s), <<"zero">> \o p)
      BY <1>1, <1>5, <3>5, <3>6, FramesGrow
    <3>8. Pending(Append(s, "FEND")) = << >>
      BY <1>1, PendingGrows
    <3>9. QED
      BY <1>1, <3>4, <3>7, <3>8
  <2>3. QED
    BY <2>1, <2>2
<1>6. QED
  BY <1>3, <1>4, <1>5 DEF InFlight, w

LEMMA NothingSeen == Pending(<< >>) = << >> /\ Frames(<< >>) = << >>
<1>1. Len(<< >>) = 0 /\ Cardinality({}) = 0
  BY FS_EmptySet
<1>2. Ends(<< >>) = {}
  BY <1>1 DEF Ends
<1>3. GoodBodies(<< >>) = {}
  <2>1. 1 .. Cardinality(Ends(<< >>)) - 1 = {}
    <3>1. Cardinality(Ends(<< >>)) = 0
      BY <1>1, <1>2
    <3>2. QED
      BY <3>1
  <2>2. QED
    BY <2>1 DEF GoodBodies
<1>4. Frames(<< >>) = << >>
  <2>1. Cardinality(GoodBodies(<< >>)) = 0
    BY <1>1, <1>3
  <2>2. Frames(<< >>) \in [1 .. 0 -> {}]
    BY <2>1 DEF Frames
  <2>3. Frames(<< >>) \in Seq({}) /\ Len(Frames(<< >>)) = 0
    BY <2>2
  <2>4. QED
    BY <2>3
<1>5. QED
  BY <1>2, <1>4 DEF Pending

\* The packets that were sent, as the client reads them.
AsRead(packets) == [k \in 1 .. Len(packets) |-> <<"zero">> \o packets[k]]

LEMMA AsReadGrows ==
  ASSUME NEW ps \in Seq(Packets), NEW p \in Packets
  PROVE  AsRead(Append(ps, p)) = Append(AsRead(ps), <<"zero">> \o p)
<1> DEFINE R == {<<"zero">> \o q : q \in Packets}
           n == Len(ps)
           u == Append(ps, p)
           v == Append(AsRead(ps), <<"zero">> \o p)
<1>1. /\ n \in Nat /\ \A k \in 1 .. n : ps[k] \in Packets
      /\ u \in Seq(Packets) /\ Len(u) = n + 1 /\ u[n + 1] = p
      /\ \A k \in 1 .. n : u[k] = ps[k]
  BY AppendProperties
<1>2. \A q \in Packets : <<"zero">> \o q \in R
  OBVIOUS
<1> HIDE DEF R
<1>3. /\ AsRead(ps) \in Seq(R) /\ Len(AsRead(ps)) = n
      /\ \A k \in 1 .. n : AsRead(ps)[k] = <<"zero">> \o ps[k]
  <2>1. AsRead(ps) = [k \in 1 .. n |-> <<"zero">> \o ps[k]]
    BY DEF AsRead
  <2>2. AsRead(ps) \in [1 .. n -> R]
    BY <1>1, <1>2, <2>1
  <2>3. QED
    BY <1>1, <2>1, <2>2
<1>4. /\ v \in Seq(R) /\ Len(v) = n + 1 /\ v[n + 1] = <<"zero">> \o p
      /\ \A k \in 1 .. n : v[k] = AsRead(ps)[k]
  BY <1>2, <1>3, AppendProperties
<1> HIDE DEF n, u, v
<1>5. /\ AsRead(u) \in Seq(R) /\ Len(AsRead(u)) = n + 1
      /\ \A k \in 1 .. n + 1 : AsRead(u)[k] = <<"zero">> \o u[k]
  <2>1. AsRead(u) = [k \in 1 .. n + 1 |-> <<"zero">> \o u[k]]
    BY <1>1 DEF AsRead
  <2>2. n + 1 \in Nat /\ \A k \in 1 .. n + 1 : u[k] \in Packets
    BY <1>1
  <2>3. AsRead(u) \in [1 .. n + 1 -> R]
    BY <1>2, <2>1, <2>2
  <2>4. AsRead(u) \in Seq(R) /\ Len(AsRead(u)) = n + 1
    BY <2>2, <2>3
  <2>5. QED
    BY <2>1, <2>4
<1>6. ASSUME NEW k \in 1 .. n + 1 PROVE AsRead(u)[k] = v[k]
  <2>1. CASE k = n + 1
    BY <1>1, <1>4, <1>5, <2>1
  <2>2. CASE k # n + 1
    <3>1. k \in 1 .. n
      BY <1>1, <2>2
    <3>2. AsRead(u)[k] = <<"zero">> \o ps[k]
      BY <1>1, <1>5, <3>1
    <3>3. v[k] = <<"zero">> \o ps[k]
      BY <1>3, <1>4, <3>1
    <3>4. QED
      BY <3>2, <3>3
  <2>3. QED
    BY <2>1, <2>2
<1>7. AsRead(u) = v
  BY <1>4, <1>5, <1>6, SeqEqual
<1>8. QED
  BY <1>7 DEF u, v

LEMMA SendByteInv ==
  ASSUME DownlinkInv, SendByte
  PROVE  DownlinkInv'
<1> DEFINE b == Head(unsent)
<1>1. /\ mainPc = "sending" /\ attached' = attached
      /\ seen' = Append(seen, b) /\ unsent' = Tail(unsent)
  BY DEF SendByte, connection
<1>2. /\ packet \in Packets /\ InFlight(packet, unsent, seen) /\ seen \in Seq(Byte)
      /\ completed \in Seq(Packets) /\ Frames(seen) = AsRead(completed)
  BY <1>1 DEF DownlinkInv, ClientSeesWholePackets, AsRead
<1>3. /\ b \in Byte
      /\ unsent' # << >> => /\ InFlight(packet, unsent', seen')
                            /\ Frames(seen') = Frames(seen)
      /\ unsent' = << >> => /\ Pending(seen') = << >>
                            /\ Frames(seen') = Append(Frames(seen), <<"zero">> \o packet)
  BY <1>1, <1>2, ByteSent
<1>4. seen' \in Seq(Byte)
  BY <1>1, <1>2, <1>3, AppendProperties
<1>5. CASE unsent' # << >>
  <2>1. mainPc' = mainPc /\ packet' = packet /\ completed' = completed
    BY <1>5 DEF SendByte
  <2>2. Frames(seen') = AsRead(completed')
    BY <1>2, <1>3, <1>5, <2>1
  <2>3. QED
    BY <1>1, <1>2, <1>3, <1>4, <1>5, <2>1, <2>2
    DEF DownlinkInv, ClientSeesWholePackets, AsRead
<1>6. CASE unsent' = << >>
  <2>1. mainPc' = "deliver" /\ completed' = Append(completed, packet)
    BY <1>6 DEF SendByte
  <2>2. Frames(seen') = AsRead(completed') /\ completed' \in Seq(Packets)
    BY <1>2, <1>3, <1>6, <2>1, AsReadGrows, AppendProperties
  <2>3. QED
    BY <1>3, <1>4, <1>6, <2>1, <2>2 DEF DownlinkInv, ClientSeesWholePackets, AsRead
<1>7. QED
  BY <1>5, <1>6

LEMMA DownlinkStep ==
  ASSUME DownlinkInv, [KissNext]_kissVars
  PROVE  DownlinkInv'
<1> USE DEF DownlinkInv, ClientSeesWholePackets
<1>1. CASE SendByte
  BY <1>1, SendByteInv
<1>2. CASE Accept
  <2>1. seen' = << >> /\ completed' = << >> /\ mainPc' # "sending"
    BY <1>2 DEF Accept, MainMoves
  <2>2. << >> \in Seq(Byte) /\ << >> \in Seq(Packets) /\ Len(<< >>) = 0
    OBVIOUS
  <2>3. << >> = [k \in 1 .. Len(completed') |-> <<"zero">> \o completed'[k]]
    BY <2>1, <2>2
  <2>4. QED
    BY <2>1, <2>2, <2>3, NothingSeen
<1>3. CASE BeginSend
  <2>1. /\ attached /\ mainPc = "deliver" /\ mainPc' = "sending"
        /\ packet' \in Packets /\ unsent' = Encode(packet')
        /\ seen' = seen /\ completed' = completed
    BY <1>3 DEF BeginSend, MainMoves
  <2>2. InFlight(packet', unsent', seen')
    BY <2>1 DEF InFlight
  <2>3. QED
    BY <2>1, <2>2
<1>4. CASE UNCHANGED kissVars
  BY <1>4 DEF kissVars, connection, downlink
<1>5. CASE Leave \/ Signal \/ Stop \/ NoAccept \/ NoPacket
  BY <1>5 DEF Leave, Signal, Stop, NoAccept, NoPacket, MainMoves, connection, downlink
<1>6. CASE Receive \/ ReceiveNothing \/ ReceiveEnd \/ Parse
  BY <1>6 DEF Receive, ReceiveNothing, ReceiveEnd, Receives, Parse, MainMoves,
              connection, downlink
<1>7. CASE SendFails \/ SendInterrupted
  BY <1>7 DEF SendFails, SendInterrupted, Abandon, MainMoves
<1>8. QED
  BY <1>1, <1>2, <1>3, <1>4, <1>5, <1>6, <1>7 DEF KissNext, Main

\* For packets of any bytes and length, the client reads back exactly those
\* whose send was whole, in order; what a send that was cut short left behind
\* ends its connection and is read as nothing.
THEOREM ClientReadsWhatWasSent == KissSpec => []ClientSeesWholePackets
<1>1. KissInit => DownlinkInv
  <2>1. SUFFICES ASSUME KissInit PROVE DownlinkInv
    OBVIOUS
  <2>2. seen = << >> /\ completed = << >> /\ mainPc # "sending"
    BY <2>1 DEF KissInit
  <2>3. << >> \in Seq(Byte) /\ << >> \in Seq(Packets) /\ Len(<< >>) = 0
    OBVIOUS
  <2>4. << >> = [k \in 1 .. Len(completed) |-> <<"zero">> \o completed[k]]
    BY <2>2, <2>3
  <2>5. QED
    BY <2>2, <2>3, <2>4, NothingSeen DEF DownlinkInv, ClientSeesWholePackets
<1>2. DownlinkInv /\ [KissNext]_kissVars => DownlinkInv'
  BY DownlinkStep
<1>3. DownlinkInv => ClientSeesWholePackets
  BY DEF DownlinkInv
<1>4. QED
  BY <1>1, <1>2, <1>3, PTL DEF KissSpec
=============================================================================
