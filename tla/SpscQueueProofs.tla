-------------------------- MODULE SpscQueueProofs --------------------------
(***************************************************************************)
(* Proofs about SpscQueue for every capacity and every number of offers:   *)
(* its type invariant, the safety invariants its run checks, and that the  *)
(* ring implements BoundedFifo.                                            *)
(***************************************************************************)
EXTENDS SpscQueue, SequenceTheorems, TLAPS

Writing == pushPc \in {"copy", "tag", "publish"}

\* The invariant that is inductive.  A push that found room still has room
\* when it publishes, because the consumer only ever makes more; the slot
\* under construction already carries the fields written so far.
IInv ==
  /\ TypeOK
  /\ popPc = "holding" => consumer # producer
  /\ Writing => /\ QueueDepth(producer, consumer) < Capacity
                /\ QueueDepth(producer, seenConsumer) < Capacity
                /\ offer > 0
  /\ pushPc # "idle" => QueueDepth(producer, consumer)
                          <= QueueDepth(producer, seenConsumer)
  /\ pushPc # "raise" => QueueDepth(producer, consumer) <= maximumDepth
  /\ pushPc \in {"tag", "publish"} => slots[producer].bytes = offer
  /\ pushPc = "publish" => slots[producer].sequence = offer

-----------------------------------------------------------------------------
(* Arithmetic on ring indices. *)

\* The successor of a ring index, without the remainder.
LEMMA FollowingWraps ==
  \A i \in Index : Following(i) = IF i = Capacity THEN 0 ELSE i + 1
BY CapacityAssumption DEF Following, Index, SlotCount

\* The ring is full exactly when it holds Capacity packets.
LEMMA FullMeansCapacity ==
  \A p, c \in Index : /\ QueueDepth(p, c) \in 0 .. Capacity
                      /\ IsFull(p, c) <=> QueueDepth(p, c) = Capacity
BY CapacityAssumption, FollowingWraps
   DEF IsFull, QueueDepth, Index, SlotCount

\* Moving an index keeps it inside the ring.
LEMMA FollowingInIndex == \A i \in Index : Following(i) \in Index
BY CapacityAssumption, FollowingWraps DEF Index

\* Filling a slot adds one to the depth, unless the ring was full.
LEMMA DepthAfterPush ==
  \A p, c \in Index : QueueDepth(p, c) < Capacity
     => /\ QueueDepth(Following(p), c) = QueueDepth(p, c) + 1
        /\ Following(p) # c
BY CapacityAssumption, FollowingWraps DEF QueueDepth, Index, SlotCount

\* Discarding a slot takes one from the depth, unless the ring was empty.
LEMMA DepthAfterPop ==
  \A p, c \in Index : p # c
     => QueueDepth(p, Following(c)) = QueueDepth(p, c) - 1
BY CapacityAssumption, FollowingWraps DEF QueueDepth, Index, SlotCount
-----------------------------------------------------------------------------
(* The inductive invariant. *)

\* The empty ring satisfies the invariant.
LEMMA InitInvariant == Init => IInv
BY CapacityAssumption
   DEF Init, IInv, TypeOK, Slot, Unread, Index, SlotCount, Writing, QueueDepth

\* Every step of the producer keeps the invariant.
LEMMA PushInvariant == IInv /\ Push => IInv'
<1> SUFFICES ASSUME IInv, Push PROVE IInv'
  OBVIOUS
<1> USE CapacityAssumption DEF IInv, TypeOK, Slot, Writing, consumerVars
<1>0. /\ QueueDepth(producer, consumer) \in 0 .. Capacity
      /\ QueueDepth(producer, seenConsumer) \in 0 .. Capacity
  BY FullMeansCapacity
<1>1. CASE PushFull
  BY <1>1, <1>0 DEF PushFull
<1>2. CASE PushBegin
  BY <1>2, <1>0, FullMeansCapacity DEF PushBegin
<1>3. CASE PushCopy
  BY <1>3, <1>0 DEF PushCopy
<1>4. CASE PushTag
  BY <1>4, <1>0 DEF PushTag
<1>5. CASE PushPublish
  <2>1. /\ Following(producer) \in Index
        /\ QueueDepth(Following(producer), consumer)
             = QueueDepth(producer, consumer) + 1
        /\ QueueDepth(Following(producer), seenConsumer)
             = QueueDepth(producer, seenConsumer) + 1
        /\ Following(producer) # consumer
    BY <1>5, DepthAfterPush, FollowingInIndex DEF PushPublish
  <2>2. QED
    BY <1>0, <1>5, <2>1 DEF PushPublish
<1>6. CASE PushRaise
  BY <1>6, <1>0 DEF PushRaise
<1>7. QED
  BY <1>1, <1>2, <1>3, <1>4, <1>5, <1>6 DEF Push

\* Every step of the consumer keeps the invariant.
LEMMA PopInvariant == IInv /\ Pop => IInv'
<1> SUFFICES ASSUME IInv, Pop PROVE IInv'
  OBVIOUS
<1> USE CapacityAssumption DEF IInv, TypeOK, Slot, Writing, producerVars
<1>1. CASE Peek
  BY <1>1 DEF Peek, Unread
<1>2. CASE ReadBytes
  BY <1>2 DEF ReadBytes
<1>3. CASE ReadTag
  BY <1>3 DEF ReadTag
<1>4. CASE Discard
  <2>1. /\ Following(consumer) \in Index
        /\ QueueDepth(producer, Following(consumer))
             = QueueDepth(producer, consumer) - 1
    BY <1>4, DepthAfterPop, FollowingInIndex DEF Discard
  <2>2. /\ QueueDepth(producer, consumer) \in 0 .. Capacity
        /\ QueueDepth(producer, seenConsumer) \in 0 .. Capacity
    BY FullMeansCapacity
  <2>3. QED
    BY <1>4, <2>1, <2>2 DEF Discard
<1>5. CASE LeaveQueued
  BY <1>5 DEF LeaveQueued
<1>6. QED
  BY <1>1, <1>2, <1>3, <1>4, <1>5 DEF Pop

\* Every step keeps the invariant.
LEMMA NextInvariant == IInv /\ [Next]_vars => IInv'
<1>1. IInv /\ UNCHANGED vars => IInv'
  BY DEF IInv, TypeOK, Writing, vars
<1>2. QED
  BY <1>1, PushInvariant, PopInvariant DEF Next

\* The invariant holds in every reachable state.
LEMMA Invariance == Spec => []IInv
BY InitInvariant, NextInvariant, PTL DEF Spec

-----------------------------------------------------------------------------
(* What follows from it. *)

\* The type invariant, for every capacity.
THEOREM TypeCorrect == Spec => []TypeOK
<1>1. IInv => TypeOK
  BY DEF IInv
<1>2. QED
  BY <1>1, Invariance, PTL

\* Producer and consumer never touch the same slot: the transmit worker may
\* read a peeked packet for as long as it likes.
THEOREM NoSharedSlotCorrect == Spec => []NoSharedSlot
<1>1. IInv => NoSharedSlot
  BY DEF IInv, NoSharedSlot
<1>2. QED
  BY <1>1, Invariance, PTL

\* The high-water mark covers the real depth although it is computed from a
\* stale consumer index.
THEOREM MaximumCorrect == Spec => []MaximumCoversDepth
<1>1. IInv => MaximumCoversDepth
  BY DEF IInv, MaximumCoversDepth
<1>2. QED
  BY <1>1, Invariance, PTL

-----------------------------------------------------------------------------
(* Refinement: the ring implements BoundedFifo. *)

\* The occupied slots as a sequence: their number, their places, and that the
\* free slot at the producer index is not one of them.
LEMMA ContentsProperties ==
  ASSUME NEW ring \in [Index -> Slot], NEW p \in Index, NEW c \in Index
  PROVE  /\ ContentsOf(ring, p, c) \in Seq(Slot)
         /\ Len(ContentsOf(ring, p, c)) = QueueDepth(p, c)
         /\ \A k \in 1 .. QueueDepth(p, c) :
              /\ At(c, k - 1) \in Index
              /\ At(c, k - 1) # p
              /\ ContentsOf(ring, p, c)[k] = ring[At(c, k - 1)]
<1>1. QueueDepth(p, c) \in Nat
  BY FullMeansCapacity
<1>2. \A k \in 1 .. QueueDepth(p, c) : /\ At(c, k - 1) \in Index
                                      /\ At(c, k - 1) # p
  BY SMTT(30), CapacityAssumption DEF At, QueueDepth, Index, SlotCount
<1>3. QED
  BY <1>1, <1>2 DEF ContentsOf

\* Filling the free slot and moving the producer appends to the contents.
LEMMA PushAppends ==
  ASSUME NEW ring \in [Index -> Slot], NEW p \in Index, NEW c \in Index,
         QueueDepth(p, c) < Capacity
  PROVE  ContentsOf(ring, Following(p), c)
           = Append(ContentsOf(ring, p, c), ring[p])
<1> DEFINE before == ContentsOf(ring, p, c)
           after == ContentsOf(ring, Following(p), c)
           appended == Append(before, ring[p])
<1>1. /\ Following(p) \in Index
      /\ QueueDepth(p, c) \in Nat
      /\ QueueDepth(Following(p), c) = QueueDepth(p, c) + 1
  BY FullMeansCapacity, FollowingInIndex, DepthAfterPush
<1>2. /\ before \in Seq(Slot)
      /\ Len(before) = QueueDepth(p, c)
      /\ \A k \in 1 .. QueueDepth(p, c) : before[k] = ring[At(c, k - 1)]
  BY ContentsProperties
<1>3. /\ after \in Seq(Slot)
      /\ Len(after) = QueueDepth(p, c) + 1
      /\ \A k \in 1 .. QueueDepth(p, c) + 1 : after[k] = ring[At(c, k - 1)]
  <2>1. /\ after \in Seq(Slot)
        /\ Len(after) = QueueDepth(Following(p), c)
        /\ \A k \in 1 .. QueueDepth(Following(p), c) :
             after[k] = ring[At(c, k - 1)]
    <3>1. \A q \in Index :
            /\ ContentsOf(ring, q, c) \in Seq(Slot)
            /\ Len(ContentsOf(ring, q, c)) = QueueDepth(q, c)
            /\ \A k \in 1 .. QueueDepth(q, c) :
                 ContentsOf(ring, q, c)[k] = ring[At(c, k - 1)]
      BY ContentsProperties
    <3>2. QED
      BY <1>1, <3>1
  <2>2. QED
    BY <1>1, <2>1
<1>4. At(c, QueueDepth(p, c)) = p
  BY SMTT(30), CapacityAssumption DEF At, QueueDepth, Index, SlotCount
<1>5. /\ appended \in Seq(Slot)
      /\ Len(appended) = QueueDepth(p, c) + 1
      /\ \A k \in 1 .. QueueDepth(p, c) : appended[k] = before[k]
      /\ appended[QueueDepth(p, c) + 1] = ring[p]
  <2>1. ring[p] \in Slot
    OBVIOUS
  <2>2. QED
    BY <1>2, <2>1, AppendProperties
<1>6. \A k \in 1 .. Len(after) : after[k] = appended[k]
  BY <1>1, <1>2, <1>3, <1>4, <1>5
<1>7. QED
  BY <1>3, <1>5, <1>6, SeqEqual

\* Moving the consumer over an occupied slot takes the tail of the contents.
LEMMA PopTakesTail ==
  ASSUME NEW ring \in [Index -> Slot], NEW p \in Index, NEW c \in Index, p # c
  PROVE  /\ ContentsOf(ring, p, c) # << >>
         /\ ContentsOf(ring, p, Following(c)) = Tail(ContentsOf(ring, p, c))
<1> DEFINE before == ContentsOf(ring, p, c)
           after == ContentsOf(ring, p, Following(c))
<1>1. /\ Following(c) \in Index
      /\ QueueDepth(p, c) \in Nat \ {0}
      /\ QueueDepth(p, Following(c)) = QueueDepth(p, c) - 1
  <2>1. QueueDepth(p, c) # 0
    BY CapacityAssumption DEF QueueDepth, Index, SlotCount
  <2>2. QED
    BY <2>1, FullMeansCapacity, FollowingInIndex, DepthAfterPop
<1>2. /\ before \in Seq(Slot)
      /\ Len(before) = QueueDepth(p, c)
      /\ \A k \in 1 .. QueueDepth(p, c) : before[k] = ring[At(c, k - 1)]
  BY ContentsProperties
<1>3. /\ after \in Seq(Slot)
      /\ Len(after) = QueueDepth(p, c) - 1
      /\ \A k \in 1 .. QueueDepth(p, c) - 1 :
           after[k] = ring[At(Following(c), k - 1)]
  <2>1. Following(c) \in Index
    BY <1>1
  <2>2. /\ after \in Seq(Slot)
        /\ Len(after) = QueueDepth(p, Following(c))
        /\ \A k \in 1 .. QueueDepth(p, Following(c)) :
             after[k] = ring[At(Following(c), k - 1)]
    BY <2>1, ContentsProperties
  <2> HIDE DEF after
  <2>3. QED
    BY <1>1, <2>2
<1>4. \A k \in 1 .. QueueDepth(p, c) - 1 :
        At(Following(c), k - 1) = At(c, (k + 1) - 1)
  BY SMTT(30), CapacityAssumption, FollowingWraps DEF At, QueueDepth, Index, SlotCount
<1>5. before # << >>
  BY <1>1, <1>2, EmptySeq
<1>6. /\ Tail(before) \in Seq(Slot)
      /\ Len(Tail(before)) = QueueDepth(p, c) - 1
      /\ \A k \in 1 .. QueueDepth(p, c) - 1 : Tail(before)[k] = before[k + 1]
  BY <1>2, <1>5, HeadTailProperties
<1>7. \A k \in 1 .. Len(after) : after[k] = Tail(before)[k]
  BY <1>1, <1>2, <1>3, <1>4, <1>6
<1>8. QED
  BY <1>3, <1>5, <1>6, <1>7, SeqEqual

\* Writing the free slot leaves the contents alone.
LEMMA WriteLeavesContents ==
  ASSUME NEW ring \in [Index -> Slot], NEW p \in Index, NEW c \in Index,
         NEW written \in [Index -> Slot],
         \A i \in Index \ {p} : written[i] = ring[i]
  PROVE  ContentsOf(written, p, c) = ContentsOf(ring, p, c)
<1>1. QueueDepth(p, c) \in Nat
  BY FullMeansCapacity
<1>2. \A k \in 1 .. QueueDepth(p, c) :
        written[At(c, k - 1)] = ring[At(c, k - 1)]
  BY ContentsProperties
<1>3. QED
  BY <1>1, <1>2 DEF ContentsOf

\* A step of the producer is an Enqueue, a Lose or a stutter of the queue.
LEMMA PushRefines == IInv /\ Push => [Fifo!Next]_(Fifo!fifoVars)
<1> SUFFICES ASSUME IInv, Push PROVE [Fifo!Next]_(Fifo!fifoVars)
  OBVIOUS
<1> USE DEF IInv, TypeOK, consumerVars
<1>0. /\ Contents \in Seq(Slot)
      /\ Len(Contents) = QueueDepth(producer, consumer)
  BY ContentsProperties DEF Contents
<1>1. CASE PushFull
  <2>1. Len(Contents) = Capacity
    BY <1>0, <1>1, FullMeansCapacity DEF PushFull
  <2>2. Contents' = Contents
    BY <1>1 DEF PushFull, Contents
  <2>3. QED
    BY <1>1, <2>1, <2>2 DEF PushFull, InProgress, Fifo!Next, Fifo!Lose
<1>2. CASE PushBegin
  BY <1>2 DEF PushBegin, InProgress, Contents, Fifo!fifoVars
<1>3. CASE PushCopy
  <2>1. /\ slots' \in [Index -> Slot]
        /\ \A i \in Index \ {producer} : slots'[i] = slots[i]
        /\ producer' = producer
        /\ consumer' = consumer
    BY <1>3 DEF PushCopy, Slot
  <2>2. ContentsOf(slots', producer, consumer)
          = ContentsOf(slots, producer, consumer)
    BY <2>1, WriteLeavesContents
  <2>3. Contents' = Contents
    BY <2>1, <2>2 DEF Contents
  <2>4. QED
    BY <1>3, <2>3 DEF PushCopy, InProgress, Fifo!fifoVars
<1>4. CASE PushTag
  <2>1. /\ slots' \in [Index -> Slot]
        /\ \A i \in Index \ {producer} : slots'[i] = slots[i]
        /\ producer' = producer
        /\ consumer' = consumer
    BY <1>4 DEF PushTag, Slot
  <2>2. ContentsOf(slots', producer, consumer)
          = ContentsOf(slots, producer, consumer)
    BY <2>1, WriteLeavesContents
  <2>3. Contents' = Contents
    BY <2>1, <2>2 DEF Contents
  <2>4. QED
    BY <1>4, <2>3 DEF PushTag, InProgress, Fifo!fifoVars
<1>5. CASE PushPublish
  <2>1. QueueDepth(producer, consumer) < Capacity
    BY <1>5 DEF PushPublish, Writing
  <2>2. slots[producer] = Fifo!Whole(offer)
    BY <1>5 DEF PushPublish, Fifo!Whole, Slot
  <2>3. Contents' = Append(Contents, Fifo!Whole(offer))
    BY <1>5, <2>1, <2>2, PushAppends DEF PushPublish, Contents
  <2>4. /\ InProgress = 1
        /\ InProgress' = 0
        /\ offer' = offer
        /\ dropped' = dropped
    BY <1>5 DEF PushPublish, InProgress
  <2>5. (offer - InProgress) + 1 = offer /\ offer' - InProgress' = offer
    BY <2>4
  <2>6. Fifo!Enqueue
    BY <1>0, <2>1, <2>3, <2>4, <2>5 DEF Fifo!Enqueue
  <2>7. QED
    BY <2>6 DEF Fifo!Next
<1>6. CASE PushRaise
  BY <1>6 DEF PushRaise, InProgress, Contents, Fifo!fifoVars
<1>7. QED
  BY <1>1, <1>2, <1>3, <1>4, <1>5, <1>6 DEF Push

\* A step of the consumer is a Dequeue or a stutter of the queue.
LEMMA PopRefines == IInv /\ Pop => [Fifo!Next]_(Fifo!fifoVars)
<1> SUFFICES ASSUME IInv, Pop PROVE [Fifo!Next]_(Fifo!fifoVars)
  OBVIOUS
<1> USE DEF IInv, TypeOK, producerVars
<1>1. CASE Discard
  <2>1. /\ Contents # << >>
        /\ Contents' = Tail(Contents)
    BY <1>1, PopTakesTail DEF Discard, Contents
  <2>2. QED
    BY <1>1, <2>1 DEF Discard, InProgress, Fifo!Next, Fifo!Dequeue
<1>2. CASE Peek \/ ReadBytes \/ ReadTag \/ LeaveQueued
  BY <1>2 DEF Peek, ReadBytes, ReadTag, LeaveQueued, InProgress, Contents,
              Fifo!fifoVars
<1>3. QED
  BY <1>1, <1>2 DEF Pop

\* The ring of packet_queue.c, decode_queue.c and audio_ring.c implements the
\* bounded FIFO: accepted packets come out whole, in order and once, and a
\* packet is refused only when the ring is full.
THEOREM RingImplementsFifo == Spec => ImplementsFifo
<1>1. Init => Fifo!Init
  <2> SUFFICES ASSUME Init PROVE Fifo!Init
    OBVIOUS
  <2>1. slots \in [Index -> Slot] /\ producer \in Index /\ consumer \in Index
    BY CapacityAssumption DEF Init, Index, Slot, Unread
  <2>2. QueueDepth(producer, consumer) = 0
    BY DEF Init, QueueDepth
  <2>3. Contents \in Seq(Slot) /\ Len(Contents) = 0
    BY <2>1, <2>2, ContentsProperties DEF Contents
  <2>4. Contents = << >>
    BY <2>3, EmptySeq
  <2>5. offer = 0 /\ InProgress = 0 /\ dropped = 0
    BY DEF Init, InProgress
  <2>6. offer - InProgress = 0
    BY <2>5
  <2>7. QED
    BY <2>4, <2>5, <2>6 DEF Fifo!Init
<1>2. IInv /\ [Next]_vars => [Fifo!Next]_(Fifo!fifoVars)
  <2>1. UNCHANGED vars => UNCHANGED Fifo!fifoVars
    BY DEF vars, Fifo!fifoVars, InProgress, Contents
  <2>2. QED
    BY <2>1, PushRefines, PopRefines DEF Next
<1>3. QED
  BY <1>1, <1>2, Invariance, PTL DEF Spec, ImplementsFifo, Fifo!Spec

-----------------------------------------------------------------------------
(* What the reader of a peeked slot sees. *)

WholeContents ==
  \A k \in 1 .. QueueDepth(producer, consumer) :
    /\ Contents[k].bytes = Contents[k].sequence
    /\ Contents[k].bytes # 0

ReadMatchesSlot ==
  popPc = "holding" => /\ got.bytes \in {0, slots[consumer].bytes}
                       /\ got.sequence \in {0, slots[consumer].sequence}

HeldInv == IInv /\ WholeContents /\ ReadMatchesSlot

\* The oldest packet sits at the consumer index.
LEMMA OldestAtConsumer ==
  ASSUME TypeOK, consumer # producer
  PROVE  /\ QueueDepth(producer, consumer) \in Nat \ {0}
         /\ Contents[1] = slots[consumer]
<1>1. QueueDepth(producer, consumer) \in Nat \ {0}
  <2>1. QueueDepth(producer, consumer) # 0
    BY CapacityAssumption DEF TypeOK, QueueDepth, Index, SlotCount
  <2>2. QED
    BY <2>1, FullMeansCapacity DEF TypeOK
<1>2. At(consumer, 1 - 1) = consumer
  BY CapacityAssumption DEF TypeOK, At, Index, SlotCount
<1>3. 1 \in 1 .. QueueDepth(producer, consumer)
  BY <1>1
<1>4. Contents[1] = slots[At(consumer, 1 - 1)]
  BY <1>3, ContentsProperties DEF TypeOK, Contents
<1>5. QED
  BY <1>1, <1>2, <1>4

\* Published packets stay whole.
LEMMA WholeStep == HeldInv /\ [Next]_vars => WholeContents'
<1> SUFFICES ASSUME HeldInv, [Next]_vars PROVE WholeContents'
  OBVIOUS
<1> USE DEF HeldInv, IInv, TypeOK, producerVars, consumerVars
<1>0. /\ Contents \in Seq(Slot)
      /\ Len(Contents) = QueueDepth(producer, consumer)
      /\ QueueDepth(producer, consumer) \in Nat
  BY ContentsProperties, FullMeansCapacity DEF Contents
<1>1. CASE PushCopy \/ PushTag
  <2>1. Contents' = Contents
    BY <1>1, WriteLeavesContents DEF PushCopy, PushTag, Contents, Slot
  <2>2. QED
    BY <1>1, <2>1 DEF PushCopy, PushTag, WholeContents
<1>2. CASE PushPublish
  <2>1. QueueDepth(producer, consumer) < Capacity
    BY <1>2 DEF PushPublish, Writing
  <2>2. /\ slots[producer] \in Slot
        /\ slots[producer].bytes = slots[producer].sequence
        /\ slots[producer].bytes # 0
    BY <1>2 DEF PushPublish, Writing, Slot
  <2>3. Contents' = Append(Contents, slots[producer])
    BY <1>2, <2>1, PushAppends DEF PushPublish, Contents
  <2>4. QueueDepth(producer, consumer)' = QueueDepth(producer, consumer) + 1
    BY <1>2, <2>1, DepthAfterPush DEF PushPublish
  <2>5. /\ \A k \in 1 .. QueueDepth(producer, consumer) :
             Contents'[k] = Contents[k]
        /\ Contents'[QueueDepth(producer, consumer) + 1] = slots[producer]
    BY <1>0, <2>2, <2>3, AppendProperties
  <2>6. QED
    BY <1>0, <2>2, <2>4, <2>5 DEF WholeContents
<1>3. CASE Discard
  <2>1. /\ Contents # << >>
        /\ Contents' = Tail(Contents)
    BY <1>3, PopTakesTail DEF Discard, Contents
  <2>2. QueueDepth(producer, consumer)' = QueueDepth(producer, consumer) - 1
    BY <1>3, DepthAfterPop DEF Discard
  <2>3. \A k \in 1 .. QueueDepth(producer, consumer) - 1 :
          Contents'[k] = Contents[k + 1]
    BY <1>0, <2>1, HeadTailProperties
  <2>4. QED
    BY <1>0, <2>2, <2>3 DEF WholeContents
<1>4. CASE UNCHANGED <<slots, producer, consumer>>
  BY <1>4 DEF WholeContents, Contents
<1>5. QED
  BY <1>1, <1>2, <1>3, <1>4
     DEF Next, Push, Pop, PushFull, PushBegin, PushRaise, Peek, ReadBytes,
         ReadTag, LeaveQueued, vars

\* The slot under a reader does not change, so neither does what it read.
LEMMA ReadStep == HeldInv /\ [Next]_vars => ReadMatchesSlot'
<1> SUFFICES ASSUME HeldInv, [Next]_vars, popPc' = "holding"
             PROVE  ReadMatchesSlot'
  BY DEF ReadMatchesSlot
<1> USE DEF HeldInv, IInv, TypeOK, Slot, producerVars, consumerVars,
            ReadMatchesSlot
<1>1. CASE PushCopy \/ PushTag
  BY <1>1 DEF PushCopy, PushTag
<1>2. CASE ReadBytes \/ ReadTag
  BY <1>2 DEF ReadBytes, ReadTag
<1>3. CASE Peek
  BY <1>3 DEF Peek, Unread
<1>4. CASE UNCHANGED <<slots, consumer, popPc, got>>
  BY <1>4
<1>5. QED
  BY <1>1, <1>2, <1>3, <1>4
     DEF Next, Push, Pop, PushFull, PushBegin, PushPublish, PushRaise,
         Discard, LeaveQueued, vars

\* A peeked packet is stable under its reader: rtnc_packet_queue_peek hands
\* out a pointer that transmit_next reads for every fragment while the main
\* thread keeps pushing.
THEOREM HeldPacketCorrect == Spec => HeldPacketIsStable
<1>1. Init => HeldInv
  <2> SUFFICES ASSUME Init PROVE HeldInv
    OBVIOUS
  <2>1. QueueDepth(producer, consumer) = 0
    BY DEF Init, QueueDepth
  <2>2. QED
    BY <2>1, InitInvariant DEF Init, HeldInv, WholeContents, ReadMatchesSlot
<1>2. HeldInv /\ [Next]_vars => HeldInv'
  BY NextInvariant, WholeStep, ReadStep DEF HeldInv
<1>3. HeldInv /\ HeldInv' /\ [Next]_vars =>
        [ (popPc = "holding" /\ popPc' = "holding" /\ got # Unread)
            => /\ got.bytes # 0 => got'.bytes = got.bytes
               /\ got.sequence # 0 => got'.sequence = got.sequence
               /\ (got'.bytes # 0 /\ got'.sequence # 0)
                    => got'.bytes = got'.sequence ]_vars
  <2> SUFFICES ASSUME HeldInv, HeldInv', [Next]_vars,
                      popPc = "holding", popPc' = "holding"
               PROVE  /\ got.bytes # 0 => got'.bytes = got.bytes
                      /\ got.sequence # 0 => got'.sequence = got.sequence
                      /\ (got'.bytes # 0 /\ got'.sequence # 0)
                           => got'.bytes = got'.sequence
    OBVIOUS
  <2>1. consumer' = consumer /\ slots'[consumer] = slots[consumer]
    BY DEF HeldInv, IInv, TypeOK, Slot, Next, Push, Pop, PushFull, PushBegin,
           PushCopy, PushTag, PushPublish, PushRaise, Peek, ReadBytes, ReadTag,
           Discard, LeaveQueued, vars, consumerVars
  <2>2. consumer # producer /\ TypeOK
    BY DEF HeldInv, IInv
  <2>3. slots[consumer].bytes = slots[consumer].sequence
    BY <2>2, OldestAtConsumer DEF HeldInv, WholeContents
  <2>4. /\ got.bytes \in {0, slots[consumer].bytes}
        /\ got.sequence \in {0, slots[consumer].sequence}
        /\ got'.bytes \in {0, slots[consumer].bytes}
        /\ got'.sequence \in {0, slots[consumer].sequence}
    BY <2>1 DEF HeldInv, ReadMatchesSlot
  <2>5. (got.bytes # 0 => got'.bytes # 0) /\ (got.sequence # 0 => got'.sequence # 0)
    <3>1. slots[consumer].bytes # 0
      BY <2>2, OldestAtConsumer DEF HeldInv, WholeContents
    <3>2. QED
      BY <2>3, <3>1
         DEF HeldInv, IInv, TypeOK, Slot, Next, Push, Pop, PushFull, PushBegin,
             PushCopy, PushTag, PushPublish, PushRaise, Peek, ReadBytes,
             ReadTag, Discard, LeaveQueued, vars, consumerVars
  <2>6. QED
    BY <2>3, <2>4, <2>5
<1>4. QED
  BY <1>1, <1>2, <1>3, PTL DEF Spec, HeldPacketIsStable
=============================================================================
