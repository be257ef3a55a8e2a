----------------------------- MODULE SpscQueue -----------------------------
(***************************************************************************)
(* The single-producer/single-consumer ring that carries packets between   *)
(* threads of the modem, one step per access to shared memory.             *)
(*                                                                         *)
(* The same algorithm is written three times: packet_queue.c (KISS packets *)
(* to the transmit worker, reassembled packets to the service),            *)
(* decode_queue.c (audio candidates to a decoder thread) and audio_ring.c  *)
(* (captured blocks to the service).  The packet queue is the one that     *)
(* also hands out a pointer into the ring (peek) which the transmit worker *)
(* reads during the whole transmission before it discards the slot.        *)
(*                                                                         *)
(* Steps interleave in one global order: the acquire/release pairs of the  *)
(* code order exactly the accesses that are separate steps here.           *)
(***************************************************************************)
EXTENDS Naturals, Sequences

CONSTANTS
  Capacity,     \* packets the queue may hold; the ring has one slot more
  MaxOffers     \* bound of the model: packets the producer ever offers

ASSUME CapacityAssumption == Capacity \in Nat \ {0}
ASSUME MaxOffersAssumption == MaxOffers \in Nat

VARIABLES
  slots,          \* the ring; a slot's fields are named by offer, 0 = memset
  producer,       \* index of the slot the producer fills next
  consumer,       \* index of the oldest slot not yet discarded
  maximumDepth,   \* high-water mark
  dropped,        \* packets refused because the ring was full
  pushPc,         \* where the producer thread is in its push
  offer,          \* number of the packet being pushed, or pushed last
  seenConsumer,   \* consumer as the current push loaded it
  popPc,          \* where the consumer thread is between peek and discard
  got             \* the fields of the held packet read so far

vars == <<slots, producer, consumer, maximumDepth, dropped,
          pushPc, offer, seenConsumer, popPc, got>>

producerVars == <<producer, maximumDepth, dropped, pushPc, offer, seenConsumer>>
consumerVars == <<consumer, popPc, got>>

\* Mutant: the ring has no spare slot, so it is full one packet early.
NoSpareSlot == Capacity

SlotCount == Capacity + 1
Index == 0 .. Capacity

Following(i) == (i + 1) % SlotCount

QueueDepth(p, c) == IF p >= c THEN p - c ELSE SlotCount - c + p

\* Mutant: push does not look for room.
NeverFull(p, c) == FALSE

IsFull(p, c) == Following(p) = c

Unread == [bytes |-> 0, sequence |-> 0]

Init ==
  /\ slots = [i \in Index |-> Unread]
  /\ producer = 0
  /\ consumer = 0
  /\ maximumDepth = 0
  /\ dropped = 0
  /\ pushPc = "idle"
  /\ offer = 0
  /\ seenConsumer = 0
  /\ popPc = "idle"
  /\ got = Unread

-----------------------------------------------------------------------------
(* The producer: one push. *)

\* Load consumer; the ring looks full: count the packet and return false.
PushFull ==
  /\ pushPc = "idle"
  /\ offer < MaxOffers
  /\ IsFull(producer, consumer)
  /\ offer' = offer + 1
  /\ seenConsumer' = consumer
  /\ dropped' = dropped + 1
  /\ UNCHANGED <<slots, producer, maximumDepth, pushPc>>
  /\ UNCHANGED consumerVars

\* Load consumer; there is room.  The consumer may move before the next steps.
PushBegin ==
  /\ pushPc = "idle"
  /\ offer < MaxOffers
  /\ ~IsFull(producer, consumer)
  /\ offer' = offer + 1
  /\ seenConsumer' = consumer
  /\ pushPc' = "copy"
  /\ UNCHANGED <<slots, producer, maximumDepth, dropped>>
  /\ UNCHANGED consumerVars

\* memcpy of the packet into the free slot.
PushCopy ==
  /\ pushPc = "copy"
  /\ slots' = [slots EXCEPT ![producer].bytes = offer]
  /\ pushPc' = "tag"
  /\ UNCHANGED <<producer, maximumDepth, dropped, offer, seenConsumer>>
  /\ UNCHANGED consumerVars

\* Length and sequence number of the slot.
PushTag ==
  /\ pushPc = "tag"
  /\ slots' = [slots EXCEPT ![producer].sequence = offer]
  /\ pushPc' = "publish"
  /\ UNCHANGED <<producer, maximumDepth, dropped, offer, seenConsumer>>
  /\ UNCHANGED consumerVars

\* Release-store of the producer index: the packet becomes visible.
PushPublish ==
  /\ pushPc = "publish"
  /\ producer' = Following(producer)
  /\ pushPc' = "raise"
  /\ UNCHANGED <<slots, maximumDepth, dropped, offer, seenConsumer>>
  /\ UNCHANGED consumerVars

\* Mutant: the depth before this packet is recorded.
PushRaiseEarlier ==
  /\ pushPc = "raise"
  /\ LET depth == QueueDepth(producer, seenConsumer) - 1
     IN maximumDepth' = IF depth > maximumDepth THEN depth ELSE maximumDepth
  /\ pushPc' = "idle"
  /\ UNCHANGED <<slots, producer, dropped, offer, seenConsumer>>
  /\ UNCHANGED consumerVars

\* Raise the high-water mark to the depth computed from the loaded consumer.
\* Only the producer writes maximum_depth, so its CAS loop is one step.
PushRaise ==
  /\ pushPc = "raise"
  /\ LET depth == QueueDepth(producer, seenConsumer)
     IN maximumDepth' = IF depth > maximumDepth THEN depth ELSE maximumDepth
  /\ pushPc' = "idle"
  /\ UNCHANGED <<slots, producer, dropped, offer, seenConsumer>>
  /\ UNCHANGED consumerVars

Push == PushFull \/ PushBegin \/ PushCopy \/ PushTag \/ PushPublish \/ PushRaise

-----------------------------------------------------------------------------
(* The consumer: peek, read in place, then discard or come back later. *)

\* Load producer; on an empty ring peek returns false and changes nothing.
Peek ==
  /\ popPc = "idle"
  /\ consumer # producer
  /\ popPc' = "holding"
  /\ got' = Unread
  /\ UNCHANGED <<slots, consumer>>
  /\ UNCHANGED producerVars

\* Reads through the peeked pointer; a transmission reads them many times.
ReadBytes ==
  /\ popPc = "holding"
  /\ got' = [got EXCEPT !.bytes = slots[consumer].bytes]
  /\ UNCHANGED <<slots, consumer, popPc>>
  /\ UNCHANGED producerVars

ReadTag ==
  /\ popPc = "holding"
  /\ got' = [got EXCEPT !.sequence = slots[consumer].sequence]
  /\ UNCHANGED <<slots, consumer, popPc>>
  /\ UNCHANGED producerVars

\* Release-store of the consumer index: the slot goes back to the producer.
\* The transmit worker also discards packets it gave up on without reading.
Discard ==
  /\ popPc = "holding"
  /\ consumer # producer
  /\ consumer' = Following(consumer)
  /\ popPc' = "idle"
  /\ UNCHANGED <<slots, got>>
  /\ UNCHANGED producerVars

\* The caller leaves the packet in the ring (transmit_next returning BUSY).
LeaveQueued ==
  /\ popPc = "holding"
  /\ popPc' = "idle"
  /\ UNCHANGED <<slots, consumer, got>>
  /\ UNCHANGED producerVars

Pop == Peek \/ ReadBytes \/ ReadTag \/ Discard \/ LeaveQueued

Next == Push \/ Pop

Spec == Init /\ [][Next]_vars

-----------------------------------------------------------------------------
Slot == [bytes : Nat, sequence : Nat]

\* Type invariant of the ring and of both threads' local state
\* (packet_queue.c, rtnc_packet_queue_t).
TypeOK ==
  /\ slots \in [Index -> Slot]
  /\ producer \in Index
  /\ consumer \in Index
  /\ maximumDepth \in 0 .. Capacity
  /\ dropped \in Nat
  /\ pushPc \in {"idle", "copy", "tag", "publish", "raise"}
  /\ offer \in Nat
  /\ seenConsumer \in Index
  /\ popPc \in {"idle", "holding"}
  /\ got \in Slot

\* Whoever is ahead, the slot being written is never the slot being read:
\* rtnc_packet_queue_push fills slots[producer] while the transmit worker
\* still reads slots[consumer] through the pointer peek gave it.
NoSharedSlot ==
  (pushPc \in {"copy", "tag", "publish"} /\ popPc = "holding")
    => producer # consumer

\* The two fields read through a peeked pointer belong to one packet and do
\* not change under the reader, however long it holds the pointer: once read,
\* a field keeps its value until the packet is discarded (packet_queue.c peek;
\* runtime.c reads packet->bytes for every fragment).
HeldPacketIsStable ==
  [][ (popPc = "holding" /\ popPc' = "holding" /\ got # Unread)
        => /\ got.bytes # 0 => got'.bytes = got.bytes
           /\ got.sequence # 0 => got'.sequence = got.sequence
           /\ (got'.bytes # 0 /\ got'.sequence # 0)
                => got'.bytes = got'.sequence ]_vars

\* The high-water mark never misses a depth the ring really had, although it
\* is computed from a consumer index loaded before the packet was written
\* (packet_queue.c, the CAS loop at the end of push).
MaximumCoversDepth ==
  pushPc # "raise" => QueueDepth(producer, consumer) <= maximumDepth

(***************************************************************************)
(* The packets in the ring, oldest first, read off the real slots.         *)
(***************************************************************************)
At(c, k) == IF c + k < SlotCount THEN c + k ELSE c + k - SlotCount

ContentsOf(ring, p, c) == [k \in 1 .. QueueDepth(p, c) |-> ring[At(c, k - 1)]]

Contents == ContentsOf(slots, producer, consumer)

InProgress == IF pushPc \in {"copy", "tag", "publish"} THEN 1 ELSE 0

Fifo == INSTANCE BoundedFifo WITH
          fifo <- Contents,
          decided <- offer - InProgress,
          lost <- dropped

\* The ring implements the bounded FIFO: every accepted packet comes out
\* whole and in order, and a packet is dropped only when the ring is full.
ImplementsFifo == Fifo!Spec
=============================================================================
