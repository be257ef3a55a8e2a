---------------------------- MODULE BoundedFifo ----------------------------
(***************************************************************************)
(* What a single-producer/single-consumer ring of the modem promises to    *)
(* its two threads: a bounded first-in-first-out queue.  Offers are        *)
(* numbered in the order the producer makes them; each one is either       *)
(* enqueued whole or counted as lost, and it is lost only when the queue   *)
(* holds Capacity packets.                                                 *)
(***************************************************************************)
EXTENDS Naturals, Sequences

CONSTANT Capacity

VARIABLES
  fifo,      \* the packets a consumer can still take, oldest first
  decided,   \* number of offers that were enqueued or lost
  lost       \* number of offers that were lost

fifoVars == <<fifo, decided, lost>>

(***************************************************************************)
(* A packet as the consumer sees it: its bytes and its sequence number.    *)
(* Both are named by the number of the offer they came from, so a packet   *)
(* put together from two offers is visible as one.                         *)
(***************************************************************************)
Whole(offer) == [bytes |-> offer, sequence |-> offer]

Init ==
  /\ fifo = << >>
  /\ decided = 0
  /\ lost = 0

Enqueue ==
  /\ Len(fifo) < Capacity
  /\ fifo' = Append(fifo, Whole(decided + 1))
  /\ decided' = decided + 1
  /\ UNCHANGED lost

Lose ==
  /\ Len(fifo) = Capacity
  /\ decided' = decided + 1
  /\ lost' = lost + 1
  /\ UNCHANGED fifo

Dequeue ==
  /\ fifo # << >>
  /\ fifo' = Tail(fifo)
  /\ UNCHANGED <<decided, lost>>

Next == Enqueue \/ Lose \/ Dequeue

Spec == Init /\ [][Next]_fifoVars
=============================================================================
