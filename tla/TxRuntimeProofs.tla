--------------------------- MODULE TxRuntimeProofs ---------------------------
(***************************************************************************)
(* Proofs about TxRuntime for every queue capacity, timeout and packet     *)
(* length: type correctness, the receive path shut while the radio is      *)
(* keyed, outcomes in order, whole packets under one keying, and timeouts  *)
(* that are the packet's own.                                              *)
(***************************************************************************)
EXTENDS TxRuntime, TLAPS

Outcome == [id : 1 .. MaxPackets, status : {"OK", "TX_FAILED", "TX_TIMEOUT"}]
AiredFrame == [id : 1 .. MaxPackets, index : Nat, keyed : BOOLEAN]

OnAir == {"frames", "drain", "release", "guard"}

\* The histories have their types too.
HistoryTypeOK ==
  /\ outcomes \in Seq(Outcome)
  /\ aired \in Seq(AiredFrame)

\* The state follows the worker, and the line is keyed from KeyPtt to
\* ReleasePtt and at no other time, unless its last release failed.
LineInv ==
  /\ workerPc \in {"poll", "idle", "nap", "timeout", "trial", "exited"}
       => state \in {"RX_IDLE", "TX_WAIT_BUSY"}
  /\ workerPc = "key" => state = "TX_KEYING"
  /\ workerPc = "frames" => state \in {"TX_KEYING", "TX_ACTIVE"}
  /\ workerPc \in {"drain", "release"} => state = "TX_TAIL"
  /\ workerPc = "guard" => state \in {"TX_TAIL", "RX_GUARD"}
  /\ workerPc \in {"frames", "drain", "release"} => ptt
  /\ ptt => workerPc \in {"frames", "drain", "release"} \/ releaseFailed

\* What is on the air so far is the head of the queue, frame by frame.
AiredInv ==
  /\ workerPc \in OnAir =>
       /\ Len(aired) <= Head(txQueue).fragments
       /\ \A k \in 1 .. Len(aired) :
            aired[k] = [id |-> Head(txQueue).id, index |-> k - 1,
                        keyed |-> TRUE]
  /\ (workerPc \in OnAir \ {"frames"} /\ success)
       => Len(aired) = Head(txQueue).fragments

\* The busy timer is never older than the time the channel was not found free,
\* and is stopped unless the channel was busy at the last poll.
TimerInv ==
  /\ busyAge <= blocked
  /\ workerPc \in OnAir \union {"trial", "key", "idle"} => busyAge = NotTiming
  /\ workerPc = "timeout" => busyAge = BusyTimeout

\* Without a free poll a packet waits no longer than its timer, which a nap may
\* have preceded and another may overrun; before its first poll it has not
\* waited at all.
BlockedInv ==
  /\ blocked < WaitBound
  /\ busyAge = NotTiming => blocked <= MaxNap
  /\ busyAge = NotTiming /\ workerPc \in {"nap", "trial"} => blocked = 0
  /\ busyAge \in 0 .. BusyTimeout - 1 => blocked <= busyAge + MaxNap
  /\ workerPc = "nap" => busyAge < BusyTimeout /\ txQueue # << >>
  /\ txQueue = << >> => blocked = 0

IInv ==
  /\ TypeOK
  /\ HistoryTypeOK
  /\ OutcomesInOrder
  /\ LineInv
  /\ AiredInv
  /\ TimerInv
  /\ BlockedInv

-----------------------------------------------------------------------------
(* The inductive invariant. *)

\* The invariant holds at the start.
LEMMA InitInvariant == Init => IInv
<1> SUFFICES ASSUME Init PROVE IInv
  OBVIOUS
<1> USE DEF Init
<1>1. TypeOK
  <2>1. txQueue \in Seq(Packet) /\ Len(txQueue) <= QueueCapacity
    BY QueueAssumption
  <2>2. accepted \in 0 .. MaxPackets
    BY QueueAssumption
  <2>3. /\ busyAge \in {NotTiming} \union 0 .. BusyTimeout
        /\ slotLeft \in 0 .. MaxSlot
        /\ blocked \in 0 .. WaitBound
    BY TimeAssumption DEF WaitBound
  <2>4. QED
    BY <2>1, <2>2, <2>3 DEF TypeOK
<1>2. HistoryTypeOK /\ OutcomesInOrder
  BY DEF HistoryTypeOK, OutcomesInOrder
<1>3. LineInv /\ AiredInv
  BY DEF LineInv, AiredInv, OnAir
<1>4. TimerInv /\ BlockedInv
  BY TimeAssumption DEF TimerInv, BlockedInv, OnAir, NotTiming, WaitBound
<1>5. QED
  BY <1>1, <1>2, <1>3, <1>4 DEF IInv

\* Ending the packet at the head keeps the queue and the outcomes in step.
LEMMA EndPacketInvariant ==
  ASSUME IInv, txQueue # << >>,
         NEW status \in {"OK", "TX_FAILED", "TX_TIMEOUT"},
         EndPacket(status), accepted' = accepted
  PROVE  /\ txQueue' \in Seq(Packet)
         /\ Len(txQueue') = Len(txQueue) - 1
         /\ HistoryTypeOK'
         /\ OutcomesInOrder'
<1> DEFINE n == Len(outcomes)
<1>1. /\ txQueue \in Seq(Packet) /\ Len(txQueue) \in Nat /\ Len(txQueue) > 0
      /\ outcomes \in Seq(Outcome) /\ n \in Nat
  BY DEF IInv, TypeOK, HistoryTypeOK
<1>2. /\ Head(txQueue) = txQueue[1]
      /\ Head(txQueue) \in Packet
      /\ Head(txQueue).id = n + 1
  BY <1>1 DEF IInv, OutcomesInOrder
<1>3. /\ txQueue' = Tail(txQueue)
      /\ txQueue' \in Seq(Packet)
      /\ Len(txQueue') = Len(txQueue) - 1
      /\ \A k \in 1 .. Len(txQueue') : txQueue'[k] = txQueue[k + 1]
  BY <1>1 DEF EndPacket
<1>4. /\ [id |-> Head(txQueue).id, status |-> status] \in Outcome
      /\ outcomes' = Append(outcomes,
                            [id |-> Head(txQueue).id, status |-> status])
      /\ aired' = << >>
  BY <1>2 DEF EndPacket, Packet, Outcome
<1>5. HistoryTypeOK'
  BY <1>1, <1>4 DEF HistoryTypeOK
<1>6. /\ Len(outcomes') = n + 1
      /\ \A m \in 1 .. n + 1 : outcomes'[m].id = m
  BY <1>1, <1>2, <1>4 DEF IInv, OutcomesInOrder
<1>7. \A k \in 1 .. Len(txQueue') : txQueue'[k].id = n + 1 + k
  BY <1>1, <1>3 DEF IInv, OutcomesInOrder
<1>8. accepted' = Len(outcomes') + Len(txQueue')
  BY <1>1, <1>3, <1>6 DEF IInv, OutcomesInOrder
<1>9. QED
  BY <1>3, <1>5, <1>6, <1>7, <1>8 DEF OutcomesInOrder

\* A packet joins the queue behind the one being sent.
LEMMA SubmitInvariant == IInv /\ SubmitPacket => IInv'
<1> SUFFICES ASSUME IInv, SubmitPacket PROVE IInv'
  OBVIOUS
<1> USE DEF SubmitPacket, history, timers
<1>1. PICK fragments \in FragmentCounts :
        txQueue' = Append(txQueue, [id |-> accepted + 1,
                                    fragments |-> fragments])
  OBVIOUS
<1> DEFINE packet == [id |-> accepted + 1, fragments |-> fragments]
<1>2. /\ txQueue \in Seq(Packet) /\ Len(txQueue) \in Nat
      /\ packet \in Packet
  BY QueueAssumption DEF IInv, TypeOK, Packet
<1>3. /\ txQueue' \in Seq(Packet)
      /\ Len(txQueue') = Len(txQueue) + 1
      /\ \A k \in 1 .. Len(txQueue) : txQueue'[k] = txQueue[k]
      /\ txQueue'[Len(txQueue) + 1] = packet
      /\ txQueue' # << >>
      /\ txQueue # << >> => Head(txQueue') = Head(txQueue)
  BY <1>1, <1>2
<1>4. TypeOK'
  BY <1>2, <1>3, QueueAssumption DEF IInv, TypeOK
<1>5. HistoryTypeOK'
  BY DEF IInv, HistoryTypeOK
<1>6. OutcomesInOrder'
  <2>1. Len(outcomes) \in Nat /\ accepted = Len(outcomes) + Len(txQueue)
    BY DEF IInv, HistoryTypeOK, OutcomesInOrder
  <2>2. accepted' = Len(outcomes') + Len(txQueue')
    BY <1>2, <1>3, <2>1
  <2>3. \A k \in 1 .. Len(txQueue') : txQueue'[k].id = Len(outcomes') + k
    <3>1. outcomes' = outcomes /\ accepted + 1 = Len(outcomes) + Len(txQueue')
      BY <1>2, <1>3, <2>1
    <3>2. \A k \in 1 .. Len(txQueue) : txQueue'[k].id = Len(outcomes) + k
      BY <1>3 DEF IInv, OutcomesInOrder
    <3>3. txQueue'[Len(txQueue')].id = accepted + 1
      BY <1>2, <1>3
    <3>4. \A k \in 1 .. Len(txQueue') :
            k \in 1 .. Len(txQueue) \/ k = Len(txQueue')
      BY <1>2, <1>3
    <3>5. Len(txQueue') \in Nat
      BY <1>2, <1>3
    <3>6. txQueue'[Len(txQueue')].id = Len(outcomes) + Len(txQueue')
      BY <3>1, <3>3
    <3>7. QED
      BY <3>1, <3>2, <3>4, <3>6
  <2>4. QED
    BY <2>2, <2>3 DEF IInv, OutcomesInOrder
<1>7. LineInv' /\ TimerInv' /\ BlockedInv'
  BY <1>3 DEF IInv, LineInv, TimerInv, BlockedInv
<1>8. AiredInv'
  <2>1. workerPc \in OnAir => txQueue # << >>
    BY DEF IInv, TypeOK, OnAir
  <2>2. QED
    BY <1>3, <2>1 DEF IInv, AiredInv
<1>9. QED
  BY <1>4, <1>5, <1>6, <1>7, <1>8 DEF IInv

\* The other steps of the main thread.
LEMMA MainInvariant == IInv /\ Main => IInv'
<1> SUFFICES ASSUME IInv, Main PROVE IInv'
  OBVIOUS
<1> USE DEF main, history, timers
<1>1. CASE SubmitPacket
  BY <1>1, SubmitInvariant
<1>2. CASE SetPersistence \/ PublishChannel \/ StopWorker
  <2> USE <1>2 DEF SetPersistence, PublishChannel, StopWorker
  <2>1. TypeOK'
    <3>1. running' \in BOOLEAN /\ channelBusy' \in BOOLEAN
      BY Zenon DEF IInv, TypeOK
    <3>2. QED
      BY <3>1 DEF IInv, TypeOK
  <2>2. HistoryTypeOK' /\ OutcomesInOrder'
    BY DEF IInv, HistoryTypeOK, OutcomesInOrder
  <2>3. LineInv' /\ AiredInv' /\ TimerInv' /\ BlockedInv'
    BY DEF IInv, LineInv, AiredInv, TimerInv, BlockedInv
  <2>4. QED
    BY <2>1, <2>2, <2>3 DEF IInv
<1>3. CASE Deinit
  <2> USE <1>3 DEF Deinit
  <2>1. TypeOK'
    <3>1. ptt' \in BOOLEAN /\ releaseFailed' \in BOOLEAN
      BY Zenon DEF IInv, TypeOK
    <3>2. QED
      BY <3>1 DEF IInv, TypeOK
  <2>2. HistoryTypeOK' /\ OutcomesInOrder'
    BY DEF IInv, HistoryTypeOK, OutcomesInOrder
  <2>3. LineInv'
    BY DEF IInv, LineInv
  <2>4. AiredInv' /\ TimerInv' /\ BlockedInv'
    BY DEF IInv, AiredInv, TimerInv, BlockedInv, OnAir
  <2>5. QED
    BY <2>1, <2>2, <2>3, <2>4 DEF IInv
<1>4. QED
  BY <1>1, <1>2, <1>3 DEF Main

\* Waiting for the channel: the line stays as it is and the timer runs.
LEMMA AccessInvariant == IInv /\ Access => IInv'
<1> SUFFICES ASSUME IInv, Access PROVE IInv'
  OBVIOUS
<1> USE DEF main, history, timers
<1>1. CASE WorkerExit \/ PollNothing \/ SlotNotDue \/ LoseTrial \/ WinTrial
  <2> USE <1>1 DEF WorkerExit, PollNothing, SlotNotDue, LoseTrial, WinTrial
  <2>1. TypeOK'
    BY DEF IInv, TypeOK
  <2>2. HistoryTypeOK' /\ OutcomesInOrder'
    BY DEF IInv, HistoryTypeOK, OutcomesInOrder
  <2>3. LineInv' /\ AiredInv'
    BY DEF IInv, LineInv, AiredInv, OnAir
  <2>4. TimerInv' /\ BlockedInv'
    BY TimeAssumption
       DEF IInv, TypeOK, TimerInv, BlockedInv, OnAir, NotTiming, WaitBound
  <2>5. QED
    BY <2>1, <2>2, <2>3, <2>4 DEF IInv
<1>2. CASE PollBusy
  <2> USE <1>2 DEF PollBusy
  <2>1. TypeOK'
    BY TimeAssumption DEF IInv, TypeOK, NotTiming
  <2>2. HistoryTypeOK' /\ OutcomesInOrder'
    BY DEF IInv, HistoryTypeOK, OutcomesInOrder
  <2>3. LineInv' /\ AiredInv'
    BY DEF IInv, LineInv, AiredInv, OnAir
  <2>4. TimerInv' /\ BlockedInv'
    BY TimeAssumption
       DEF IInv, TypeOK, TimerInv, BlockedInv, OnAir, NotTiming, WaitBound
  <2>5. QED
    BY <2>1, <2>2, <2>3, <2>4 DEF IInv
<1>3. CASE PollFree
  <2> USE <1>3 DEF PollFree
  <2>1. TypeOK'
    BY TimeAssumption DEF IInv, TypeOK, NotTiming, WaitBound
  <2>2. HistoryTypeOK' /\ OutcomesInOrder'
    BY DEF IInv, HistoryTypeOK, OutcomesInOrder
  <2>3. LineInv' /\ AiredInv'
    BY DEF IInv, LineInv, AiredInv, OnAir
  <2>4. TimerInv' /\ BlockedInv'
    BY TimeAssumption
       DEF IInv, TimerInv, BlockedInv, OnAir, NotTiming, WaitBound
  <2>5. QED
    BY <2>1, <2>2, <2>3, <2>4 DEF IInv
<1>4. CASE TimeOut
  <2> USE <1>4 DEF TimeOut
  <2>1. txQueue # << >>
    BY DEF IInv, TypeOK
  <2>2. /\ txQueue' \in Seq(Packet)
        /\ Len(txQueue') = Len(txQueue) - 1
        /\ HistoryTypeOK'
        /\ OutcomesInOrder'
    BY <2>1, EndPacketInvariant
  <2> USE DEF EndPacket
  <2>3. TypeOK'
    <3>1. Len(txQueue') <= QueueCapacity
      BY <2>2, QueueAssumption DEF IInv, TypeOK
    <3>2. 0 \in 0 .. WaitBound
      BY TimeAssumption DEF WaitBound
    <3>3. QED
      BY <2>2, <3>1, <3>2 DEF IInv, TypeOK
  <2>4. LineInv' /\ AiredInv'
    BY DEF IInv, LineInv, AiredInv, OnAir
  <2>5. TimerInv' /\ BlockedInv'
    BY TimeAssumption DEF TimerInv, BlockedInv, OnAir, NotTiming, WaitBound
  <2>6. QED
    BY <2>2, <2>3, <2>4, <2>5 DEF IInv
<1>5. CASE Nap
  <2>1. PICK time \in 1 .. MaxNap :
          /\ busyAge' = IF busyAge = NotTiming
                          THEN NotTiming
                          ELSE SmallerOf(busyAge + time, BusyTimeout)
          /\ slotLeft' = IF slotLeft > time THEN slotLeft - time ELSE 0
          /\ IF workerPc = "nap"
               THEN blocked' = SmallerOf(blocked + time, WaitBound)
               ELSE UNCHANGED blocked
    BY <1>5 DEF Nap
  <2> USE <1>5, <2>1, TimeAssumption DEF Nap, SmallerOf, NotTiming, WaitBound
  <2>2. TypeOK'
    <3>1. busyAge' \in {NotTiming} \union 0 .. BusyTimeout
      BY DEF IInv, TypeOK
    <3>2. slotLeft' \in 0 .. MaxSlot
      BY DEF IInv, TypeOK
    <3>3. blocked' \in 0 .. WaitBound
      BY DEF IInv, TypeOK
    <3>4. QED
      BY <3>1, <3>2, <3>3 DEF IInv, TypeOK
  <2>3. HistoryTypeOK' /\ OutcomesInOrder'
    BY DEF IInv, HistoryTypeOK, OutcomesInOrder
  <2>4. LineInv' /\ AiredInv'
    BY DEF IInv, LineInv, AiredInv, OnAir
  <2>5. TimerInv'
    BY DEF IInv, TypeOK, TimerInv, OnAir
  <2>6. BlockedInv'
    BY DEF IInv, TypeOK, TimerInv, BlockedInv
  <2>7. QED
    BY <2>2, <2>3, <2>4, <2>5, <2>6 DEF IInv
<1>6. QED
  BY <1>1, <1>2, <1>3, <1>4, <1>5 DEF Access

\* On the air: the timer is stopped and the line follows the worker.
LEMMA TransmissionInvariant == IInv /\ Transmission => IInv'
<1> SUFFICES ASSUME IInv, Transmission PROVE IInv'
  OBVIOUS
<1> USE DEF main, history, timers
<1>1. /\ txQueue # << >>
      /\ txQueue \in Seq(Packet)
      /\ Head(txQueue) \in Packet
      /\ Head(txQueue).fragments \in Nat \ {0}
      /\ Head(txQueue).id \in 1 .. MaxPackets
  <2>1. workerPc \in {"key", "frames", "drain", "release", "guard"}
    BY DEF Transmission, KeyPtt, KeyPttFails, StartFrames, SendFrame,
           EndFrames, DrainAudio, ReleasePtt, StartGuard, EndTransmission
  <2>2. txQueue # << >> /\ txQueue \in Seq(Packet)
    BY <2>1 DEF IInv, TypeOK
  <2>3. Head(txQueue) \in Packet
    BY <2>2
  <2>4. QED
    BY <2>2, <2>3, QueueAssumption DEF Packet
<1>2. CASE KeyPttFails \/ EndTransmission
  <2>1. PICK status \in {"OK", "TX_FAILED", "TX_TIMEOUT"} : EndPacket(status)
    BY <1>2 DEF KeyPttFails, EndTransmission
  <2>2. /\ txQueue' \in Seq(Packet)
        /\ Len(txQueue') = Len(txQueue) - 1
        /\ HistoryTypeOK'
        /\ OutcomesInOrder'
    BY <1>1, <1>2, <2>1, EndPacketInvariant DEF KeyPttFails, EndTransmission
  <2> USE <1>2, <2>1 DEF KeyPttFails, EndTransmission, EndPacket
  <2>3. TypeOK'
    <3>1. Len(txQueue') <= QueueCapacity
      BY <2>2, QueueAssumption DEF IInv, TypeOK
    <3>2. 0 \in 0 .. WaitBound
      BY TimeAssumption DEF WaitBound
    <3>3. QED
      BY <2>2, <3>1, <3>2 DEF IInv, TypeOK
  <2>4. LineInv' /\ AiredInv'
    BY DEF IInv, LineInv, AiredInv, OnAir
  <2>5. TimerInv' /\ BlockedInv'
    BY <2>2, TimeAssumption
       DEF IInv, TimerInv, BlockedInv, OnAir, NotTiming, WaitBound
  <2>6. QED
    BY <2>2, <2>3, <2>4, <2>5 DEF IInv
<1>3. CASE KeyPtt
  <2> USE <1>3 DEF KeyPtt
  <2>1. TypeOK'
    BY DEF IInv, TypeOK
  <2>2. HistoryTypeOK' /\ OutcomesInOrder'
    BY DEF IInv, HistoryTypeOK, OutcomesInOrder
  <2>3. LineInv'
    BY DEF IInv, LineInv
  <2>4. AiredInv'
    BY <1>1 DEF AiredInv, OnAir
  <2>5. TimerInv' /\ BlockedInv'
    BY DEF IInv, TimerInv, BlockedInv, OnAir
  <2>6. QED
    BY <2>1, <2>2, <2>3, <2>4, <2>5 DEF IInv
<1>4. CASE StartFrames
  <2> USE <1>4 DEF StartFrames
  <2>1. TypeOK'
    BY DEF IInv, TypeOK
  <2>2. HistoryTypeOK' /\ OutcomesInOrder'
    BY DEF IInv, HistoryTypeOK, OutcomesInOrder
  <2>3. LineInv'
    BY DEF IInv, LineInv
  <2>4. AiredInv'
    BY DEF IInv, AiredInv, OnAir
  <2>5. TimerInv' /\ BlockedInv'
    BY DEF IInv, TimerInv, BlockedInv, OnAir
  <2>6. QED
    BY <2>1, <2>2, <2>3, <2>4, <2>5 DEF IInv
<1>5. CASE EndFrames
  <2> USE <1>5 DEF EndFrames
  <2>1. TypeOK'
    BY DEF IInv, TypeOK
  <2>2. HistoryTypeOK' /\ OutcomesInOrder'
    BY DEF IInv, HistoryTypeOK, OutcomesInOrder
  <2>3. LineInv'
    BY DEF IInv, LineInv
  <2>4. AiredInv'
    BY <1>1 DEF IInv, HistoryTypeOK, AiredInv, OnAir, MoreFrames
  <2>5. TimerInv' /\ BlockedInv'
    BY DEF IInv, TimerInv, BlockedInv, OnAir
  <2>6. QED
    BY <2>1, <2>2, <2>3, <2>4, <2>5 DEF IInv
<1>6. CASE DrainAudio
  <2> USE <1>6 DEF DrainAudio
  <2>1. TypeOK'
    <3>1. success' \in BOOLEAN
      BY Zenon DEF IInv, TypeOK
    <3>2. QED
      BY <3>1 DEF IInv, TypeOK
  <2>2. HistoryTypeOK' /\ OutcomesInOrder'
    BY DEF IInv, HistoryTypeOK, OutcomesInOrder
  <2>3. LineInv'
    BY DEF IInv, LineInv
  <2>4. AiredInv'
    <3>1. success' => success
      BY Zenon
    <3>2. QED
      BY <3>1 DEF IInv, AiredInv, OnAir
  <2>5. TimerInv' /\ BlockedInv'
    BY DEF IInv, TimerInv, BlockedInv, OnAir
  <2>6. QED
    BY <2>1, <2>2, <2>3, <2>4, <2>5 DEF IInv
<1>7. CASE StartGuard
  <2> USE <1>7 DEF StartGuard
  <2>1. TypeOK'
    BY DEF IInv, TypeOK
  <2>2. HistoryTypeOK' /\ OutcomesInOrder'
    BY DEF IInv, HistoryTypeOK, OutcomesInOrder
  <2>3. LineInv'
    BY DEF IInv, LineInv
  <2>4. AiredInv'
    BY DEF IInv, AiredInv, OnAir
  <2>5. TimerInv' /\ BlockedInv'
    BY DEF IInv, TimerInv, BlockedInv, OnAir
  <2>6. QED
    BY <2>1, <2>2, <2>3, <2>4, <2>5 DEF IInv
<1>8. CASE SendFrame
  <2> USE <1>8 DEF SendFrame
  <2> DEFINE frame == [id |-> Head(txQueue).id, index |-> Len(aired),
                       keyed |-> ptt]
  <2>1. /\ aired \in Seq(AiredFrame) /\ Len(aired) \in Nat
        /\ frame \in AiredFrame
        /\ ptt = TRUE
        /\ Head(txQueue).fragments \in Nat
    BY <1>1, QueueAssumption
       DEF IInv, TypeOK, HistoryTypeOK, LineInv, AiredFrame, Packet
  <2>2. TypeOK'
    BY DEF IInv, TypeOK
  <2>3. \/ /\ aired' = Append(aired, frame)
           /\ Len(aired') = Len(aired) + 1
           /\ \A k \in 1 .. Len(aired) : aired'[k] = aired[k]
           /\ aired'[Len(aired) + 1] = frame
        \/ aired' = aired
    BY <2>1
  <2>4. HistoryTypeOK'
    BY <2>1 DEF IInv, HistoryTypeOK
  <2>5. OutcomesInOrder'
    BY DEF IInv, OutcomesInOrder
  <2>6. LineInv'
    BY DEF IInv, LineInv
  <2>7. AiredInv'
    <3>1. /\ Len(aired) < Head(txQueue).fragments
          /\ \A k \in 1 .. Len(aired) :
               aired[k] = [id |-> Head(txQueue).id, index |-> k - 1,
                           keyed |-> TRUE]
      BY DEF IInv, AiredInv, OnAir, MoreFrames
    <3>2. Len(aired') <= Head(txQueue).fragments
      BY <2>1, <2>3, <3>1
    <3>3. \A k \in 1 .. Len(aired') :
            aired'[k] = [id |-> Head(txQueue).id, index |-> k - 1,
                         keyed |-> TRUE]
      <4>1. CASE aired' = Append(aired, frame)
        <5>1. frame = [id |-> Head(txQueue).id,
                       index |-> (Len(aired) + 1) - 1, keyed |-> TRUE]
          BY <2>1
        <5>2. \A k \in 1 .. Len(aired') :
                k \in 1 .. Len(aired) \/ k = Len(aired) + 1
          BY <2>1, <4>1
        <5>3. /\ \A k \in 1 .. Len(aired) : aired'[k] = aired[k]
              /\ aired'[Len(aired) + 1] = frame
          BY <2>1, <4>1
        <5>4. txQueue' = txQueue
          OBVIOUS
        <5>5. QED
          BY <3>1, <5>1, <5>2, <5>3, <5>4
      <4>2. CASE aired' = aired
        BY <3>1, <4>2
      <4>3. QED
        BY <2>3, <4>1, <4>2
    <3>4. QED
      BY <3>2, <3>3 DEF AiredInv
  <2>8. TimerInv' /\ BlockedInv'
    BY DEF IInv, TimerInv, BlockedInv, OnAir
  <2>9. QED
    BY <2>2, <2>4, <2>5, <2>6, <2>7, <2>8 DEF IInv
<1>9. CASE ReleasePtt
  <2> USE <1>9 DEF ReleasePtt
  <2>1. TypeOK'
    <3>1. /\ ptt' \in BOOLEAN
          /\ success' \in BOOLEAN
          /\ releaseFailed' \in BOOLEAN
      BY Zenon DEF IInv, TypeOK
    <3>2. QED
      BY <3>1 DEF IInv, TypeOK
  <2>2. HistoryTypeOK' /\ OutcomesInOrder'
    BY DEF IInv, HistoryTypeOK, OutcomesInOrder
  <2>3. LineInv'
    BY DEF IInv, LineInv
  <2>4. AiredInv'
    BY DEF IInv, AiredInv, OnAir
  <2>5. TimerInv' /\ BlockedInv'
    BY DEF IInv, TimerInv, BlockedInv, OnAir
  <2>6. QED
    BY <2>1, <2>2, <2>3, <2>4, <2>5 DEF IInv
<1>10. QED
  BY <1>2, <1>3, <1>4, <1>5, <1>6, <1>7, <1>8, <1>9 DEF Transmission

\* Every step keeps the invariant.
LEMMA NextInvariant == IInv /\ [Next]_vars => IInv'
<1> SUFFICES ASSUME IInv, [Next]_vars PROVE IInv'
  OBVIOUS
<1>1. CASE UNCHANGED vars
  <2> USE <1>1 DEF vars, main, history, timers
  <2>1. TypeOK'
    BY DEF IInv, TypeOK
  <2>2. HistoryTypeOK' /\ OutcomesInOrder'
    BY DEF IInv, HistoryTypeOK, OutcomesInOrder
  <2>3. LineInv' /\ AiredInv' /\ TimerInv' /\ BlockedInv'
    BY DEF IInv, LineInv, AiredInv, TimerInv, BlockedInv
  <2>4. QED
    BY <2>1, <2>2, <2>3 DEF IInv
<1>2. QED
  BY <1>1, MainInvariant, AccessInvariant, TransmissionInvariant
     DEF Next, Worker

\* The invariant holds throughout.
LEMMA Invariance == Spec => []IInv
<1>1. Init => IInv
  BY InitInvariant
<1>2. IInv /\ [Next]_vars => IInv'
  BY NextInvariant
<1>3. QED
  BY <1>1, <1>2, PTL DEF Spec

-----------------------------------------------------------------------------
(* What the transmit side guarantees. *)

\* Every variable keeps its type, and the queue its bound.
THEOREM TypeCorrect == Spec => []TypeOK
<1>1. IInv => TypeOK
  BY DEF IInv
<1>2. QED
  BY <1>1, Invariance, PTL

\* The receive path is shut whenever the radio is keyed, unless the line could
\* not be released.
THEOREM ReceiverShutCorrect == Spec => []ReceiverShutWhileKeyed
<1>1. IInv => ReceiverShutWhileKeyed
  BY DEF IInv, LineInv, ReceiverShutWhileKeyed
<1>2. QED
  BY <1>1, Invariance, PTL

\* Packets end in the order they were accepted, each once.
THEOREM OutcomesInOrderCorrect == Spec => []OutcomesInOrder
<1>1. IInv => OutcomesInOrder
  BY DEF IInv
<1>2. QED
  BY <1>1, Invariance, PTL

\* Only three steps end a packet.
LEMMA EndingSteps ==
  ASSUME IInv, [Next]_vars, outcomes' # outcomes
  PROVE  \/ TimeOut /\ EndPacket("TX_TIMEOUT")
         \/ KeyPttFails /\ EndPacket("TX_FAILED")
         \/ EndTransmission /\ EndPacket(IF success THEN "OK" ELSE "TX_FAILED")
<1>1. \/ TimeOut \/ KeyPttFails \/ EndTransmission
  BY DEF vars, main, history, timers, Next, Main, SubmitPacket, SetPersistence,
         PublishChannel, StopWorker, Deinit, Worker, Access, WorkerExit,
         PollNothing, PollBusy, PollFree, SlotNotDue, LoseTrial, WinTrial, Nap,
         Transmission, KeyPtt, StartFrames, SendFrame, EndFrames, DrainAudio,
         ReleasePtt, StartGuard
<1>2. QED
  BY <1>1 DEF TimeOut, KeyPttFails, EndTransmission

\* A packet that ends with a status ends by the step that gives it.
LEMMA EndsBy ==
  ASSUME IInv, [Next]_vars, NEW status, Ends(status)
  PROVE  /\ status = "TX_TIMEOUT" => TimeOut
         /\ status = "OK" => EndTransmission /\ success
<1>1. outcomes \in Seq(Outcome) /\ Len(outcomes) \in Nat
  BY DEF IInv, HistoryTypeOK
<1>2. outcomes' # outcomes
  BY <1>1 DEF Ends
<1>3. ASSUME NEW given, EndPacket(given) PROVE given = status
  BY <1>1, <1>3 DEF Ends, EndPacket
<1>4. QED
  BY <1>2, <1>3, EndingSteps

\* A packet reported as sent went out whole, in order, under one keying, for
\* every number of fragments.
THEOREM SentUnderOnePttCorrect == Spec => SentUnderOnePtt
<1> DEFINE Whole ==
      Ends("OK") =>
        aired = [k \in 1 .. Head(txQueue).fragments |->
                   [id |-> Head(txQueue).id, index |-> k - 1, keyed |-> TRUE]]
<1>1. IInv /\ [Next]_vars => [Whole]_vars
  <2> SUFFICES ASSUME IInv, [Next]_vars, Ends("OK")
               PROVE  aired = [k \in 1 .. Head(txQueue).fragments |->
                                 [id |-> Head(txQueue).id, index |-> k - 1,
                                  keyed |-> TRUE]]
    OBVIOUS
  <2>1. EndTransmission /\ success
    BY EndsBy
  <2>2. /\ Len(aired) = Head(txQueue).fragments
        /\ \A k \in 1 .. Len(aired) :
             aired[k] = [id |-> Head(txQueue).id, index |-> k - 1,
                         keyed |-> TRUE]
    BY <2>1 DEF EndTransmission, IInv, AiredInv, OnAir
  <2>3. aired = [k \in 1 .. Len(aired) |-> aired[k]]
    BY DEF IInv, HistoryTypeOK
  <2>4. QED
    BY <2>2, <2>3
<1>2. QED
  BY <1>1, Invariance, PTL DEF Spec, SentUnderOnePtt

\* A timeout is the packet's own, and not later than two naps after it was due,
\* for every timeout and polling rhythm.
THEOREM TimeoutIsItsOwnCorrect == Spec => TimeoutIsItsOwn
<1> DEFINE InTime == /\ Ends("TX_TIMEOUT") => blocked >= BusyTimeout
                     /\ blocked' < WaitBound
<1>1. IInv /\ IInv' /\ [Next]_vars => [InTime]_vars
  <2> SUFFICES ASSUME IInv, IInv', [Next]_vars PROVE InTime
    OBVIOUS
  <2>1. ASSUME Ends("TX_TIMEOUT") PROVE blocked >= BusyTimeout
    <3>1. TimeOut
      BY <2>1, EndsBy
    <3>2. QED
      BY <3>1, TimeAssumption DEF TimeOut, IInv, TypeOK, TimerInv
  <2>2. blocked' < WaitBound
    BY DEF IInv, BlockedInv
  <2>3. QED
    BY <2>1, <2>2
<1>2. QED
  BY <1>1, Invariance, PTL DEF Spec, TimeoutIsItsOwn
-----------------------------------------------------------------------------
(* Refinement: the transmit side implements HalfDuplex. *)

\* A packet waits only while it is queued, and after the worker's end nothing
\* is.
WaitInv ==
  /\ state = "TX_WAIT_BUSY" => txQueue # << >>
  /\ ~running => mainPc # "serve"
  /\ workerPc = "exited" => txQueue = << >> /\ mainPc # "serve"
  /\ mainPc = "done" => workerPc = "exited"

\* The main thread only adds packets, and none after the stop.
LEMMA MainWaits == IInv /\ WaitInv /\ Main => WaitInv'
<1> SUFFICES ASSUME IInv, WaitInv, Main PROVE WaitInv'
  OBVIOUS
<1> USE DEF WaitInv
<1>1. CASE SubmitPacket
  <2>1. txQueue' # << >>
    <3>1. PICK fragments \in FragmentCounts :
            txQueue' = Append(txQueue, [id |-> accepted + 1,
                                        fragments |-> fragments])
      BY <1>1 DEF SubmitPacket
    <3>2. txQueue \in Seq(Packet)
      BY DEF IInv, TypeOK
    <3>3. [id |-> accepted + 1, fragments |-> fragments] \in Packet
      BY <1>1, QueueAssumption DEF SubmitPacket, IInv, TypeOK, Packet
    <3>4. ASSUME NEW S, NEW q \in Seq(S), NEW e \in S
          PROVE  Append(q, e) # << >>
      <4>1. Append(q, e) \in Seq(S) /\ Len(Append(q, e)) = Len(q) + 1
        OBVIOUS
      <4>2. Len(q) \in Nat /\ Len(<< >>) = 0
        OBVIOUS
      <4>3. QED
        BY <4>1, <4>2
    <3>5. QED
      BY <3>1, <3>2, <3>3, <3>4
  <2>2. QED
    BY <1>1, <2>1 DEF SubmitPacket
<1>2. CASE SetPersistence
  BY <1>2 DEF SetPersistence
<1>3. CASE PublishChannel
  BY <1>3 DEF PublishChannel, main
<1>4. CASE StopWorker
  BY <1>4 DEF StopWorker
<1>5. CASE Deinit
  BY <1>5 DEF Deinit
<1>6. QED
  BY <1>1, <1>2, <1>3, <1>4, <1>5 DEF Main

\* The worker waits for the channel only with a packet queued, and takes the
\* packet out only together with a return to RX_IDLE.
LEMMA WorkerWaits == IInv /\ WaitInv /\ Worker => WaitInv'
<1> SUFFICES ASSUME IInv, WaitInv, Worker PROVE WaitInv'
  OBVIOUS
<1> USE DEF WaitInv, main
<1>1. CASE WorkerExit
  BY <1>1 DEF WorkerExit
<1>2. CASE PollNothing \/ PollBusy \/ PollFree \/ SlotNotDue \/ LoseTrial
  BY <1>2 DEF PollNothing, PollBusy, PollFree, SlotNotDue, LoseTrial
<1>3. CASE WinTrial \/ Nap \/ KeyPtt \/ StartFrames \/ SendFrame
  BY <1>3 DEF WinTrial, Nap, KeyPtt, StartFrames, SendFrame
<1>4. CASE EndFrames \/ DrainAudio \/ ReleasePtt \/ StartGuard
  BY <1>4 DEF EndFrames, DrainAudio, ReleasePtt, StartGuard
<1>5. CASE TimeOut \/ KeyPttFails \/ EndTransmission
  BY <1>5 DEF TimeOut, KeyPttFails, EndTransmission, EndPacket
<1>6. QED
  BY <1>1, <1>2, <1>3, <1>4, <1>5 DEF Worker, Access, Transmission

\* Each step of the transmit side is one of the radio's or a stutter.
LEMMA StepRefines == IInv /\ WaitInv /\ [Next]_vars
                       => [Radio!Next]_(Radio!radioVars)
<1> SUFFICES ASSUME IInv, WaitInv, [Next]_vars
             PROVE  [Radio!Next]_(Radio!radioVars)
  OBVIOUS
<1> USE DEF IInv, LineInv, WaitInv, Radio!Next, Radio!radioVars, Radio!Move
<1>1. CASE UNCHANGED vars
  BY <1>1 DEF vars
<1>2. CASE SubmitPacket \/ SetPersistence \/ PublishChannel \/ StopWorker
  BY <1>2 DEF SubmitPacket, SetPersistence, PublishChannel, StopWorker
<1>3. CASE Deinit
  <2>1. state = "RX_IDLE"
    BY <1>3 DEF Deinit
  <2>2. state' = "RX_IDLE" /\ ptt' \in {FALSE, ptt}
    BY <1>3 DEF Deinit, TypeOK
  <2>3. QED
    BY <2>1, <2>2 DEF Radio!Teardown
<1>4. CASE WorkerExit \/ PollNothing \/ PollFree \/ SlotNotDue
           \/ LoseTrial \/ Nap
  BY <1>4 DEF WorkerExit, PollNothing, PollFree, SlotNotDue, LoseTrial, Nap
<1>5. CASE PollBusy
  BY <1>5 DEF PollBusy, Radio!Wait
<1>6. CASE TimeOut
  BY <1>6 DEF TimeOut, Radio!GiveUp
<1>7. CASE WinTrial
  BY <1>7 DEF WinTrial, Radio!Start
<1>8. CASE KeyPtt
  BY <1>8 DEF KeyPtt, Radio!Key
<1>9. CASE KeyPttFails
  BY <1>9 DEF KeyPttFails, Radio!KeyFails
<1>10. CASE StartFrames
  BY <1>10 DEF StartFrames, Radio!Send
<1>11. CASE SendFrame \/ DrainAudio
  BY <1>11 DEF SendFrame, DrainAudio
<1>12. CASE EndFrames
  BY <1>12 DEF EndFrames, Radio!EndSending
<1>13. CASE ReleasePtt
  <2>1. state = "TX_TAIL" /\ state' = state /\ ptt' \in {FALSE, ptt}
    BY <1>13 DEF ReleasePtt, TypeOK
  <2>2. QED
    BY <2>1 DEF Radio!Release
<1>14. CASE StartGuard
  BY <1>14 DEF StartGuard, Radio!Guard
<1>15. CASE EndTransmission
  BY <1>15 DEF EndTransmission, Radio!Resume
<1>16. QED
  BY <1>1, <1>2, <1>3, <1>4, <1>5, <1>6, <1>7, <1>8, <1>9, <1>10, <1>11,
     <1>12, <1>13, <1>14, <1>15 DEF Next, Main, Worker, Access, Transmission

\* A worker that has ended stays ended, with nothing queued behind it.
LEMMA WaitInvariance == Spec => []WaitInv
<1>1. Init => WaitInv
  BY DEF Init, WaitInv
<1>2. IInv /\ WaitInv /\ [Next]_vars => WaitInv'
  <2>1. WaitInv /\ UNCHANGED vars => WaitInv'
    BY DEF WaitInv, vars, main
  <2>2. QED
    BY <2>1, MainWaits, WorkerWaits DEF Next
<1>3. QED
  BY <1>1, <1>2, Invariance, PTL DEF Spec

\* For every queue, timeout and packet length the transmit side shows the
\* receive side the documented half-duplex cycle and nothing else.
THEOREM TransmitImplementsHalfDuplex == Spec => ImplementsHalfDuplex
<1>1. Init => Radio!Init
  BY DEF Init, Radio!Init
<1>2. QED
  BY <1>1, Invariance, WaitInvariance, StepRefines, PTL
     DEF Spec, ImplementsHalfDuplex, Radio!Spec

\* What StopEnds promises of the end: nothing is queued, and the radio is keyed
\* only if the line refused its last release.
StoppedClean == mainPc = "done" => txQueue = << >> /\ (ptt => releaseFailed)

\* When the program has stopped the queue is drained and the line released,
\* whatever was queued or on the air when it was told to (alsa_rx.c 90).
THEOREM StopLeavesNothing == Spec => []StoppedClean
<1>1. IInv /\ WaitInv => StoppedClean
  BY DEF IInv, LineInv, WaitInv, StoppedClean
<1>2. QED
  BY <1>1, Invariance, WaitInvariance, PTL
=============================================================================
