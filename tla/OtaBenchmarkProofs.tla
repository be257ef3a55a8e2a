-------------------------- MODULE OtaBenchmarkProofs --------------------------
(***************************************************************************)
(* Proofs about OtaBenchmark for any number of runs, blocks, repeats and   *)
(* frames, any queue length and any deadline: the type invariant, that the *)
(* counts of the rows are honest, that no attempt is without its row, and  *)
(* that a signal leaves the line released.                                 *)
(***************************************************************************)
EXTENDS OtaBenchmark, FiniteSetTheorems, SequenceTheorems, TLAPS

Numbers == 0 .. Packets - 1
Frame == [target : Target, seq : Numbers]

\* The types, with those of the queued frames and the counters, which the run
\* of the model leaves unbounded.  A block is known when one is listened to.
TypeInv ==
  /\ TypeOK
  /\ stage # "off" => run # 0
  /\ data \in Seq(Frame)
  /\ received \in Nat /\ attempts \in Nat /\ rows \in Nat
  /\ counted \in [Target -> Nat]
  /\ taken \in [Target -> SUBSET Numbers]
  /\ listening => deadline # 0
  /\ deadline # 0 => active \in Target

\* What the line's level is worth at each place of the two sender threads: the
\* signal thread sees the line whenever the sender may have keyed it, and finds
\* it hidden only when a release was attempted before.
LineInv ==
  /\ activePtt \/ stage \in {"open", "done", "off"}
  /\ (stage \in {"open", "key", "rest", "done"} /\ ptt) => excused
  /\ (signal \in {"released", "exited"} /\ ptt) => excused
  /\ signal = "exited" => stage = "off"

\* A frame the sender will not send (again): of an earlier run or block, or
\* behind the item it is at, or of the run's last series.
Behind(target, seq) ==
  \/ target.run < run
  \/ target.run = run /\ target.block < block
  \/ target = OnAir /\ series = "data" /\ seq < item
  \/ target = OnAir /\ stage \in {"done", "off"}

\* No frame is on its way twice, and none that is was taken before: the sender
\* has passed all of them.
QueueInv ==
  /\ \A i \in 1 .. Len(data) :
       /\ Behind(data[i].target, data[i].seq)
       /\ data[i].seq \notin taken[data[i].target]
  /\ \A i, j \in 1 .. Len(data) : i # j => data[i] # data[j]
  /\ \A t \in Target : \A s \in taken[t] : Behind(t, s)

\* An open attempt has counted what was taken for it; a closed one, nothing.
TallyInv ==
  /\ CountsAreHonest
  /\ deadline = 0 => received = 0 /\ seen = {}
  /\ seen # {} => active \in Target /\ seen \subseteq taken[active]

\* The ledger of attempts and rows.
EveryAttemptInLedger == attempts = rows + (IF deadline = 0 THEN 0 ELSE 1)

-----------------------------------------------------------------------------
(* The type invariant. *)

\* The constants are positive numbers.
LEMMA Sizes ==
  /\ Runs \in Nat /\ Runs > 0 /\ Blocks \in Nat /\ Blocks > 0
  /\ Repeats \in Nat /\ Repeats > 0 /\ Packets \in Nat /\ Packets > 0
  /\ Capacity \in Nat /\ Capacity > 0 /\ Deadline \in Nat /\ Deadline > 0
BY CountAssumption

\* A new program and an empty receiver have the right types.
LEMMA InitTypes == Init => TypeInv
<1> SUFFICES ASSUME Init PROVE TypeInv
  OBVIOUS
<1> USE Sizes DEF Init, SenderInit, ReceiverInit
<1>1. counted \in [Target -> Nat] /\ taken \in [Target -> SUBSET Numbers]
  OBVIOUS
<1>2. control \in Seq(Target) /\ data \in Seq(Frame)
      /\ Len(control) = 0 /\ Len(data) = 0
  OBVIOUS
<1>3. item \in 0 .. Count /\ run \in 0 .. Runs /\ block \in 1 .. Blocks
  BY DEF Count
<1>4. TypeOK
  <2>1. ptt \in BOOLEAN /\ activePtt \in BOOLEAN /\ excused \in BOOLEAN
        /\ listening \in BOOLEAN
    OBVIOUS
  <2>2. /\ series \in {"announce", "data"} /\ stage = "off" /\ signal = "waiting"
        /\ rxPc = "deadline" /\ active = NoTarget /\ seen = {} /\ deadline \in 0 .. Deadline
        /\ Len(control) <= Capacity /\ Len(data) <= Capacity
    BY <1>2
  <2>3. QED
    BY <1>2, <1>3, <2>1, <2>2 DEF TypeOK
<1>5. QED
  BY <1>1, <1>2, <1>4 DEF TypeInv

\* A queue that may have taken a message is the queue, or has it at its end.
LEMMA HeardEnds ==
  ASSUME NEW M, NEW queue \in Seq(M), NEW message \in M,
         NEW result \in Heard(queue, message), Len(queue) <= Capacity
  PROVE  /\ result = queue \/ result = Append(queue, message)
         /\ result \in Seq(M) /\ Len(result) <= Capacity
<1>1. \/ result = queue
      \/ result = Append(queue, message) /\ Len(queue) < Capacity
  <2>1. result = Pushed(queue, message) \/ result = queue
    BY DEF Heard
  <2>2. QED
    BY <2>1 DEF Pushed
<1>2. CASE result = queue
  BY <1>2
<1>3. CASE result = Append(queue, message) /\ Len(queue) < Capacity
  BY <1>3, Sizes, AppendProperties
<1>4. QED
  BY <1>1, <1>2, <1>3

\* Every step of the two sender threads keeps the types.
LEMMA SenderTypes == TypeInv /\ Sender => TypeInv'
<1> SUFFICES ASSUME TypeInv, Sender PROVE TypeInv'
  OBVIOUS
<1> USE Sizes DEF TypeInv, TypeOK, receiver, tally
<1>1. CASE StartRun
  <2>1. run' \in 0 .. Runs /\ run' # 0
    BY <1>1 DEF StartRun
  <2>2. ptt' \in BOOLEAN /\ activePtt' \in BOOLEAN /\ excused' \in BOOLEAN
    BY <1>1 DEF StartRun
  <2>3. QED
    BY <1>1, <2>1, <2>2 DEF StartRun, Count
<1>2. CASE OpenPlatform
  <2>1. /\ UNCHANGED <<run, block, series, item, signal, receiver, ptt, excused>>
        /\ stage = "open" /\ stage' \in {"key", "done"} /\ activePtt' \in BOOLEAN
    BY <1>2 DEF OpenPlatform, SenderMoves
  <2>2. QED
    BY <2>1 DEF Count
<1>3. CASE Key
  BY <1>3 DEF Key, SenderMoves, Count
<1>4. CASE Fail
  <2>1. /\ UNCHANGED <<run, block, series, item, signal, receiver, ptt,
                       activePtt, excused>>
        /\ stage \in {"key", "send"} /\ stage' \in {"done", "abort"}
    BY <1>4 DEF Fail, SenderMoves
  <2>2. QED
    BY <2>1 DEF Count
<1>5. CASE SendItem
  <2>1. OnAir \in Target
    BY <1>5 DEF SendItem, OnAir, Target
  <2>2. item' \in 0 .. Count'
    BY <1>5 DEF SendItem, Count
  <2>3. control' \in Seq(Target) /\ Len(control') <= Capacity
    <3>1. control' = control \/ control' \in Heard(control, OnAir)
      BY <1>5, Zenon DEF SendItem
    <3>2. control \in Seq(Target) /\ Len(control) <= Capacity
      OBVIOUS
    <3> HIDE DEF TypeInv, TypeOK
    <3>3. QED
      BY <3>1, <3>2, <2>1, HeardEnds
  <2>4. series # "announce" => DataFrame \in Frame
    <3>1. item \in 0 .. Count /\ item < Count
      BY <1>5 DEF SendItem
    <3>2. series # "announce" => item \in Numbers
      BY <3>1 DEF Numbers, Count
    <3> HIDE DEF TypeInv, TypeOK
    <3>3. QED
      BY <2>1, <3>2 DEF DataFrame, Frame
  <2>5. data' \in Seq(Frame) /\ Len(data') <= Capacity
    <3>1. \/ data' = data
          \/ series # "announce" /\ data' \in Heard(data, DataFrame)
      BY <1>5, Zenon DEF SendItem
    <3>2. data \in Seq(Frame) /\ Len(data) <= Capacity
      OBVIOUS
    <3> HIDE DEF TypeInv, TypeOK
    <3>3. QED
      BY <3>1, <3>2, <2>4, HeardEnds
  <2>6. QED
    BY <1>5, <2>2, <2>3, <2>5 DEF SendItem
<1>6. CASE SeriesDone
  BY <1>6 DEF SeriesDone, SenderMoves, Count
<1>7. CASE Release
  <2>1. /\ UNCHANGED <<run, block, series, item, signal, receiver, activePtt>>
        /\ stage \in {"release", "abort"} /\ stage' \in {"rest", "done"}
    BY <1>7 DEF Release, SenderMoves
  <2>2. ptt' \in BOOLEAN /\ excused' \in BOOLEAN
    BY <1>7 DEF Release, LineReleased, LineRefuses
  <2>3. QED
    BY <2>1, <2>2 DEF Count
<1>8. CASE NextSeries
  BY <1>8 DEF NextSeries, Count
<1>9. CASE HideLine
  BY <1>9 DEF HideLine, Count
<1>10. CASE EndRun
  BY <1>10 DEF EndRun, SenderMoves, Count
<1>11. CASE CatchSignal
  BY <1>11 DEF CatchSignal, SignalMoves, Count
<1>12. CASE SignalReleases
  <2>1. /\ UNCHANGED <<run, block, series, item, stage, receiver>>
        /\ signal' = "released"
    BY <1>12 DEF SignalReleases, SignalMoves
  <2>2. ptt' \in BOOLEAN /\ activePtt' \in BOOLEAN /\ excused' \in BOOLEAN
    BY <1>12 DEF SignalReleases, SignalMoves, LineReleased, LineRefuses
  <2>3. QED
    BY <2>1, <2>2 DEF Count
<1>13. CASE Exit
  BY <1>13 DEF Exit, SignalMoves, Count
<1>14. QED
  BY <1>1, <1>2, <1>3, <1>4, <1>5, <1>6, <1>7, <1>8, <1>9, <1>10, <1>11,
     <1>12, <1>13 DEF Sender

\* A row adds what was received to the sum of the block it is for.
LEMMA RowTypes ==
  ASSUME TypeInv, active \in Target, WriteRow
  PROVE  counted' \in [Target -> Nat] /\ rows' \in Nat
<1>1. /\ counted \in [Target -> Nat] /\ received \in Nat /\ rows \in Nat
  BY DEF TypeInv
<1>2. QED
  BY <1>1 DEF WriteRow

\* Every step of the receiver keeps the types.
LEMMA ReceiverTypes == TypeInv /\ (ReceiverLoop \/ Tick) => TypeInv'
<1> SUFFICES ASSUME TypeInv, ReceiverLoop \/ Tick PROVE TypeInv'
  OBVIOUS
<1> USE Sizes DEF TypeInv, TypeOK, sender, tally, ReceiverMoves, Count
<1>1. CASE Timeout
  <2>1. /\ counted' \in [Target -> Nat] /\ rows' \in Nat
        /\ seen' = {} /\ received' = 0
    BY <1>1, RowTypes DEF Timeout, ClearTally
  <2>2. /\ deadline' = 0 /\ ~listening' /\ rxPc' = "announcements"
        /\ UNCHANGED <<sender, control, data, active, taken, attempts>>
    BY <1>1 DEF Timeout
  <2>3. TypeOK'
    <3>1. deadline' \in 0 .. Deadline
      BY <2>2
    <3>2. seen' \subseteq 0 .. Packets - 1
      BY <2>1
    <3>3. listening' \in BOOLEAN
      BY <1>1 DEF Timeout
    <3>4. QED
      BY <2>2, <3>1, <3>2, <3>3
  <2>4. QED
    BY <2>1, <2>2, <2>3
<1>2. CASE NoTimeout
  BY <1>2 DEF NoTimeout
<1>3. CASE Announce
  <2>1. Head(control) \in Target /\ control' \in Seq(Target)
        /\ Len(control') <= Capacity
    BY <1>3 DEF Announce
  <2>2. counted' \in [Target -> Nat] /\ received' \in Nat /\ rows' \in Nat
        /\ seen' \subseteq Numbers
    <3>1. CASE deadline # 0
      BY <1>3, <3>1, RowTypes DEF Announce, ClearTally
    <3>2. CASE deadline = 0
      BY <1>3, <3>2 DEF Announce, Numbers
    <3>3. QED
      BY <3>1, <3>2
  <2>3. QED
    <3>1. /\ data' = << >> /\ listening' \in BOOLEAN
          /\ rxPc' \in {"announcements", "ended"}
          /\ deadline' = Deadline /\ attempts' = attempts + 1 /\ taken' = taken
          /\ active' = Head(control) /\ UNCHANGED sender
      BY <1>3 DEF Announce, StartDataReceiver
    <3>2. series' = series /\ Count' = Count
      BY <3>1 DEF Count, sender
    <3> HIDE DEF Count
    <3>3. QED
      BY <2>1, <2>2, <3>1, <3>2 DEF Numbers
<1>4. CASE AnnounceAgain
  BY <1>4 DEF AnnounceAgain
<1>5. CASE NoAnnounce
  BY <1>5 DEF NoAnnounce
<1>6. CASE TakeFrame
  <2>1. Head(data) \in Frame /\ data' \in Seq(Frame) /\ Len(data') <= Capacity
    BY <1>6 DEF TakeFrame
  <2>2. Head(data).seq \in Numbers
    BY <2>1 DEF Frame
  <2>3. QED
    <3>1. active \in Target
      BY <1>6 DEF TakeFrame
    <3>2. taken' \in [Target -> SUBSET Numbers]
      <4>1. \/ taken' = taken
            \/ taken' = [taken EXCEPT ![active] = @ \union {Head(data).seq}]
        BY <1>6, Zenon DEF TakeFrame
      <4>2. taken \in [Target -> SUBSET Numbers]
        OBVIOUS
      <4> HIDE DEF TypeInv, TypeOK
      <4>3. QED
        BY <2>2, <3>1, <4>1, <4>2
    <3>3. seen' \subseteq Numbers
      BY <1>6, <2>2 DEF TakeFrame, Numbers
    <3>5. received' \in Nat /\ deadline' \in {deadline, Deadline}
      BY <1>6 DEF TakeFrame
    <3>6. QED
      BY <1>6, <2>1, <3>1, <3>2, <3>3, <3>5 DEF TakeFrame, Numbers
<1>7. CASE NoFrame
  BY <1>7 DEF NoFrame
<1>8. CASE Tick
  BY <1>8 DEF Tick
<1>9. QED
  BY <1>1, <1>2, <1>3, <1>4, <1>5, <1>6, <1>7, <1>8 DEF ReceiverLoop

\* The types are an invariant.
LEMMA TypesStay == Spec => []TypeInv
<1>1. TypeInv /\ UNCHANGED vars => TypeInv'
  BY DEF vars, sender, receiver, tally, TypeInv, TypeOK, Count
<1>2. TypeInv /\ [Next]_vars => TypeInv'
  BY <1>1, SenderTypes, ReceiverTypes DEF Next
<1>3. QED
  BY InitTypes, <1>2, PTL DEF Spec

\* Type correctness, for every value of the constants.
THEOREM TypesHold == Spec => []TypeOK
<1>1. TypeInv => TypeOK
  BY DEF TypeInv
<1>2. QED
  BY TypesStay, <1>1, PTL

-----------------------------------------------------------------------------
(* The line. *)

\* Every step of the two sender threads keeps what is known of the line.
LEMMA SenderLine == TypeInv /\ LineInv /\ Sender => LineInv'
<1> SUFFICES ASSUME TypeInv, LineInv, Sender PROVE LineInv'
  OBVIOUS
<1> USE DEF LineInv
<1>0. /\ stage \in {"off", "open", "key", "send", "release", "abort", "rest", "done"}
      /\ signal \in {"waiting", "caught", "released", "exited"}
  BY DEF TypeInv, TypeOK
<1>1. CASE StartRun
  BY <1>1 DEF StartRun
<1>2. CASE OpenPlatform
  BY <1>2 DEF OpenPlatform, SenderMoves
<1>3. CASE Key
  BY <1>3 DEF Key, SenderMoves
<1>4. CASE Fail
  BY <1>4 DEF Fail, SenderMoves
<1>5. CASE SendItem
  BY <1>5 DEF SendItem
<1>6. CASE SeriesDone
  BY <1>6 DEF SeriesDone, SenderMoves
<1>7. CASE Release
  BY <1>7 DEF Release, SenderMoves, LineReleased, LineRefuses
<1>8. CASE NextSeries
  BY <1>8 DEF NextSeries
<1>9. CASE HideLine
  BY <1>9 DEF HideLine
<1>10. CASE EndRun
  BY <1>10 DEF EndRun, SenderMoves
<1>11. CASE CatchSignal
  BY <1>0, <1>11 DEF CatchSignal, SignalMoves
<1>12. CASE SignalReleases
  BY <1>12 DEF SignalReleases, SignalMoves, LineReleased, LineRefuses
<1>13. CASE Exit
  BY <1>13 DEF Exit, SignalMoves
<1>14. QED
  BY <1>1, <1>2, <1>3, <1>4, <1>5, <1>6, <1>7, <1>8, <1>9, <1>10, <1>11,
     <1>12, <1>13 DEF Sender

\* The receiver leaves the sender alone.
LEMMA ReceiverLeavesSender == ReceiverLoop \/ Tick => UNCHANGED sender
BY DEF ReceiverLoop, ReceiverMoves, Timeout, NoTimeout, Announce, AnnounceAgain,
       NoAnnounce, TakeFrame, NoFrame, Tick

\* After a signal the line is free, but for a late keying or a refused release.
THEOREM LineIsLeftReleased == Spec => []SignalLeavesLineReleased
<1>1. Init => LineInv
  BY DEF Init, SenderInit, LineInv
<1>2. LineInv /\ UNCHANGED sender => LineInv'
  BY DEF sender, LineInv
<1>3. UNCHANGED vars => UNCHANGED sender
  BY DEF vars
<1>4. TypeInv /\ LineInv /\ [Next]_vars => LineInv'
  BY <1>2, <1>3, SenderLine, ReceiverLeavesSender DEF Next
<1>5. LineInv => SignalLeavesLineReleased
  BY DEF LineInv, SignalLeavesLineReleased
<1>6. QED
  BY <1>1, <1>4, <1>5, TypesStay, PTL DEF Spec

-----------------------------------------------------------------------------
(* The queue of frames. *)

\* What the sender has passed stays behind it.
LEMMA BehindStays ==
  ASSUME TypeInv, Sender, NEW t \in Target, NEW s \in Numbers, Behind(t, s)
  PROVE  Behind(t, s)'
<1> USE DEF Behind, OnAir
<1>0. /\ run \in Nat /\ block \in Nat /\ item \in Nat /\ s \in Nat
      /\ t.run \in Nat /\ t.block \in Nat
      /\ t = [run |-> t.run, block |-> t.block]
      /\ series \in {"announce", "data"}
  BY Sizes DEF TypeInv, TypeOK, Count, Target, Numbers
<1>1. CASE StartRun
  BY <1>0, <1>1 DEF StartRun
<1>2. CASE OpenPlatform
  BY <1>0, <1>2 DEF OpenPlatform, SenderMoves
<1>3. CASE Key
  BY <1>0, <1>3 DEF Key, SenderMoves
<1>4. CASE Fail
  BY <1>0, <1>4 DEF Fail, SenderMoves
<1>5. CASE SendItem
  BY <1>0, <1>5 DEF SendItem
<1>6. CASE SeriesDone
  BY <1>0, <1>6 DEF SeriesDone, SenderMoves
<1>7. CASE Release
  BY <1>0, <1>7 DEF Release, SenderMoves
<1>8. CASE NextSeries
  BY <1>0, <1>8 DEF NextSeries
<1>9. CASE HideLine
  BY <1>0, <1>9 DEF HideLine
<1>10. CASE EndRun
  BY <1>0, <1>10 DEF EndRun, SenderMoves
<1>11. CASE CatchSignal
  BY <1>0, <1>11 DEF CatchSignal, SignalMoves
<1>12. CASE SignalReleases
  BY <1>0, <1>12 DEF SignalReleases, SignalMoves
<1>13. CASE Exit
  BY <1>0, <1>13 DEF Exit, SignalMoves
<1>14. QED
  BY <1>1, <1>2, <1>3, <1>4, <1>5, <1>6, <1>7, <1>8, <1>9, <1>10, <1>11,
     <1>12, <1>13 DEF Sender

\* The frame that goes out was not sent before, and is behind once it is out.
LEMMA SentFrameIsNew ==
  ASSUME TypeInv, QueueInv, SendItem, series # "announce", NEW f, f = DataFrame
  PROVE  /\ f \in Frame
         /\ \A i \in 1 .. Len(data) : data[i] # f
         /\ f.seq \notin taken[f.target]
         /\ Behind(f.target, f.seq)'
<1>0. /\ run \in Nat /\ block \in Nat /\ item \in Nat /\ series = "data"
      /\ OnAir \in Target /\ item \in Numbers
  BY Sizes DEF TypeInv, TypeOK, Count, SendItem, OnAir, Target, Numbers
<1>1. f \in Frame /\ f.target = OnAir /\ f.seq = item
  BY <1>0 DEF DataFrame, Frame
<1>2. ~Behind(f.target, f.seq)
  BY <1>0, <1>1 DEF Behind, SendItem, OnAir
<1>3. Behind(f.target, f.seq)'
  BY <1>0, <1>1 DEF Behind, SendItem, OnAir
<1>4. QED
  BY <1>0, <1>1, <1>2, <1>3 DEF QueueInv

\* The sender keeps the queue as it should be.
LEMMA SenderQueue == TypeInv /\ QueueInv /\ Sender => QueueInv'
<1> SUFFICES ASSUME TypeInv, QueueInv, Sender PROVE QueueInv'
  OBVIOUS
<1>0. data \in Seq(Frame) /\ taken \in [Target -> SUBSET Numbers]
  BY DEF TypeInv
<1>1. ASSUME NEW f \in Frame, NEW i \in 1 .. Len(data), f = data[i]
      PROVE  Behind(f.target, f.seq)' /\ f.seq \notin taken[f.target]
  <2>1. f.target \in Target /\ f.seq \in Numbers
    BY DEF Frame
  <2>2. Behind(f.target, f.seq) /\ f.seq \notin taken[f.target]
    BY <1>1 DEF QueueInv
  <2>3. QED
    BY <2>1, <2>2, BehindStays
<1>2. ASSUME NEW t \in Target, NEW s \in taken[t]
      PROVE  Behind(t, s)'
  BY <1>0, BehindStays DEF QueueInv
<1>3. CASE data' = data /\ taken' = taken
  <2>1. ASSUME NEW i \in 1 .. Len(data')
        PROVE  (Behind(data[i].target, data[i].seq)
                  /\ data[i].seq \notin taken[data[i].target])'
    <3>1. PICK f \in Frame : f = data[i]
      BY <1>0, <1>3
    <3>2. Behind(f.target, f.seq)' /\ f.seq \notin taken[f.target]
      BY <1>1, <1>3, <3>1
    <3>3. QED
      BY <1>3, <3>1, <3>2 DEF Behind
  <2>2. QED
    BY <1>2, <1>3, <2>1 DEF QueueInv
<1>4. CASE SendItem /\ series # "announce" /\ data' # data
  <2>1. PICK f : f = DataFrame
    OBVIOUS
  <2>2. /\ f \in Frame /\ f.seq \notin taken[f.target] /\ Behind(f.target, f.seq)'
        /\ \A i \in 1 .. Len(data) : data[i] # f
    BY <1>4, <2>1, SentFrameIsNew
  <2>3. taken' = taken /\ data' = Append(data, f)
    <3>1. taken' = taken /\ data' \in Heard(data, f)
      BY <1>4, <2>1 DEF SendItem, tally
    <3>2. Len(data) <= Capacity
      BY DEF TypeInv, TypeOK
    <3>3. QED
      BY <1>0, <1>4, <2>2, <3>1, <3>2, HeardEnds
  <2>4. /\ Len(data) \in Nat /\ Len(data') = Len(data) + 1
        /\ \A i \in 1 .. Len(data') :
             data'[i] = IF i = Len(data) + 1 THEN f ELSE data[i]
    BY <1>0, <2>3
  <2>5. ASSUME NEW i \in 1 .. Len(data')
        PROVE  (Behind(data[i].target, data[i].seq)
                  /\ data[i].seq \notin taken[data[i].target])'
    <3>1. PICK g \in Frame : g = data'[i]
      BY <1>0, <2>2, <2>4
    <3>2. Behind(g.target, g.seq)' /\ g.seq \notin taken[g.target]
      BY <1>1, <2>2, <2>4, <3>1
    <3>3. QED
      BY <2>3, <3>1, <3>2 DEF Behind
  <2>6. \A i, j \in 1 .. Len(data') : i # j => data'[i] # data'[j]
    BY <2>2, <2>4 DEF QueueInv
  <2>7. QED
    BY <1>2, <2>3, <2>5, <2>6 DEF QueueInv
<1>5. \/ data' = data /\ taken' = taken
      \/ SendItem /\ series # "announce" /\ data' # data
  BY DEF Sender, StartRun, OpenPlatform, Key, Fail, SendItem, SeriesDone, Release,
         NextSeries, HideLine, EndRun, CatchSignal, SignalReleases, Exit,
         SenderMoves, SignalMoves, receiver, tally
<1>6. QED
  BY <1>3, <1>4, <1>5

\* A receiver that takes no frame at most empties the queue.
LEMMA QueueUntaken ==
  ASSUME QueueInv, UNCHANGED <<sender, taken>>, data' = data \/ data' = << >>
  PROVE  QueueInv'
<1>1. CASE data' = data
  BY <1>1 DEF QueueInv, Behind, OnAir, sender
<1>2. CASE data' = << >>
  BY <1>2 DEF QueueInv, Behind, OnAir, sender
<1>3. QED
  BY <1>1, <1>2

\* What a frame off the queue does: it counts, for it was not taken before.
LEMMA TakenFrameCounts ==
  ASSUME TypeInv, QueueInv, TallyInv, TakeFrame, Head(data).target = active
  PROVE  /\ active \in Target
         /\ Head(data).seq \in Numbers /\ Head(data).seq \notin taken[active]
         /\ seen' = seen \union {Head(data).seq}
         /\ received' = received + 1 /\ duplicates' = duplicates
         /\ taken' = [taken EXCEPT ![active] = @ \union {Head(data).seq}]
         /\ deadline' = Deadline
<1>1. data \in Seq(Frame) /\ data # << >> /\ listening
  BY DEF TakeFrame, TypeInv
<1>2. Head(data) = data[1] /\ 1 \in 1 .. Len(data) /\ Head(data) \in Frame
  BY <1>1
<1>3. Head(data).seq \in Numbers /\ active \in Target
  BY <1>1, <1>2 DEF Frame, TypeInv
<1>4. Head(data).seq \notin taken[active]
  BY <1>2 DEF QueueInv
<1>5. Head(data).seq \notin seen
  BY <1>4 DEF TallyInv
<1>6. QED
  BY <1>3, <1>4, <1>5 DEF TakeFrame

\* The receiver keeps the queue as it should be.
LEMMA ReceiverQueue ==
  TypeInv /\ QueueInv /\ TallyInv /\ (ReceiverLoop \/ Tick) => QueueInv'
<1> SUFFICES ASSUME TypeInv, QueueInv, TallyInv, ReceiverLoop \/ Tick
             PROVE  QueueInv'
  OBVIOUS
<1>1. UNCHANGED sender
  BY ReceiverLeavesSender
<1>2. CASE TakeFrame
  <2>0. data \in Seq(Frame) /\ data # << >> /\ data' = Tail(data)
        /\ taken \in [Target -> SUBSET Numbers]
    BY <1>2 DEF TakeFrame, TypeInv
  <2>1. /\ Len(data) \in Nat /\ Len(data') = Len(data) - 1
        /\ \A i \in 1 .. Len(data') :
             /\ data'[i] = data[i + 1] /\ i + 1 \in 1 .. Len(data)
             /\ data[i + 1] # Head(data) /\ data[i + 1] \in Frame
        /\ Head(data) \in Frame /\ Head(data) = data[1] /\ 1 \in 1 .. Len(data)
    BY <2>0 DEF QueueInv
  <2>2. CASE Head(data).target # active
    <3>1. taken' = taken
      BY <1>2, <2>2 DEF TakeFrame
    <3>2. ASSUME NEW i \in 1 .. Len(data')
          PROVE  /\ Behind(data[i].target, data[i].seq)'
                 /\ data'[i].seq \notin taken'[data'[i].target]
      <4>1. /\ Behind(data[i + 1].target, data[i + 1].seq)
            /\ data[i + 1].seq \notin taken[data[i + 1].target]
            /\ data'[i] = data[i + 1]
        BY <2>1 DEF QueueInv
      <4>2. QED
        BY <1>1, <3>1, <4>1 DEF Behind, OnAir, sender
    <3>3. \A i, j \in 1 .. Len(data') : i # j => data'[i] # data'[j]
      BY <2>1 DEF QueueInv
    <3>4. ASSUME NEW t \in Target, NEW s \in taken'[t]
          PROVE  Behind(t, s)'
      <4>1. Behind(t, s)
        BY <3>1 DEF QueueInv
      <4>2. QED
        BY <1>1, <4>1 DEF Behind, OnAir, sender
    <3>5. QED
      BY <3>2, <3>3, <3>4 DEF QueueInv
  <2>3. CASE Head(data).target = active
    <3>1. /\ active \in Target /\ Head(data).seq \in Numbers
          /\ taken' = [taken EXCEPT ![active] = @ \union {Head(data).seq}]
      BY <1>2, <2>3, TakenFrameCounts
    <3>2. ASSUME NEW i \in 1 .. Len(data')
          PROVE  /\ data'[i].seq \notin taken'[data'[i].target]
                 /\ Behind(data[i].target, data[i].seq)'
      <4>1. PICK g \in Frame : g = data'[i] /\ g = data[i + 1]
        BY <2>1
      <4>2. g.seq \notin taken[g.target] /\ Behind(g.target, g.seq) /\ g # Head(data)
        BY <2>1, <4>1 DEF QueueInv
      <4>3. g.target = active => g.seq # Head(data).seq
        BY <2>1, <2>3, <4>2 DEF Frame
      <4>4. g.seq \notin taken'[g.target]
        BY <2>0, <3>1, <4>2, <4>3
      <4>5. QED
        BY <1>1, <4>1, <4>2, <4>4 DEF Behind, OnAir, sender
    <3>3. \A i, j \in 1 .. Len(data') : i # j => data'[i] # data'[j]
      BY <2>1 DEF QueueInv
    <3>4. ASSUME NEW t \in Target, NEW s \in taken'[t]
          PROVE  Behind(t, s)'
      <4>1. \/ s \in taken[t]
            \/ t = Head(data).target /\ s = Head(data).seq
        <5>1. CASE t = active
          BY <2>0, <2>3, <3>1, <3>4, <5>1
        <5>2. CASE t # active
          BY <2>0, <3>1, <3>4, <5>2
        <5>3. QED
          BY <5>1, <5>2
      <4>2. Behind(t, s)
        BY <2>1, <4>1 DEF QueueInv
      <4>3. QED
        BY <1>1, <4>2 DEF Behind, OnAir, sender
    <3>5. QED
      BY <3>2, <3>3, <3>4 DEF QueueInv
  <2>4. QED
    BY <2>2, <2>3
<1>3. CASE ~TakeFrame
  <2>1. taken' = taken /\ (data' = data \/ data' = << >>)
    BY <1>3 DEF ReceiverLoop, Timeout, NoTimeout, Announce, AnnounceAgain,
         NoAnnounce, NoFrame, Tick, StartDataReceiver, tally
  <2>2. QED
    BY <1>1, <2>1, QueueUntaken
<1>4. QED
  BY <1>2, <1>3

-----------------------------------------------------------------------------
(* The counts and the ledger. *)

\* The receiver keeps the counts of the open attempt and of the rows.
LEMMA ReceiverTally ==
  TypeInv /\ QueueInv /\ TallyInv /\ (ReceiverLoop \/ Tick) => TallyInv'
<1> SUFFICES ASSUME TypeInv, QueueInv, TallyInv, ReceiverLoop \/ Tick
             PROVE  TallyInv'
  OBVIOUS
<1>0. /\ counted \in [Target -> Nat] /\ received \in Nat /\ deadline \in Nat
      /\ taken \in [Target -> SUBSET Numbers] /\ duplicates = 0
      /\ deadline # 0 => active \in Target
      /\ deadline = 0 => received = 0 /\ seen = {}
      /\ seen # {} => active \in Target /\ seen \subseteq taken[active]
      /\ \A t \in Target : counted[t] + (IF t = active THEN received ELSE 0)
                             = Cardinality(taken[t])
  BY Sizes DEF TypeInv, TypeOK, TallyInv, CountsAreHonest
<1>1. CASE UNCHANGED <<seen, received, duplicates, counted, taken, active>>
           /\ (deadline' = 0 <=> deadline = 0)
  BY <1>1 DEF TallyInv, CountsAreHonest
<1>2. CASE /\ active \in Target /\ WriteRow /\ ClearTally /\ taken' = taken
  <2>1. \A t \in Target : counted'[t] = Cardinality(taken[t])
    BY <1>0, <1>2 DEF WriteRow
  <2>2. /\ counted' \in [Target -> Nat] /\ seen' = {} /\ received' = 0
        /\ duplicates' = 0 /\ taken' = taken
    BY <1>0, <1>2 DEF WriteRow, ClearTally
  <2>3. QED
    BY <2>1, <2>2 DEF TallyInv, CountsAreHonest
<1>3. CASE /\ deadline = 0
           /\ UNCHANGED <<seen, received, duplicates, counted, taken>>
  BY <1>0, <1>3 DEF TallyInv, CountsAreHonest
<1>4. CASE TakeFrame
  <2>1. CASE Head(data).target # active
    BY <1>1, <1>4, <2>1 DEF TakeFrame
  <2>2. CASE Head(data).target = active
    <3> DEFINE n == Head(data).seq
    <3>1. /\ active \in Target /\ n \in Numbers /\ n \notin taken[active]
          /\ seen' = seen \union {n} /\ received' = received + 1
          /\ duplicates' = duplicates
          /\ taken' = [taken EXCEPT ![active] = @ \union {n}]
          /\ deadline' = Deadline /\ UNCHANGED <<counted, active>>
      BY <1>4, <2>2, TakenFrameCounts DEF TakeFrame
    <3> HIDE DEF n
    <3>2. IsFiniteSet(taken[active])
      <4>1. IsFiniteSet(Numbers)
        BY Sizes, FS_Interval DEF Numbers
      <4>2. taken[active] \in SUBSET Numbers
        BY <1>0, <3>1
      <4>3. QED
        BY <4>1, <4>2, FS_Subset
    <3>3. Cardinality(taken'[active]) = Cardinality(taken[active]) + 1
      <4>1. taken'[active] = taken[active] \union {n}
        BY <1>0, <3>1
      <4>2. QED
        BY <3>1, <3>2, <4>1, FS_AddElement
    <3>4. \A t \in Target : t # active => taken'[t] = taken[t]
      BY <1>0, <3>1
    <3>5. \A t \in Target : counted'[t] + (IF t = active THEN received' ELSE 0)
                              = Cardinality(taken'[t])
      BY <1>0, <3>1, <3>3, <3>4
    <3>6. seen' \subseteq taken'[active] /\ deadline' # 0
      BY <1>0, <3>1, Sizes
    <3>7. QED
      BY <1>0, <3>1, <3>5, <3>6 DEF TallyInv, CountsAreHonest
  <2>3. QED
    BY <2>1, <2>2
<1>5. CASE Timeout
  BY <1>0, <1>2, <1>5 DEF Timeout
<1>6. CASE Announce
  BY <1>0, <1>2, <1>3, <1>6 DEF Announce
<1>7. CASE NoTimeout \/ AnnounceAgain \/ NoAnnounce \/ NoFrame
  BY <1>1, <1>7 DEF NoTimeout, AnnounceAgain, NoAnnounce, NoFrame, tally
<1>8. CASE Tick
  BY <1>0, <1>1, <1>8 DEF Tick, tally
<1>9. QED
  BY <1>4, <1>5, <1>6, <1>7, <1>8 DEF ReceiverLoop

\* The receiver keeps the ledger.
LEMMA ReceiverLedger ==
  TypeInv /\ EveryAttemptInLedger /\ (ReceiverLoop \/ Tick) => EveryAttemptInLedger'
<1> SUFFICES ASSUME TypeInv, EveryAttemptInLedger, ReceiverLoop \/ Tick
             PROVE  EveryAttemptInLedger'
  OBVIOUS
<1> USE Sizes DEF EveryAttemptInLedger
<1>0. attempts \in Nat /\ rows \in Nat /\ deadline \in Nat
  BY DEF TypeInv, TypeOK
<1>1. CASE Timeout
  BY <1>0, <1>1 DEF Timeout, WriteRow
<1>2. CASE Announce
  BY <1>0, <1>2 DEF Announce, WriteRow
<1>3. CASE TakeFrame
  BY <1>0, <1>3 DEF TakeFrame, TypeInv
<1>4. CASE NoTimeout \/ AnnounceAgain \/ NoAnnounce \/ NoFrame \/ Tick
  BY <1>0, <1>4 DEF NoTimeout, AnnounceAgain, NoAnnounce, NoFrame, Tick
<1>5. QED
  BY <1>1, <1>2, <1>3, <1>4 DEF ReceiverLoop

\* The whole invariant holds.
LEMMA InvariantHolds == Spec => [](QueueInv /\ TallyInv /\ EveryAttemptInLedger)
<1> DEFINE Inv == QueueInv /\ TallyInv /\ EveryAttemptInLedger
<1>1. Init => Inv
  <2> SUFFICES ASSUME Init PROVE Inv
    OBVIOUS
  <2>1. QueueInv /\ EveryAttemptInLedger
    BY DEF Init, ReceiverInit, QueueInv, EveryAttemptInLedger
  <2>2. TallyInv
    BY FS_EmptySet DEF Init, ReceiverInit, TallyInv, CountsAreHonest, Target, NoTarget
  <2>3. QED
    BY <2>1, <2>2
<1>2. TypeInv /\ Inv /\ Sender => TallyInv' /\ EveryAttemptInLedger'
  <2> SUFFICES ASSUME TypeInv, Inv, Sender
               PROVE  TallyInv' /\ EveryAttemptInLedger'
    OBVIOUS
  <2>1. UNCHANGED <<active, tally, deadline, attempts, rows>>
    BY DEF Sender, StartRun, OpenPlatform, Key, Fail, SendItem, SeriesDone, Release,
           NextSeries, HideLine, EndRun, CatchSignal, SignalReleases, Exit,
           SenderMoves, SignalMoves, receiver
  <2>2. QED
    BY <2>1 DEF tally, TallyInv, CountsAreHonest, EveryAttemptInLedger
<1>3. Inv /\ UNCHANGED vars => Inv'
  BY DEF vars, sender, receiver, tally, QueueInv, Behind, OnAir, TallyInv,
         CountsAreHonest, EveryAttemptInLedger
<1>4. TypeInv /\ Inv /\ [Next]_vars => Inv'
  BY <1>2, <1>3, SenderQueue, ReceiverQueue, ReceiverTally, ReceiverLedger DEF Next
<1>5. QED
  BY <1>1, <1>4, TypesStay, PTL DEF Spec

\* The rows count each frame of their block once, and no other.
THEOREM RowsAreHonest == Spec => []CountsAreHonest
<1>1. TallyInv => CountsAreHonest
  BY DEF TallyInv
<1>2. QED
  BY InvariantHolds, <1>1, PTL

\* Every attempt but an open one has its row, and only one.
THEOREM LedgerBalances == Spec => []EveryAttemptInLedger
BY InvariantHolds, PTL

=============================================================================
