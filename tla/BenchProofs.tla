----------------------------- MODULE BenchProofs -----------------------------
(***************************************************************************)
(* Proofs about the receiver of the bench, for every pretrigger, window,   *)
(* queue length and number of samples: a candidate is an unbroken run of   *)
(* samples, although half of it may come out of a ring that has wrapped,   *)
(* and every decode starts at one sample a symbol.  Then what the three    *)
(* programs report when they end.                                          *)
(***************************************************************************)
EXTENDS Bench, Integers, SequenceTheorems, TLAPS

P == Config.pretrigger

Detectors ==
  [seen : Nat, noise : BOOLEAN, active : BOOLEAN, candidate : Seq(Nat),
   quiet : Nat, cooldown : Nat, ring : [0 .. P - 1 -> Nat], write : 0 .. P - 1,
   count : 0 .. P]

Consecutive(s) == \A i \in 1 .. Len(s) : s[i] = s[1] + i - 1

\* The slot of the sample that was remembered i samples ago.
Slot(write, i) == IF i <= write THEN write - i ELSE write + P - i

\* After h samples the ring holds the newest of them, the newest in front of
\* the write index.
RingHolds(d, h) == \A i \in 1 .. d.count : d.ring[Slot(d.write, i)] = h + 1 - i

\* A candidate in progress is unbroken up to the newest sample.
CandidateHolds(d, h) ==
  d.active => /\ d.candidate # << >> /\ Consecutive(d.candidate)
              /\ d.candidate[Len(d.candidate)] = h

DetectorInv ==
  /\ heard \in Nat
  /\ detector \in Detectors
  /\ RingHolds(detector, heard) /\ CandidateHolds(detector, heard)

JobsInv ==
  /\ jobs \in Seq(Seq(Nat)) /\ \A k \in 1 .. Len(jobs) : Consecutive(jobs[k])
  /\ job \in Seq(Nat) /\ Consecutive(job)

IInv == DetectorInv /\ JobsInv /\ EachDecodeStartsClean
-----------------------------------------------------------------------------
(* The ring. *)

\* The constants the detector runs with.
LEMMA Settings ==
  /\ P \in Nat /\ P > 0 /\ Config.warmup \in Nat /\ Config.release \in Nat
  /\ Config.maximum \in Nat /\ Config.cooldown \in Nat /\ Config.capture \in Nat
BY ReceiverAssumption DEF ConfigIsValid, P

\* What the remainder does to an index that is past the end at most once.
LEMMA Wraps ==
  ASSUME NEW x \in Nat, x < P + P
  PROVE  x % P = IF x < P THEN x ELSE x - P
<1>1. P \in Nat /\ P > 0
  BY Settings
<1> HIDE DEF P
<1>2. CASE x < P
  BY <1>1, <1>2
<1>3. CASE x >= P
  <2> DEFINE y == x - P
  <2>1. y \in 0 .. P - 1 /\ x = P + y
    BY <1>1, <1>3
  <2>2. (P + y) % P = y
    BY <1>1, <2>1
  <2>3. QED
    BY <1>1, <1>3, <2>1, <2>2
<1>4. QED
  BY <1>1, <1>2, <1>3

\* The ring is unrolled from the oldest sample it has to the newest.
LEMMA UnrolledInOrder ==
  ASSUME NEW d \in Detectors, NEW h \in Nat, RingHolds(d, h)
  PROVE  /\ Pretriggered(d, Config) \in Seq(Nat)
         /\ Len(Pretriggered(d, Config)) = d.count
         /\ \A i \in 1 .. d.count : Pretriggered(d, Config)[i] = h - d.count + i
<1> DEFINE w == d.write
           n == d.count
           r == d.ring
<1>1. w \in 0 .. P - 1 /\ n \in 0 .. P /\ r \in [0 .. P - 1 -> Nat]
  BY DEF Detectors
<1>2. P \in Nat /\ P > 0
  BY Settings
<1>3. Pretriggered(d, Config) = [i \in 1 .. n |-> r[(w + P - n + i - 1) % P]]
  BY DEF Pretriggered, P
<1>4. \A i \in 1 .. n : r[Slot(w, i)] = h + 1 - i
  BY DEF RingHolds
<1> HIDE DEF w, n, r, P
<1>5. ASSUME NEW i \in 1 .. n
      PROVE  /\ (w + P - n + i - 1) % P \in 0 .. P - 1
             /\ r[(w + P - n + i - 1) % P] = h - n + i
  <2> DEFINE j == n + 1 - i
  <2>1. j \in 1 .. n /\ w + P - n + i - 1 = w + P - j /\ w + P - j \in Nat
        /\ w + P - j < P + P
    BY <1>1, <1>2
  <2>2. (w + P - j) % P = Slot(w, j)
    <3> DEFINE x == w + P - j
    <3>1. x \in Nat /\ x < P + P
      BY <2>1
    <3>2. x % P = IF x < P THEN x ELSE x - P
      <4> HIDE DEF x
      <4>1. QED
        BY <3>1, Wraps
    <3>3. QED
      BY <1>1, <1>2, <2>1, <3>2 DEF Slot
  <2>3. Slot(w, j) \in 0 .. P - 1
    BY <1>1, <1>2, <2>1 DEF Slot
  <2>4. r[Slot(w, j)] = h + 1 - j /\ h + 1 - j = h - n + i
    BY <1>1, <1>2, <1>4, <2>1
  <2>5. QED
    BY <2>1, <2>2, <2>3, <2>4
<1> DEFINE unrolled == [i \in 1 .. n |-> r[(w + P - n + i - 1) % P]]
<1>6. \A i \in 1 .. n : unrolled[i] \in Nat /\ unrolled[i] = h - n + i
  BY <1>1, <1>5
<1>7. unrolled \in [1 .. n -> Nat]
  BY <1>1, <1>5
<1> HIDE DEF unrolled
<1>8. unrolled \in Seq(Nat) /\ Len(unrolled) = n
  BY <1>1, <1>2, <1>7
<1>9. QED
  BY <1>3, <1>6, <1>8 DEF n, unrolled

\* A sample behind an unbroken run that ends with the one before it.
LEMMA AppendNext ==
  ASSUME NEW h \in Nat, NEW s \in Seq(Nat), Consecutive(s),
         s # << >> => s[Len(s)] = h
  PROVE  /\ Append(s, h + 1) \in Seq(Nat) /\ Append(s, h + 1) # << >>
         /\ Consecutive(Append(s, h + 1))
         /\ Append(s, h + 1)[Len(Append(s, h + 1))] = h + 1
<1> DEFINE t == Append(s, h + 1)
<1>1. /\ t \in Seq(Nat) /\ Len(t) = Len(s) + 1 /\ Len(s) \in Nat
      /\ \A i \in 1 .. Len(s) : t[i] = s[i]
      /\ t[Len(s) + 1] = h + 1
  BY AppendProperties
<1>2. \A i \in 1 .. Len(s) : s[i] \in Nat /\ s[i] = s[1] + i - 1
  BY DEF Consecutive
<1> HIDE DEF t
<1>3. Consecutive(t)
  <2>1. CASE s = << >>
    <3>1. Len(t) = 1
      BY <1>1, <2>1
    <3>2. QED
      BY <1>1, <2>1, <3>1 DEF Consecutive
  <2>2. CASE s # << >>
    <3>1. Len(s) \in 1 .. Len(s) /\ 1 \in 1 .. Len(s)
      BY <2>2
    <3>2. h = s[1] + Len(s) - 1 /\ t[1] = s[1] /\ s[1] \in Nat
      BY <1>1, <1>2, <2>2, <3>1
    <3>3. ASSUME NEW i \in 1 .. Len(t) PROVE t[i] = t[1] + i - 1
      <4>1. CASE i \in 1 .. Len(s)
        BY <1>1, <1>2, <3>2, <4>1
      <4>2. CASE i = Len(s) + 1
        BY <1>1, <3>2, <4>2
      <4>3. QED
        BY <1>1, <4>1, <4>2
    <3>4. QED
      BY <3>3 DEF Consecutive
  <2>3. QED
    BY <2>1, <2>2
<1>4. t # << >> /\ t[Len(t)] = h + 1
  BY <1>1
<1>5. QED
  BY <1>1, <1>3, <1>4 DEF t

\* A sample more in the ring: it takes the slot of the oldest if the ring is full.
LEMMA RememberedHolds ==
  ASSUME NEW d \in Detectors, NEW h \in Nat, RingHolds(d, h), NEW level
  PROVE  LET kept == Remembered(d, Config, h + 1, level) IN
           /\ kept \in Detectors /\ RingHolds(kept, h + 1)
           /\ kept.active = d.active /\ kept.candidate = d.candidate
<1> DEFINE kept == Remembered(d, Config, h + 1, level)
           w == d.write
           n == d.count
           r == d.ring
           seen == IF d.seen < Config.warmup THEN d.seen + 1 ELSE d.seen
           noise == Noisy(d, level)
           cooldown == IF ~d.active /\ d.cooldown > 0 THEN d.cooldown - 1 ELSE d.cooldown
           ring == [r EXCEPT ![w] = h + 1]
           write == (w + 1) % P
           count == IF n < P THEN n + 1 ELSE n
<1>1. /\ w \in 0 .. P - 1 /\ n \in 0 .. P /\ r \in [0 .. P - 1 -> Nat]
      /\ d.noise \in BOOLEAN /\ d.seen \in Nat /\ d.cooldown \in Nat /\ d.active \in BOOLEAN
      /\ d.candidate \in Seq(Nat) /\ d.quiet \in Nat
  BY DEF Detectors
<1>2. P \in Nat /\ P > 0
  BY Settings
<1>3. kept = [d EXCEPT !.seen = seen, !.noise = noise, !.cooldown = cooldown,
                       !.ring = ring, !.write = write, !.count = count]
  BY DEF Remembered, Detectors, P
<1>4. \A i \in 1 .. n : r[Slot(w, i)] = h + 1 - i
  BY DEF RingHolds
<1>5. seen \in Nat /\ noise \in BOOLEAN
  <2>1. CASE d.seen = 0
    BY <1>1, <2>1 DEF Noisy
  <2>2. CASE d.seen # 0
    BY <1>1, <2>2 DEF Noisy
  <2>3. QED
    BY <2>1, <2>2
<1>6. cooldown \in Nat
  BY <1>1
<1> HIDE DEF kept, w, n, r, P, seen, noise, cooldown
<1>7. ring \in [0 .. P - 1 -> Nat] /\ ring[w] = h + 1
      /\ \A i \in 0 .. P - 1 : i # w => ring[i] = r[i]
  BY <1>1
<1>8. write = IF w + 1 < P THEN w + 1 ELSE 0
  <2> DEFINE x == w + 1
  <2>1. x \in Nat /\ x < P + P
    BY <1>1, <1>2
  <2>2. x % P = IF x < P THEN x ELSE x - P
    <3> HIDE DEF x
    <3>1. QED
      BY <2>1, Wraps
  <2>3. QED
    BY <1>1, <1>2, <2>2
<1>9. write \in 0 .. P - 1 /\ count \in 0 .. P
  BY <1>1, <1>2, <1>8
<1> HIDE DEF ring, write
<1>10. ASSUME NEW i \in 1 .. count
       PROVE  ring[Slot(write, i)] = h + 1 + 1 - i
  <2>1. CASE i = 1
    <3>1. Slot(write, 1) = w
      BY <1>1, <1>2, <1>8 DEF Slot
    <3>2. QED
      BY <1>7, <2>1, <3>1
  <2>2. CASE i # 1
    <3>1. i - 1 \in 1 .. n /\ i - 1 < P
      BY <1>1, <1>2, <2>2
    <3>2. Slot(write, i) = Slot(w, i - 1) /\ Slot(w, i - 1) \in 0 .. P - 1
          /\ Slot(w, i - 1) # w
      BY <1>1, <1>2, <1>8, <3>1 DEF Slot
    <3>3. r[Slot(w, i - 1)] = h + 1 - (i - 1)
      BY <1>4, <3>1
    <3>4. h + 1 - (i - 1) = h + 1 + 1 - i
      BY <1>1, <1>2
    <3>5. QED
      BY <1>7, <3>2, <3>3, <3>4
  <2>3. QED
    BY <2>1, <2>2
<1> HIDE DEF count
<1>11. /\ kept = [seen |-> seen, noise |-> noise, active |-> d.active,
                  candidate |-> d.candidate, quiet |-> d.quiet,
                  cooldown |-> cooldown, ring |-> ring, write |-> write, count |-> count]
  BY <1>3 DEF Detectors
<1>12. kept \in Detectors
  BY <1>1, <1>5, <1>6, <1>7, <1>9, <1>11 DEF Detectors
<1>13. kept.ring = ring /\ kept.write = write /\ kept.count = count
       /\ kept.active = d.active /\ kept.candidate = d.candidate
  BY <1>11
<1>14. RingHolds(kept, h + 1)
  BY <1>10, <1>13 DEF RingHolds
<1>15. QED
  BY <1>12, <1>13, <1>14 DEF kept

-----------------------------------------------------------------------------
(* One sample through the detector. *)

LEMMA ProcessKeepsRuns ==
  ASSUME NEW d \in Detectors, NEW h \in Nat, RingHolds(d, h), CandidateHolds(d, h),
         NEW level, NEW trigger
  PROVE  LET after == Process(d, Config, h + 1, level, trigger) IN
           /\ after.detector \in Detectors
           /\ RingHolds(after.detector, h + 1) /\ CandidateHolds(after.detector, h + 1)
           /\ after.candidate \in Seq(Nat) /\ Consecutive(after.candidate)
<1> DEFINE opens == Opens(d, Config, level, trigger)
           captured == Captured(d, Config, h + 1, opens)
           quiet == Quieted(d, level, opens)
           kept == Remembered(d, Config, h + 1, level)
           open == [kept EXCEPT !.active = TRUE, !.candidate = captured, !.quiet = quiet]
           closed == Closed(open, Config)
           after == Process(d, Config, h + 1, level, trigger)
<1>1. /\ kept \in Detectors /\ RingHolds(kept, h + 1)
      /\ kept.active = d.active /\ kept.candidate = d.candidate
  BY RememberedHolds
<1>2. /\ d.active \in BOOLEAN /\ d.candidate \in Seq(Nat) /\ d.quiet \in Nat
  BY DEF Detectors
<1>3. opens => ~d.active
  BY DEF Opens
<1>4. quiet \in Nat
  BY <1>2 DEF Quieted
<1>5. ASSUME d.active \/ opens
      PROVE  /\ captured \in Seq(Nat) /\ captured # << >> /\ Consecutive(captured)
             /\ captured[Len(captured)] = h + 1
  <2> DEFINE before == IF opens THEN Pretriggered(d, Config) ELSE d.candidate
  <2>1. captured = Append(before, h + 1)
    BY DEF Captured
  <2>2. /\ before \in Seq(Nat) /\ Consecutive(before)
        /\ before # << >> => before[Len(before)] = h
    <3>1. CASE opens
      <4> DEFINE p == Pretriggered(d, Config)
                 n == d.count
      <4>1. before = p
        BY <3>1
      <4>2. p \in Seq(Nat) /\ Len(p) = n /\ \A i \in 1 .. n : p[i] = h - n + i
        BY UnrolledInOrder
      <4>3. n \in Nat
        BY Settings DEF Detectors
      <4> HIDE DEF p, n, before
      <4>4. Consecutive(p)
        <5>1. ASSUME NEW i \in 1 .. Len(p) PROVE p[i] = p[1] + i - 1
          <6>1. i \in 1 .. n /\ 1 \in 1 .. n
            BY <4>2, <4>3
          <6>2. p[i] = h - n + i /\ p[1] = h - n + 1
            BY <4>2, <6>1
          <6>3. QED
            BY <4>3, <6>1, <6>2
        <5>2. QED
          BY <5>1 DEF Consecutive
      <4>5. p # << >> => p[Len(p)] = h
        <5>1. p # << >> => n \in 1 .. n
          BY <4>2
        <5>2. QED
          BY <4>2, <4>3, <5>1
      <4>6. QED
        BY <4>1, <4>2, <4>4, <4>5
    <3>2. CASE ~opens
      BY <1>2, <1>5, <3>2 DEF CandidateHolds
    <3>3. QED
      BY <3>1, <3>2
  <2> HIDE DEF before, captured
  <2>3. QED
    BY <2>1, <2>2, AppendNext
<1>6. after = IF ~d.active /\ ~opens
                THEN [detector |-> kept, candidate |-> << >>]
                ELSE IF Finished(Config, Len(captured), quiet)
                  THEN [detector |-> closed, candidate |-> captured]
                  ELSE [detector |-> open, candidate |-> << >>]
  BY DEF Process
<1> HIDE DEF opens, captured, quiet, kept, after
<1>7. ASSUME d.active \/ opens
      PROVE  /\ open \in Detectors /\ RingHolds(open, h + 1) /\ CandidateHolds(open, h + 1)
             /\ closed \in Detectors /\ RingHolds(closed, h + 1)
             /\ CandidateHolds(closed, h + 1)
  <2>1. /\ captured \in Seq(Nat) /\ captured # << >> /\ Consecutive(captured)
        /\ captured[Len(captured)] = h + 1
    BY <1>5, <1>7
  <2>2. open = [seen |-> kept.seen, noise |-> kept.noise, active |-> TRUE,
                candidate |-> captured,
                quiet |-> quiet, cooldown |-> kept.cooldown, ring |-> kept.ring,
                write |-> kept.write, count |-> kept.count]
    <3>1. kept \in Detectors
      BY <1>1
    <3>2. open = [kept EXCEPT !.active = TRUE, !.candidate = captured, !.quiet = quiet]
      OBVIOUS
    <3> HIDE DEF P, open
    <3>3. QED
      BY <3>1, <3>2 DEF Detectors
  <2>3. closed = [seen |-> kept.seen, noise |-> kept.noise, active |-> FALSE,
                  candidate |-> << >>,
                  quiet |-> 0, cooldown |-> Config.cooldown, ring |-> kept.ring,
                  write |-> kept.write, count |-> kept.count]
    <3> HIDE DEF open
    <3>1. closed = [open EXCEPT !.active = FALSE, !.candidate = << >>, !.quiet = 0,
                                !.cooldown = Config.cooldown]
      BY DEF Closed
    <3>2. QED
      BY <2>2, <3>1
  <2> HIDE DEF open, closed
  <2>4. /\ kept.seen \in Nat /\ kept.noise \in BOOLEAN /\ kept.cooldown \in Nat
        /\ kept.ring \in [0 .. P - 1 -> Nat]
        /\ kept.write \in 0 .. P - 1 /\ kept.count \in 0 .. P
    <3>1. kept \in Detectors
      BY <1>1
    <3> HIDE DEF P
    <3>2. QED
      BY <3>1 DEF Detectors
  <2>5. open \in Detectors /\ closed \in Detectors
    <3>1. Config.cooldown \in Nat /\ 0 \in Nat /\ << >> \in Seq(Nat)
      BY Settings
    <3> HIDE DEF P
    <3>2. open \in Detectors
      BY <1>4, <2>1, <2>2, <2>4 DEF Detectors
    <3>3. closed \in Detectors
      BY <2>3, <2>4, <3>1 DEF Detectors
    <3>4. QED
      BY <3>2, <3>3
  <2>6. /\ open.ring = kept.ring /\ open.write = kept.write /\ open.count = kept.count
        /\ closed.ring = kept.ring /\ closed.write = kept.write
        /\ closed.count = kept.count /\ ~closed.active /\ open.candidate = captured
    BY <2>2, <2>3
  <2>7. RingHolds(open, h + 1) /\ RingHolds(closed, h + 1)
    BY <1>1, <2>6 DEF RingHolds
  <2>8. QED
    BY <2>1, <2>5, <2>6, <2>7 DEF CandidateHolds
<1>8. << >> \in Seq(Nat) /\ Consecutive(<< >>)
  BY DEF Consecutive
<1> HIDE DEF open, closed
<1>9. CASE ~d.active /\ ~opens
  <2>1. after.detector = kept /\ after.candidate = << >>
    BY <1>6, <1>9
  <2>2. CandidateHolds(kept, h + 1)
    BY <1>1, <1>9 DEF CandidateHolds
  <2>3. QED
    BY <1>1, <1>8, <2>1, <2>2 DEF after
<1>10. CASE d.active \/ opens
  <2>1. \/ after.detector = closed /\ after.candidate = captured
        \/ after.detector = open /\ after.candidate = << >>
    BY <1>6, <1>10
  <2>2. QED
    BY <1>5, <1>7, <1>8, <1>10, <2>1 DEF after
<1>11. QED
  BY <1>9, <1>10

-----------------------------------------------------------------------------
(* The inductive invariant. *)

\* Nothing is heard yet, and the ring is empty.
LEMMA InitInvariant == Init => IInv
<1> SUFFICES ASSUME Init PROVE IInv
  OBVIOUS
<1>1. /\ heard = 0 /\ detector = NewDetector(Config, 0) /\ jobs = << >> /\ job = << >>
      /\ pass = "idle" /\ rate = 1
  BY DEF Init, RxInit, ModemInit
<1>2. detector = [seen |-> 0, noise |-> FALSE, active |-> FALSE,
                   candidate |-> << >>, quiet |-> 0,
                  cooldown |-> 0, ring |-> [i \in 0 .. P - 1 |-> 0],
                  write |-> 0, count |-> 0]
  BY <1>1 DEF NewDetector, P
<1>3. detector \in Detectors
  <2>1. P \in Nat /\ P > 0
    BY Settings
  <2> HIDE DEF P
  <2>2. /\ [i \in 0 .. P - 1 |-> 0] \in [0 .. P - 1 -> Nat] /\ 0 \in 0 .. P - 1
        /\ 0 \in 0 .. P /\ << >> \in Seq(Nat)
    BY <2>1
  <2>3. QED
    BY <1>2, <2>2 DEF Detectors
<1>4. RingHolds(detector, heard) /\ CandidateHolds(detector, heard)
  BY <1>2 DEF RingHolds, CandidateHolds
<1>5. JobsInv
  BY <1>1 DEF JobsInv, Consecutive
<1>6. QED
  BY <1>1, <1>3, <1>4, <1>5 DEF IInv, DetectorInv, EachDecodeStartsClean

\* One more job in the queue.
LEMMA JobsAppend ==
  ASSUME JobsInv, NEW c \in Seq(Nat), Consecutive(c), job' = job,
         jobs' = Append(jobs, c)
  PROVE  JobsInv'
<1>1. jobs \in Seq(Seq(Nat)) /\ \A k \in 1 .. Len(jobs) : Consecutive(jobs[k])
  BY DEF JobsInv
<1>2. /\ jobs' \in Seq(Seq(Nat)) /\ Len(jobs') = Len(jobs) + 1 /\ Len(jobs) \in Nat
      /\ \A k \in 1 .. Len(jobs) : jobs'[k] = jobs[k]
      /\ jobs'[Len(jobs) + 1] = c
  BY <1>1, AppendProperties
<1>3. \A k \in 1 .. Len(jobs') : k \in 1 .. Len(jobs) \/ k = Len(jobs) + 1
  BY <1>2
<1>4. \A k \in 1 .. Len(jobs') : Consecutive(jobs'[k])
  BY <1>1, <1>2, <1>3
<1>5. job' \in Seq(Nat) /\ Consecutive(job')
  BY DEF JobsInv
<1>6. QED
  BY <1>2, <1>4, <1>5 DEF JobsInv, Consecutive

\* A block through the detector.
LEMMA ProcessBlockInvariant == IInv /\ ProcessBlock => IInv'
<1> SUFFICES ASSUME IInv, ProcessBlock PROVE IInv'
  OBVIOUS
<1>1. /\ heard \in Nat /\ detector \in Detectors
      /\ RingHolds(detector, heard) /\ CandidateHolds(detector, heard)
  BY DEF IInv, DetectorInv
<1>2. /\ heard' = heard + 1 /\ job' = job /\ pass' = pass /\ rate' = rate
  BY DEF ProcessBlock, decoding, modem
<1>3. PICK level, trigger :
        LET result == Process(detector, Config, heard + 1, level, trigger) IN
          /\ detector' = result.detector
          /\ jobs' = IF result.candidate # << >> /\ Len(jobs) < JobCapacity
                       THEN Append(jobs, result.candidate) ELSE jobs
  BY <1>2 DEF ProcessBlock
<1> DEFINE result == Process(detector, Config, heard + 1, level, trigger)
<1>4. /\ result.detector \in Detectors
      /\ RingHolds(result.detector, heard + 1) /\ CandidateHolds(result.detector, heard + 1)
      /\ result.candidate \in Seq(Nat) /\ Consecutive(result.candidate)
  BY <1>1, ProcessKeepsRuns
<1>5. /\ detector' = result.detector
      /\ jobs' = Append(jobs, result.candidate) \/ jobs' = jobs
  BY <1>3
<1> HIDE DEF result
<1>6. DetectorInv'
  <2>1. RingHolds(detector', heard') /\ CandidateHolds(detector', heard')
    BY <1>2, <1>4, <1>5
  <2>2. detector' \in Detectors /\ heard' \in Nat
    BY <1>1, <1>2, <1>4, <1>5
  <2>3. QED
    BY <2>1, <2>2 DEF DetectorInv, RingHolds, CandidateHolds, Consecutive, Slot
<1>7. JobsInv'
  <2>1. CASE jobs' = jobs
    BY <1>2, <2>1 DEF IInv, JobsInv, Consecutive
  <2>2. CASE jobs' = Append(jobs, result.candidate)
    BY <1>2, <1>4, <2>2, JobsAppend DEF IInv
  <2>3. QED
    BY <1>5, <2>1, <2>2
<1>8. QED
  BY <1>2, <1>6, <1>7 DEF IInv, EachDecodeStartsClean

\* Every other step leaves the detector alone.
LEMMA DetectorStays ==
  ASSUME DetectorInv, heard' = heard, detector' = detector
  PROVE  DetectorInv'
BY DEF DetectorInv, RingHolds, CandidateHolds, Consecutive, Slot

\* The decoder takes the oldest job; every end of a decode is at one sample a
\* symbol.
LEMMA DecoderInvariant == IInv /\ Decoder => IInv'
<1> SUFFICES ASSUME IInv, Decoder PROVE IInv'
  OBVIOUS
<1>1. heard' = heard /\ detector' = detector
  BY DEF Decoder, TakeJob, Decode, FinishJob, EndDecoder, scanning
<1>2. EachDecodeStartsClean'
  BY DEF IInv, EachDecodeStartsClean, Decoder, TakeJob, Decode, FinishJob, EndDecoder,
         BeginReceive, ModemStep, FirstPassReturns, FecFails, EqualizerPassReturns,
         RetryDirected, modem
<1>3. JobsInv'
  <2>1. CASE TakeJob
    <3>1. /\ job' = Head(jobs) /\ jobs' = Tail(jobs) /\ jobs # << >>
          /\ jobs \in Seq(Seq(Nat)) /\ \A k \in 1 .. Len(jobs) : Consecutive(jobs[k])
      BY <2>1 DEF TakeJob, IInv, JobsInv
    <3>2. /\ jobs' \in Seq(Seq(Nat)) /\ Len(jobs') = Len(jobs) - 1
          /\ Len(jobs) \in Nat \ {0}
          /\ \A k \in 1 .. Len(jobs') : jobs'[k] = jobs[k + 1]
          /\ job' = jobs[1] /\ job' \in Seq(Nat)
      BY <3>1
    <3>3. \A k \in 1 .. Len(jobs') : k + 1 \in 1 .. Len(jobs)
      BY <3>2
    <3>4. Consecutive(job') /\ \A k \in 1 .. Len(jobs') : Consecutive(jobs'[k])
      BY <3>1, <3>2, <3>3
    <3>5. QED
      BY <3>2, <3>4 DEF JobsInv, Consecutive
  <2>2. CASE FinishJob
    <3>1. job' = << >> /\ jobs' = jobs
      BY <2>2 DEF FinishJob
    <3>2. QED
      BY <3>1 DEF IInv, JobsInv, Consecutive
  <2>3. CASE Decode \/ EndDecoder
    <3>1. job' = job /\ jobs' = jobs
      BY <2>3 DEF Decode, EndDecoder
    <3>2. QED
      BY <3>1 DEF IInv, JobsInv, Consecutive
  <2>4. QED
    BY <2>1, <2>2, <2>3 DEF Decoder
<1>4. QED
  BY <1>1, <1>2, <1>3, DetectorStays DEF IInv

\* What the receiver keeps of the audio is not touched.
LEMMA KeptAsItIs ==
  ASSUME IInv, UNCHANGED <<heard, detector, jobs, job, pass, rate>>
  PROVE  IInv'
<1>1. JobsInv'
  BY DEF IInv, JobsInv, Consecutive
<1>2. QED
  BY <1>1, DetectorStays DEF IInv, EachDecodeStartsClean

\* Every reachable state has the invariant.
LEMMA Invariance == Spec => []IInv
<1>1. ASSUME IInv, [Next]_vars PROVE IInv'
  <2>1. CASE Receiver
    <3>1. CASE ProcessBlock
      BY <1>1, <3>1, ProcessBlockInvariant
    <3>2. CASE Decoder
      BY <1>1, <3>2, DecoderInvariant
    <3>3. CASE \/ ReceiveCallback(OnAir) \/ OpenDevice \/ StopListening
               \/ StopDevice \/ JoinDecoder
      <4>1. UNCHANGED <<heard, detector, jobs, job, pass, rate>>
        BY <3>3 DEF ReceiveCallback, OpenDevice, StopListening, StopDevice, JoinDecoder,
                    scanning, decoding, modem
      <4>2. QED
        BY <1>1, <4>1, KeptAsItIs
    <3>4. QED
      BY <2>1, <3>1, <3>2, <3>3 DEF Receiver, MainThread
  <2>2. CASE Handheld \/ HackRf \/ UNCHANGED vars
    <3>1. UNCHANGED listener
      BY <2>2 DEF Handheld, HackRf, vars
    <3>2. UNCHANGED <<heard, detector, jobs, job, pass, rate>>
      BY <3>1 DEF listener, scanning, decoding, modem
    <3>3. QED
      BY <1>1, <3>2, KeptAsItIs
  <2>3. QED
    BY <1>1, <2>1, <2>2 DEF Next
<1>2. QED
  BY InitInvariant, <1>1, PTL DEF Spec

-----------------------------------------------------------------------------
\* What is queued and decoded is an unbroken run of samples, oldest first, for
\* every size of the pretrigger ring and every window.
THEOREM CandidatesAreRuns == Spec => []CandidateIsRecentAudio
<1>1. IInv => CandidateIsRecentAudio
  BY DEF IInv, JobsInv, Consecutive, CandidateIsRecentAudio
<1>2. QED
  BY <1>1, Invariance, PTL

\* Each candidate's first pass runs at one sample a symbol, whatever became of
\* the one before it.
THEOREM DecodesStartClean == Spec => []EachDecodeStartsClean
<1>1. IInv => EachDecodeStartsClean
  BY DEF IInv
<1>2. QED
  BY <1>1, Invariance, PTL
-----------------------------------------------------------------------------
(* What the programs report. *)

\* The handheld: the series has the fragments built but the one left out; the
\* line is keyed only while it is sent, or when it refused a release, and then
\* nothing is reported.
KeyInv ==
  /\ built \in 0 .. Frames /\ series \in 0 .. built /\ played \in 0 .. series
  /\ drop \in 0 .. Frames
  /\ drained \in BOOLEAN /\ sent \in BOOLEAN /\ keySuccess \in BOOLEAN
  /\ refused \in BOOLEAN
  /\ keyPc \in {"open", "build", "send", "release"} /\ tool = "packet_tx" =>
       series = IF drop < built THEN built - 1 ELSE built
  /\ keyPc = "open" => built = 0
  /\ keyPc \in {"send", "release"} => built = Frames
  /\ keyed => keyPc \in {"send", "release"} \/ refused
  /\ refused => keyPc \in {"close", "done"} /\ ~sent
  /\ sent => /\ keyPc \in {"release", "close", "done"}
             /\ drained /\ played = series
             /\ tool = "packet_tx" =>
                  series = IF drop < Frames THEN Frames - 1 ELSE Frames
  /\ keySuccess => keyPc = "done" /\ sent

\* The HackRF: nothing is on air that was not generated, and a flush that
\* succeeded came after everything.
HackInv ==
  /\ generated \in 0 .. Total /\ radiated \in 0 .. generated
  /\ flush = "yes" => radiated = Total
  /\ hackSuccess => radiated = Total

\* The receiver: a decoder that has ended has no job, and left none behind
\* unless the target was met; the main thread reports after it.
ReceiverInv ==
  /\ decoded \in Nat
  /\ ~running => rxPc \in {"join", "done"}
  /\ decoderPc = "ended" => /\ job = << >>
                            /\ decoded >= Target \/ (~running /\ jobs = << >>)
  /\ rxPc = "done" => decoderPc = "ended" /\ rxSuccess = (decoded > 0)

\* Every step of the handheld's tools, one by one.
LEMMA KeyStepInvariant == KeyInv /\ KeyStep => KeyInv'
<1> SUFFICES ASSUME KeyInv, KeyStep PROVE KeyInv'
  OBVIOUS
<1>0. Frames \in Nat \ {0}
  BY FramesAssumption
<1>1. CASE OpenPacketTool \/ OpenSmokeTool
  BY <1>0, <1>1 DEF KeyInv, OpenPacketTool, OpenSmokeTool, KeyMoves, making
<1>2. CASE BuildFragment
  BY <1>0, <1>2 DEF KeyInv, BuildFragment, Builds, KeyMoves
<1>3. CASE BuildSmokeFrame
  BY <1>0, <1>3 DEF KeyInv, BuildSmokeFrame, Builds, KeyMoves
<1>4. CASE KeyLine
  BY <1>0, <1>4 DEF KeyInv, KeyLine, KeyMoves, making
<1>5. CASE PlayPiece
  BY <1>0, <1>5 DEF KeyInv, PlayPiece, KeyMoves, making
<1>6. CASE DrainSeries
  BY <1>0, <1>6 DEF KeyInv, DrainSeries, KeyMoves, making
<1>7. CASE ReleaseLine
  <2>1. /\ keyPc = "release" /\ keyPc' = "close" /\ ~keySuccess
        /\ UNCHANGED <<tool, drop, built, series, played, drained, keySuccess>>
    BY <1>7 DEF KeyInv, ReleaseLine, KeyMoves, making
  <2>2. CASE keyed' = FALSE /\ UNCHANGED <<sent, refused>>
    BY <1>0, <2>1, <2>2 DEF KeyInv
  <2>3. CASE sent' = FALSE /\ refused' = TRUE /\ UNCHANGED keyed
    BY <1>0, <2>1, <2>3 DEF KeyInv
  <2>4. QED
    BY <1>7, <2>2, <2>3 DEF ReleaseLine
<1>8. CASE EndPacketTool \/ EndSmokeTool
  <2>1. /\ keyPc = "close" /\ keyPc' = "done" /\ keySuccess' = sent
        /\ keyed' = FALSE \/ keyed' = (keyed /\ refused)
        /\ UNCHANGED <<tool, drop, built, series, played, drained, sent, refused>>
    BY <1>8 DEF EndPacketTool, EndSmokeTool, CloseLine, KeyMoves, making
  <2>2. keyed' => refused
    BY <2>1 DEF KeyInv
  <2>3. QED
    BY <1>0, <2>1, <2>2 DEF KeyInv
<1>9. QED
  BY <1>1, <1>2, <1>3, <1>4, <1>5, <1>6, <1>7, <1>8 DEF KeyStep

\* The host returns on the word of the flush, and the flush comes last.
LEMMA HackStepInvariant == HackInv /\ HackStep => HackInv'
<1> SUFFICES ASSUME HackInv, HackStep PROVE HackInv'
  OBVIOUS
<1>0. Total \in Nat \ {0}
  BY TotalAssumption
<1>1. CASE HackHost
  <2>1. UNCHANGED <<generated, radiated, flush>>
    BY <1>1 DEF HackHost, BuildFrames, SetUpDevice, StopPolling, CloseDevice
  <2>2. hackSuccess' = hackSuccess \/ hackSuccess' = (flush = "yes" /\ generated = Total)
    BY <1>1 DEF HackHost, BuildFrames, SetUpDevice, StopPolling, CloseDevice
  <2>3. hackSuccess' => radiated = Total
    BY <2>2 DEF HackInv
  <2>4. QED
    BY <2>1, <2>3 DEF HackInv
<1>2. CASE TransmitCallback \/ Radiate
  BY <1>0, <1>2 DEF HackInv, TransmitCallback, Radiate, Streams
<1>3. CASE FlushCallback
  BY <1>0, <1>3 DEF HackInv, FlushCallback, Streams
<1>4. QED
  BY <1>1, <1>2, <1>3 DEF HackStep

\* A candidate is queued only while the decoder still runs, and is told so.
LEMMA ReceiverStepInvariant ==
  ReceiverInv /\ (MainThread \/ ReceiveCallback(OnAir) \/ Decoder) => ReceiverInv'
<1> SUFFICES ASSUME ReceiverInv, MainThread \/ ReceiveCallback(OnAir) \/ Decoder
             PROVE  ReceiverInv'
  OBVIOUS
<1>1. CASE OpenDevice \/ ReceiveCallback(OnAir)
  BY <1>1 DEF ReceiverInv, OpenDevice, ReceiveCallback, decoding
<1>2. CASE ProcessBlock
  <2>1. rxPc = "listen" /\ UNCHANGED <<rxPc, decoding, running, rxSuccess>>
    BY <1>2 DEF ProcessBlock
  <2>2. QED
    BY <2>1 DEF ReceiverInv, decoding
<1>3. CASE StopListening \/ StopDevice \/ JoinDecoder
  BY <1>3 DEF ReceiverInv, StopListening, StopDevice, JoinDecoder, RxMoves, decoding
<1>4. CASE TakeJob
  BY <1>4 DEF ReceiverInv, TakeJob
<1>5. CASE Decode
  BY <1>5 DEF ReceiverInv, Decode
<1>6. CASE FinishJob
  BY <1>6 DEF ReceiverInv, FinishJob
<1>7. CASE EndDecoder
  BY <1>7 DEF ReceiverInv, EndDecoder
<1>8. QED
  BY <1>1, <1>2, <1>3, <1>4, <1>5, <1>6, <1>7 DEF MainThread, Decoder

\* No program on the bench touches what another one reports.
LEMMA ReportsInvariance == Spec => [](KeyInv /\ HackInv /\ ReceiverInv)
<1>1. Init => KeyInv /\ HackInv /\ ReceiverInv
  <2>1. Init => KeyInv
    <3> SUFFICES ASSUME KeyInit PROVE KeyInv
      BY DEF Init
    <3>1. Frames \in Nat /\ drop \in 0 .. Frames
      BY FramesAssumption DEF KeyInit
    <3>2. /\ keyPc = "open" /\ built = 0 /\ series = 0 /\ played = 0
          /\ ~keyed /\ drained = FALSE /\ sent = FALSE /\ keySuccess = FALSE
          /\ refused = FALSE
      BY DEF KeyInit
    <3>3. /\ built \in 0 .. Frames /\ series \in 0 .. built /\ played \in 0 .. series
          /\ series = IF drop < built THEN built - 1 ELSE built
      BY <3>1, <3>2
    <3>4. /\ drained \in BOOLEAN /\ sent \in BOOLEAN /\ keySuccess \in BOOLEAN
          /\ refused \in BOOLEAN /\ ~sent /\ ~keySuccess /\ ~refused
      BY <3>2
    <3>5. QED
      BY <3>1, <3>2, <3>3, <3>4 DEF KeyInv
  <2>2. Init => HackInv /\ ReceiverInv
    BY TotalAssumption DEF Init, HackInit, RxInit, HackInv, ReceiverInv
  <2>3. QED
    BY <2>1, <2>2
<1>2. KeyInv /\ [Next]_vars => KeyInv'
  <2>1. Handheld => KeyStep
    BY DEF Handheld
  <2>2. HackRf \/ Receiver \/ UNCHANGED vars => UNCHANGED handheld
    BY DEF HackRf, Receiver, vars
  <2>3. KeyInv /\ UNCHANGED handheld => KeyInv'
    BY DEF KeyInv, handheld, making
  <2>4. QED
    BY <2>1, <2>2, <2>3, KeyStepInvariant DEF Next
<1>3. HackInv /\ [Next]_vars => HackInv'
  <2>1. HackRf => HackStep
    BY DEF HackRf
  <2>2. Handheld \/ Receiver \/ UNCHANGED vars => UNCHANGED hackrf
    BY DEF Handheld, Receiver, vars
  <2>3. HackInv /\ UNCHANGED hackrf => HackInv'
    BY DEF HackInv, hackrf
  <2>4. QED
    BY <2>1, <2>2, <2>3, HackStepInvariant DEF Next
<1>4. ReceiverInv /\ [Next]_vars => ReceiverInv'
  <2>1. Receiver => MainThread \/ ReceiveCallback(OnAir) \/ Decoder
    BY DEF Receiver
  <2>2. Handheld \/ HackRf \/ UNCHANGED vars => UNCHANGED listener
    BY DEF Handheld, HackRf, vars
  <2>3. ReceiverInv /\ UNCHANGED listener => ReceiverInv'
    BY DEF ReceiverInv, listener, decoding
  <2>4. QED
    BY <2>1, <2>2, <2>3, ReceiverStepInvariant DEF Next
<1>5. QED
  BY <1>1, <1>2, <1>3, <1>4, PTL DEF Spec

\* What packet_tx, tx_smoke, hackrf_tx and hackrf_rx report is so: the series was
\* played to the end and the line is free, all that was generated has left the
\* antenna, and nothing is left to decode or the target is met, for every
\* packet, length, queue and target.
THEOREM ProgramsReportWhatHappened == Spec => []ReportsAreHonest
<1>1. KeyInv => HandheldIsHonest
  <2> SUFFICES ASSUME KeyInv, keyPc = "done"
               PROVE  /\ keyed => refused
                      /\ keySuccess =>
                           /\ drained /\ played = series /\ ~keyed
                           /\ tool = "packet_tx" =>
                                series + (IF drop = Frames THEN 0 ELSE 1) = Frames
    BY DEF HandheldIsHonest
  <2>1. (keyed => refused) /\ (keySuccess => drained /\ played = series /\ ~keyed)
    BY DEF KeyInv
  <2>2. ASSUME keySuccess, tool = "packet_tx"
        PROVE  series + (IF drop = Frames THEN 0 ELSE 1) = Frames
    BY <2>2, FramesAssumption DEF KeyInv
  <2>3. QED
    BY <2>1, <2>2
<1>2. HackInv => HackRfIsHonest
  BY DEF HackInv, HackRfIsHonest
<1>3. ReceiverInv => ReceiverIsHonest
  BY ReceiverAssumption DEF ReceiverInv, ReceiverIsHonest
<1>4. KeyInv /\ HackInv /\ ReceiverInv => ReportsAreHonest
  BY <1>1, <1>2, <1>3 DEF ReportsAreHonest
<1>5. QED
  BY <1>4, ReportsInvariance, PTL
=============================================================================
