# Reticulum-TNC in TLA+

Reticulum-TNC is a packet modem for FM handheld radios: packets arrive from a
KISS TCP client, are cut into radio frames, modulated and played into the radio
while its PTT line is keyed; audio from the radio is cut into candidates, each
candidate is decoded, and the frames are put together into packets for the
client.  The program is multi-threaded C with fixed storage and lock-free
queues.  The signal processing is floating point and outside the reach of a
model checker; everything around it, the part that decides which packet is
sent, kept, answered, lost or delivered, is a concurrent program of small
state machines, and that is what these modules are about.

All paths below are relative to the repository root.

## 1. The system

### 1.1 Threads

`tools/alsa_rx.c` is the service.  Its threads and what they share:

| thread | runs | shares |
|---|---|---|
| main | audio blocks, burst detection, candidates, completions, reassembly, KISS I/O | every queue below |
| capture | `src/platform/audio.c` | audio ring (producer) |
| decoder 0, decoder 1 | `decoder_thread_main` | one decode queue each (consumer), completion window (submitters) |
| transmit worker | `tx_worker_main` -> `rtnc_runtime_transmit_next` | transmit queue (consumer), runtime state, channel-busy flag, ALSA playback |

        KISS client                                     radio
            |  ^                                         ^  |
            v  |                                    PTT, audio
      main thread ---- TX queue ----> transmit worker ---+  |
        ^   ^   |                                           |
        |   |   +---- decode queue 0/1 ---> decoders 0/1    v
        |   |                                  |       capture thread
        |   +------- completion window <-------+            |
        +----------------------- audio ring <---------------+

### 1.2 Components, their state, operations and what makes them correct

| component | state | operations | must hold | hard because |
|---|---|---|---|---|
| SPSC rings (`packet_queue.c`, `decode_queue.c`, `audio_ring.c`) | slots, two indices, high-water mark, drops | push, peek, discard, pop | FIFO, nothing overwritten while it is read, honest counters | two threads, no lock; the TX worker reads through a pointer into the ring for a whole transmission |
| completion coordinator (`completion.c`) | slots with EMPTY/WRITING/READY, `next_job_id`, generation | submit, pop, reset | results in job order, once, whole, of this generation | three submitters race with one popper; the window is checked before the slot is claimed; pop frees the slot before it moves the window |
| receive pipeline (`alsa_rx.c`) | candidate number, queues, running flags | cut and deal a candidate, drop it, decode, submit, pop, shut down | every candidate has exactly one result; nothing waits for ever; shutdown drains | queue limits, refused results, ordering of the joins |
| fragmentation (`fragmentation.c`) | assembly in progress: countdown, instant, buffer | count, build, push, reset | what is handed on is a packet that was sent | frames are lost; headers carry a countdown but no packet number |
| packet runtime (`runtime.c`, `ptt.c`, `alsa_runtime_backend.c`) | state, busy timer, persistence slot, TX/RX queues | submit, transmit next, set KISS parameter, accept fragment, receive, deinit | receive shut while keyed; whole packets under one keying; each packet ends once; stop releases the line | timers over many short calls, failures half way, stop at any moment, frozen busy flag |
| KISS codec and TCP loop (`kiss.c`, `alsa_rx.c`) | parser state, frame buffer, one client | push byte, encode, accept, read, send, disconnect | decode inverts encode, resynchronises after overflow, nothing survives a reconnect | frames split over reads; the send is blocking |
| burst detector (`burst_detector.c`) | noise floor, pretrigger ring, capture window | push sample/block | a candidate holds the audio from before its trigger, in order, and closes | ring unrolling, warm-up, longest burst |
| audio capture and playback (`audio.c`) | stream handles, thread, xrun counters | start, stop, recover, write, drain | no block is lost but counted; stop joins | stop flag against a blocking read and a recovery |
| OTA benchmark (`src/platform/ota_benchmark.c`, `tools/ota_benchmark.c`) | announcements, block plan, receiver accounting | announce, transmit block, match a decode, report | each block accounted once | lost announcements, late frames |
| HackRF streaming (`hackrf_tx.c`, `tools/hackrf_rx.c`, `tools/hackrf_tx.c`) | waveform position, ring, flags | callback, wait, stop | the waveform goes out once, whole | callback thread of the library |
| offline transmitter (`transmitter.c`, `packet_tx.c`, `tx_smoke.c`) | PTT line | key, play, release | the line is released on every path | error paths |
| modem receive control (`offline.c`) | result under construction | attempts in order, fallback | the status tells the attempt that succeeded | many early returns |
| frame format, FEC, configuration, PHY | - | pure functions | - | - |

### 1.3 What is hard to test

`PROJECT.json` lists the hazards line by line, each with the properties that
watch it.  In short: slots handed between threads; values read before another
thread's store and used after it; results that come out of order or not at all;
a countdown that cannot tell packets apart; timers restarted in one branch and
kept in another; a start refused, or a transmission failing, half way; a device
that goes away under a blocking read; a parser whose state outlives a read but
must not outlive a connection; an index computed modulo a ring that has wrapped
or has not; counts of a benchmark whose announcements, frames and deadlines
arrive in any order; a stop at any of these moments.

Four hazards have no property.  A full IQ ring drops a block and the candidate in
progress becomes a splice (`tools/hackrf_rx.c:158`): the drop is modelled, but the
samples are numbered as the detector gets them, so the gap does not show.  A
candidate that ends while a packet waits for the channel is answered as a failure
without being decoded (`tools/alsa_rx.c:730`): the code means to, and the
properties take it as answered.  Without a block of audio the loop does nothing
but KISS input (`tools/alsa_rx.c:693`): `LoopKeepsServing` has audio that flows as
its premise, for the code has no answer without it.  A full result queue of the
benchmark loses a message between two threads (`tools/ota_benchmark.c:289`): a row
counts the frame as missing, as if it was lost on the air.

## 2. Modules

| module | models | refines or composes |
|---|---|---|
| `BoundedFifo` | what the rings promise: a FIFO of bounded length that counts what it refuses | abstract |
| `SpscQueue` | the three rings, one step per access to shared memory | implements `BoundedFifo` (`ImplementsFifo`) |
| `ReorderWindow` | what the coordinator promises: record inside the window, deliver in turn | abstract |
| `Completion` | `completion.c`, one step per atomic access | implements `ReorderWindow` (`ImplementsWindow`) |
| `HalfDuplex` | what the transmit side promises the rest: the documented cycle of states, and the line | abstract |
| `TxRuntime` | transmit queue, channel access, keying, transmission, worker thread, teardown | implements `HalfDuplex` (`ImplementsHalfDuplex`) |
| `RxPipeline` | candidates, decoders, window, shutdown, next to a transmitter that comes and goes | queues and window as their abstract objects |
| `Fragmentation` | sender, lossy link and reassembly | |
| `BurstDetector` | the detector as a function from a detector and a sample to a detector and a candidate, and its configurations | used by `FrontEnd`, `HackRfRx` |
| `Startup` | how the service comes up, one refusable step after another | part of `FrontEnd` |
| `FrontEnd` | capture thread and device, detector loop, shutdown | composes `Startup`, `BurstDetector`, `HalfDuplex` |
| `KissCodec` | parser, encoder, and the meaning of a byte stream read as a whole | used by `KissLink` |
| `KissLink` | one TCP client at a time, connect to disconnect, both directions | |
| `OtaBenchmark` | benchmark sender, its signal thread, and the receiver | |
| `Waveform` | the ends of frame building, parsing and waveform generation | used by the next four |
| `Modem` | the passes of one decode, their retries, and the timing rate they leave | part of `HackRfRx` |
| `Transmitter` | `packet_tx`, `tx_smoke` and `rtnc_transmit_audio` | part of `Bench` |
| `HackRfTx` | transmit callbacks and the polling host | part of `Bench` |
| `HackRfRx` | receive callback, main loop, decoder thread | part of `Bench` |
| `Bench` | the laboratory bench: one transmitter, handheld or HackRF, and the HackRF receiver | composes the four above |

Proofs are in `SpscQueueProofs`, `CompletionProofs`, `TxRuntimeProofs`,
`RxPipelineProofs`, `LinkProofs` (about `Fragmentation` and `KissLink`),
`FrontEndProofs`, `OtaBenchmarkProofs` and `BenchProofs`.

The layering is deliberate.  The rings, the coordinator and the transmit side
are checked step by step and shown to implement an abstract object; the modules
above use the abstract object, one step per call.

### 2.1 State and actions against the code

`PROJECT.json` maps every definition to its lines.  What is worth knowing
beyond that:

**SpscQueue.**  A packet is named by the number of the push that offered it.
A slot has two fields, because the code writes payload and length/sequence
separately and a torn slot would show as a mismatch.  A push is `PushBegin`
(load the consumer index), `PushCopy`, `PushTag`, `PushPublish`, `PushRaise`
(high-water mark, from the index loaded at the start).  The argument checks
(null pointers, lengths, the MTU) are left out, as are the getters, which only
read.  The three files differ only in what they call the fields and in the
absence of peek; the map names lines of all three.  Interleavings are
sequentially consistent: the acquire/release pairs of the code order exactly the
accesses that are separate steps, and no other shared plain access exists.

**Completion.**  A result is named by its job and its generation, so that a
result of a former generation in the wrong place is visible.  The callers'
contract of `completion.h` is part of the model: one submission per job and
generation, reset only when no call is in progress.  `SubmitClaim` keeps the
failing branch of the compare-and-swap, which `ClaimsNeverCollide` shows dead.
Reset leaves `job_id` and the payload of the slots as they are, as the code
does.

**RxPipeline.**  What a candidate decodes to is a free choice, as is when audio
completes one.  A candidate is dropped for one of the code's two reasons: the
queue was full when the push looked, or the runtime was not in `RX_IDLE`, which
the transmit worker decides.  All callers of `rtnc_completion_submit` ignore its
result, as in the code.  `WindowCapacity` is the sum of both queue lengths, as
`main` computes it.  `handedOut` is what `rtnc_runtime_accept_fragment` lets
through to reassembly.

**Fragmentation.**  Bytes are named by packet and offset; a packet buffer is the
list of pieces copied into it.  The link delivers frames in order (the
coordinator's job) and loses at most `MaxLossRun` in a row.  The receiver's MTU
may be smaller than the packet.

**TxRuntime.**  Time is relative: `busyAge` is `now - busy_started_ms`,
`slotLeft` is `next_persistence_slot_ms - now`, both saturating, and time passes
in the worker's naps.  The channel-busy flag changes at will while the main
loop runs and freezes when it ends (it is written only while audio is
processed).  Setting the line, sending a frame and draining may each fail.
`blocked`, `aired`, `outcomes` and `releaseFailed` are histories.

**FrontEnd and Startup.**  `held` is what the code remembers in its flags
(`modem_initialized`, `thread_started` and the like): a refused step of the start
goes to the same shutdown as a program that ran, and the shutdown gives back what
is held.  The capture device buffers what it records, one period (a block, here a
sample) at a time.  A buffer that fills up is an overrun and loses what it held;
`snd_pcm_prepare` empties it, and a prepared device starts with the next read.
The device may also fail or go away at will.  The thread's steps are the running
flag, the blocking read, which takes the oldest period, `snd_pcm_prepare` and
`snd_pcm_recover`.  The radio hears itself: a period is the station's own if the
line was keyed at any moment while it was recorded (`echo`), whenever it is read
and processed.  `openedBy` is whose sample opened the candidate in progress, and
`late` remembers whether the receiver reopened with own audio still in the device,
the ring or the candidate.  Decoders are a count of jobs (`RxPipeline` has them in
full).

**BurstDetector.**  The two moving averages enter as the level a sample is at
(below, at or above the two thresholds); everything else, the warm-up, the
trigger, the pretrigger ring with its index arithmetic, the two ways to close, the
cooldown and the cap, is computed as in the code.  Whether the noise power is above
zero (`noise`) is settled by the first sample, see `Noisy`.  `MaxPretrigger` and
`MaxAudio` stand for the sizes of the two buffers, which bound a configuration.
`PlatformConfig`, `DefaultConfig` and `ReceiverConfig` are the configurations the
programs run with.

**KissCodec and KissLink.**  Bytes are the four special ones and two others,
which as type bytes are "data" and "TXDELAY".  The client sends any stream in
chunks of any cut, shuts or resets its end, and reads or does not read what it is
sent.  `Parse` takes the next byte of what `recv` returned, `SendByte` one byte
of the blocking send, which a signal may interrupt.  The reference (`Frames`)
reads a stream as a whole: it counts through the places of the FEND, takes what
stands between two of them, and counts through the bytes of that which are no
escape.  The histories `body` and `meant` are the stream as the reference reads
it; `Frames(seen)` is what the client makes of the bytes it was sent.  Names that
other modules have too carry the prefix `Kiss`.

**OtaBenchmark.**  A frame is its target (run and block) and its number; the
receiver's PHY is one queue per profile, from which frames are lost when it is
full or when the receiver is not listening.  The signal thread reads whether the
line is active, releases it, and exits, with the main thread between any two of
these steps.  A receiver whose data receiver cannot start exits without a row for
the attempt, as the code does.

**Transmitter, HackRfTx, HackRfRx, Bench.**  Building a waveform, keying the
line, each write and the drain may fail.  `packet_tx` may be told to leave a
fragment out.  `tx_smoke` reports all or nothing, although it skips frames that
have no waveform.  The HackRF may take or deliver nothing; a callback that reports
the last transfer races the host's polling, and the flush may fail before the
last transfer was generated.  In `Bench` the receiver hears a
carrier when something is on the air; without one the signal power never exceeds
the close ratio, which is an assumption about the radio and not the code.

## 3. What the runs check

| run | instance | distinct states | shows |
|---|---|---|---|
| `ring` | capacity 2, 7 pushes | 5,716 | no slot is written while the consumer holds it; what is read through a peeked pointer stays and belongs together; the high-water mark covers the depth; the ring is a bounded FIFO |
| `completion` | window 2, 2 submitters, jobs 0..4, 2 generations, either numbering | 79,084 | results in order, once, whole, of the current generation; a claim inside the window cannot fail; implements `ReorderWindow`; what was let in is delivered |
| `rx_pipeline` | queues 2 and 1, 6 candidates | 44,816 | each candidate is in exactly one place; only a refused result stalls the window, and it stalls it for good; only an own transmission keeps a decoded frame from reassembly; shutdown ends, with the queues drained |
| `rx_stall` | same queues, 5 candidates | counterexample | finding 1 |
| `fragments` | packets of 1 to 4 frames, 3 packets, losses of at most 2 in a row, timeout 2, MTU 6 | 115,127 | only packets that were sent are handed on, in order, at most once; a packet that arrives whole and in time is handed on; none is completed late |
| `fragment_splice` | packets of 2 frames, losses of at most 2 in a row | counterexample | finding 2 |
| `transmit` | 3 packets of 1 or 2 frames, queue 2, timeout 2, slot 0..2, naps 1..2 | 31,736 | receive shut while keyed; outcomes in order; whole packets under one keying; a timeout is the packet's own and not late; every packet ends; a stop ends the program; implements `HalfDuplex` |
| `front_end` | device buffer 3, audio ring 2, decode queue 1, pretrigger 1, window 3, both decoders, all three modes | 426,629 | no thread works with what is not open; a station's own echo reaches a decoder only through a backlog; while audio flows results and the busy flag do not stay; start and stop end, whatever the device does |
| `echo_decoded` | the same | counterexample | finding 3 |
| `kiss_link` | 5 kinds of bytes, chunks of 1 or 2, frames of at most 2 bytes, 2 packets sent per connection | 196,896 | what is acted upon is what the stream means, wherever it was cut and whoever was connected before; the client reads whole packets; a stop gets through unless the client neither reads nor leaves |
| `ota_benchmark` | 2 runs, 1 block announced twice, 2 frames, queues of 2, deadline 2 | 399,891 | a row counts each frame of its block once and no other; each attempt has its row; a signal leaves the line released |
| `bench` | pretrigger 2, window 3, 5 samples, 2 transfers, 2 frames, target 2 | 810,606 | candidates are unbroken runs of samples; each decode starts at one sample a symbol; what packet_tx, hackrf_tx and hackrf_rx report is so, whatever their devices do; every program ends |

### 3.1 Bounds, and why they are enough

- **Rings.**  The ring's state depends on the two indices alone.  With capacity 2
  (three slots) and seven pushes every index is reused twice, by both sides, in
  every relative position.  The proofs cover every capacity.
- **Window.**  Two slots and five jobs: every slot is reused, a job a window
  ahead exists at each position, a second generation reuses the slots of the
  first with their old contents, and starts from a number that maps jobs to the
  other slots.  Two submitters are enough for a race of two; the proofs cover
  every number of them and every capacity.
- **Pipeline.**  `config.c` lets the queues be 2..8 and 1..8 long; 2 and 1 are
  the smallest, so that six candidates fill both, wrap the window of three, and
  run a whole window ahead.  The proofs cover every length and number.
- **Fragments.**  One to four frames per packet, including two packets of the
  same and of different lengths; losses are bounded so that every run of losses
  is shorter than the packets of more than one frame (see finding 2 for what
  happens without).  One packet (7) is longer than the receiver's MTU (6) by
  less than a frame.
- **Transmit.**  A queue of two and three packets: full queue, refill during a
  transmission, and a packet after a packet that failed.  The timeout of two and
  naps of one or two make the timer expire exactly, late, and not at all.  The
  timer, slot time and wait saturate at the first value the code or a property
  can no longer tell apart; a wait gets as long as the bound allows.
- **Front end.**  A buffer of three periods holds two before it overruns, and the
  ring two more: own and other audio can stand in both at once, in either order,
  so that the backlog of a guard time exists.  A window of three samples, one of
  them from before the trigger, is the smallest that opens, grows and closes;
  every step of the start is taken in all three modes.
- **KISS.**  Streams are unbounded (only what stands between two FEND is
  bounded, by four bytes against a buffer of two, so that escapes, overflow and
  resynchronisation occur in each order), and so is the number of connections.
- **Benchmark.**  Two runs with the same block numbers: frames and announcements
  of the first are in the queues of the second.  Two frames make a duplicate, a
  loss and a reordering across attempts possible.  The proofs cover every number
  of runs, blocks, repeats and frames.
- **Bench.**  Five samples fill the pretrigger ring of two, wrap it, and close a
  window and open the next.  The proofs cover every size of ring and window,
  every target, and every length of a transmission.

### 3.2 Fairness, and why the code justifies it

- `SpscQueue`, `Fragmentation`: none is used; all their properties are safety.
- `Completion`: a thread inside submit goes on (no step of it waits for
  another), and the main thread keeps calling pop, once per audio block.  No
  fairness for beginning a submission.
- `RxPipeline`: decoders run whenever they can (they sleep 2 ms when idle, they
  never block), the main thread finishes what it began, and blocks of audio keep
  coming while the loop runs.  Nothing forces a candidate or a stop.
- `TxRuntime`: the worker runs whenever it can, and the main thread goes on after
  its loop.  Winning a persistence trial is strongly fair: a trial drawn again
  and again succeeds with probability `(P + 1)/256 > 0` each time.  The channel
  need never become free.
- `FrontEnd`: capture thread, main thread and decoders run whenever they can.  A
  read of an empty buffer blocks, and no assumption says that the device records.
  Where a property needs audio, it says so (`AudioFlows`).
- `KissLink`: the main thread runs.  Nothing makes the client read, leave or
  come; `StopGetsThrough` names the case in which it must.
- `OtaBenchmark`: the receiver's loop runs and its clock goes on; nothing is
  assumed of the sender, which may be killed, or of the channel.
- `Bench`: each thread runs, the sound card plays and every wait of the host has
  its limit; the HackRF may deliver nothing and take nothing.

Several cfgs say `CHECK_DEADLOCK FALSE`: those systems stop when the program
ends or the bounded environment has nothing left to offer.

## 4. What is proved

TLAPS checks the proofs for every value of the constants, under the named
assumptions of the modules (capacities and timeouts are positive naturals,
numberings start at naturals, model bounds are naturals).  Every invariant and
every action property the runs check is the statement of a theorem, and so are
the three refinements.

- **SpscQueue** (`TypeCorrect`, `NoSharedSlotCorrect`, `MaximumCorrect`,
  `HeldPacketCorrect`, `RingImplementsFifo`).  The inductive invariant adds to
  the properties that a push which found room still has room when it publishes
  (the consumer only ever makes more), that the depth seen at the start of the
  push bounds the depth now, and that the slot under construction carries the
  fields written so far.  The lemmas are the arithmetic of indices modulo the
  slot count.
- **Completion** (`TypeCorrect`, `DeliveredInOrderCorrect`,
  `ClaimsNeverCollideCorrect`, `CoordinatorImplementsWindow`).  Delivery in
  order is not inductive: it needs that every thread inside submit carries its
  own job of the current generation inside the window (`SubmittersInv`), that a
  WRITING slot belongs to the thread that claimed it (`OwnersInv`), and that a
  READY slot holds the whole result of a job of the window that nobody submits
  (`SlotsInv`).  Two jobs of one window never share a slot (`SlotsAreDistinct`),
  so a slot in use would have to belong to the same job: that is why the
  compare-and-swap cannot fail.  For the refinement, a job counts as recorded
  while a thread submits it, while it waits in its slot, and until
  `next_job_id` has passed it.
- **TxRuntime** (`TypeCorrect`, `ReceiverShutCorrect`, `OutcomesInOrderCorrect`,
  `SentUnderOnePttCorrect`, `TimeoutIsItsOwnCorrect`,
  `TransmitImplementsHalfDuplex`, `StopLeavesNothing`).  `LineInv` ties the line to the worker's
  position, `AiredInv` says the frames on the air are a prefix of the head of the
  queue, and `TimerInv` that the busy timer is never older than the time without
  a free poll; from these the two action properties follow at the three steps
  that end a packet.  That no packet waits longer than two naps over the timeout
  is `BlockedInv`: the time without a free poll is at most a nap ahead of the
  timer, and no nap is begun once the timer has run out.  The refinement is the identity on state and line: each step
  of the worker is one of the cycle or leaves both alone.  `WaitInv`, that the
  worker ends only after the stop and with an empty queue, also gives the safety
  half of `StopEnds`.
- **RxPipeline** (`TypesHold`, `EveryJobAnswered`, `RefusedIsTheEnd`,
  `ShutdownAnswersAll`).
  `EveryJobInOnePlace` is proved place by place (`PlacesInv`: a job is numbered
  already exactly if it is in one of the five places, and what is not popped is
  at or above `next_job_id`), which needs that no queue, and no two of them, hold
  a job twice (`QueuesInv`).  Since what was handed out lies below `next_job_id`,
  a refused job, which the window can never pass, is a wall.  The safety half of
  `ShutdownEnds` adds `ExitInv`: a decoder leaves its loop empty-handed and only
  after it was told to, and no candidate is queued for it after that.
- **Fragmentation** (`LinkProofs`: `TypesHold`, `CompletionsAreTimely`,
  `IntactGetsThrough`, `NothingIsSpliced`).
  The heart is `IntactInv`: as long as all frames of the packet in progress
  arrived, and in time, the assembly stands where the sender does (countdown,
  instant and bytes), whatever was in it before.  It rests on the arithmetic of
  the cut (`CountRoundsUp`, `CutsFit`): every frame but the last is full, none is
  empty, and together they are the packet.  The MTU bound of `TypesHold` holds
  whatever frames come.  `NothingIsSpliced` (`DeliveredAreSent`) has the
  hypothesis `LossesAreShort`, that every run of losses is shorter than the
  packets of more than one frame: a condition on the constants that the instance
  of the run meets, and finding 2 is what happens without it.  `AssemblyInv` says
  that an assembly is the beginning of one packet that was sent, and that if the
  sender is ahead of it, every frame it is ahead by was lost since: the rest of
  that packet, and of a later one all that was sent so far.  A continuation of
  another packet has the countdown that is waited for only if a packet's worth of
  frames was lost in between, which the hypothesis excludes.
- **KissLink** (`LinkProofs`: `KissTypesHold`, `StreamMeansItsFrames`,
  `ClientReadsWhatWasSent`), for every alphabet, frame length and cut of the
  stream.  Uplink: `Follows` says what the parser is at each byte, by what came
  since the last FEND (active if there was one, rejected exactly if that is not
  `Sound`, else holding its content so far and knowing whether it ends in an
  escape); `PushFollows` takes it over one byte, and a new connection starts with
  a parser that follows the empty stream.  Downlink: `InFlight` says where in the
  packet, or in an escape, a send is, by what is unsent and what of the frame was
  sent; `PacketByteSent` moves it by a byte, and `ByteSent` finds that the last
  byte adds the packet, and nothing else, to what is read back (`FramesGrow`).
  The reference counts through sets (`Nth`): `NthOfMore` is what a further place
  changes.  That every count up to the size of the set is reached
  (`NthIsMember`), and that the recursive function `Written` satisfies its
  equation (`WrittenUnfolds`), are inductions over numbers, done by the least
  counterexample (`LeastNumber`, from the well-foundedness of < on Nat).
- **FrontEnd** (`DevicesAreHeld`, `TypesHold`, `EchoNeedsABacklog`).  `PhaseInv`
  says what the main thread may rely on at each place of start, loop and
  shutdown, `HeldInv` that what is held stands on what it was opened with, and
  `ThreadsInv` what keeps each thread on open ground.  Every way through the
  start, with either number of decoders and in each mode, is a case.  The type
  invariant takes the detector through one sample (`ProcessFits`: an open
  candidate is neither empty nor full), and `BacklogInv` bounds what the decoders
  hold, which one block can raise by one candidate.  For the echo,
  `EchoInv` says that a receiver that is open, and did not reopen too early, has
  none of the station's own signal before it: not in the air, in the device, in
  the ring or in the candidate (`OwnPending`).  It needs `ServiceInv`, that nobody transmits in
  the modes without a worker.
- **OtaBenchmark** (`TypesHold`, `LineIsLeftReleased`, `RowsAreHonest`,
  `LedgerBalances`).  `LineInv` gives the line's level at each pair of places of
  the two sender threads.  The counts need `QueueInv`: a frame on its way, or
  counted, is one the sender has passed (`Behind`), so it is on its way only once
  and never comes again.
- **Bench** (`CandidatesAreRuns`, `DecodesStartClean`,
  `ProgramsReportWhatHappened`).  `RingHolds` says which
  sample is in which slot counted back from the write index; `Wraps` is what the
  code's modulo does to an index past the end, and from both follows that the
  ring is unrolled in order, full or not (`UnrolledInOrder`).  What the programs
  report has one invariant each: `KeyInv` counts the fragments in the series and
  says that a refused release makes the call fail, `HackInv` that a flush that
  succeeded came last, and `ReceiverInv` that a decoder which has ended has left
  no candidate behind unless the target was met.

Only model-checked: all liveness (`LetInIsDelivered`, `NothingStallsButRefusal`,
`OnlyTransmissionRejects`, `ShutdownEnds`, `EveryPacketEnds`, the two `StopEnds`,
`LoopKeepsServing`, `StopGetsThrough`, the second half of `AttemptIsReported`,
`BenchEnds`), which the prover does not handle; of `ShutdownEnds`, the stop of
`TxRuntime` and `AttemptIsReported` the safety half is proved.  The findings are counterexamples
of TLC.

## 5. Findings

1. **A refused result stalls reception** (`rx_stall`).  A candidate that is
   dropped while decoder 0 still works on a job a whole window back is submitted
   as a failure, refused by the window, and the refusal is ignored
   (`tools/alsa_rx.c:737`, also 266).  When the window reaches that job it waits
   for ever, and every later frame is refused in turn.
   `docs/fragmentation.md:37` says that a missing job cannot stall the window.
   `NothingStallsButRefusal` shows that this is the only way to stall.
2. **A spliced packet** (`fragment_splice`).  Continuations are matched by their
   countdown alone.  If the last frame of one packet and the first of the next
   are lost, and the countdowns fit, the rest of the second completes the first.
   `docs/kiss-runtime.md:5` promises packet boundaries.  `DeliveredAreSent`
   holds as long as every run of losses is shorter than the packets of more
   than one frame.
3. **The station decodes its own echo** (`echo_decoded`).
   `docs/kiss-runtime.md:22` says that candidates produced by the local transmitter
   "are terminated in the completion coordinator but are not decoded or passed to
   reassembly".  The code decides by the transmitter's state when the candidate
   ends (`tools/alsa_rx.c:730`), not by when its audio was recorded: what is still
   in the device, the audio ring or the detector when the guard time is over, which
   `rx_guard_ms` lets be zero, goes to a decoder, and what it decodes to on to
   reassembly.  `EchoNeedsBacklog` shows that this is the only way.

Differences between documents and code met on the way, which no run needs:

- `docs/config.md:224` calls `channel_busy_timeout_ms` the "Maximum time TX waits
  for channel access before failing" and has the persistence trials within it.  A
  poll that finds the channel free stops the timer (`src/platform/runtime.c:160`),
  also when the trial is then lost, so a packet can wait much longer.  What is
  bounded is the wait without a free poll: `TimeoutIsItsOwn` bounds it from below
  and from above.
- `docs/kiss-runtime.md:37` says that the channel is busy during a burst the
  correlator confirmed.  The flag is published only if the noise power is above
  zero (`tools/alsa_rx.c:748`); if the first sample's power was exactly zero it
  stays zero (`src/platform/burst_detector.c:77`, with the energy that
  `alsa_rx.c:518` requires), and the flag is never set.  `ProcessBlock` does the
  same; `LoopKeepsServing` needs only that the flag does not stay set.
- `docs/config.md:225` describes `rx_guard_ms` as guarding after RX activity; the
  code waits it after its own transmission.
- `docs/kiss-runtime.md:40` lists SIGINT and SIGTERM among the things that release
  the line; on a signal the worker first drains its queue, keying the line again
  for each packet (the program does end with the line released, `StopEnds`).

## 6. Not modelled, and why

- Signal processing (`src/phy`, the equalizing filter, the arithmetic inside a
  decode pass): floating point on sample streams.  What it decides is a free
  choice in the models, bounded to the outcomes its functions return.
- LDPC codes (`src/fec`): a matrix over GF(2) of 64 by 128 bits and an iteration
  over soft values.  The outcomes are among `Modem`'s.  The CRC of the frame
  format is a hash a model would only recompute.
- YAML parsing and most ranges of `config.c`: the ranges are assumptions on the
  constants; the detector section is modelled, because it is computed with.
- Non-packet mode of `alsa_rx.c` beyond its start and stop, statistics, logging,
  the report at the end.
- Argument parsing of all tools, and the modulation of IQ samples.
- `radio_calibrate`, `radio_calibrate_hackrf`, `hackrf_nfm_meter` and `wav.c`:
  sequential loops over samples with a report at the end, whose content is
  arithmetic.  `kiss_benchmark` is a client of the KISS port, and such a client
  is `KissLink`'s environment.
- The receive queue between reassembly and KISS: filled and emptied by one
  thread, never more than one packet long.
- Weak-memory effects beyond the acquire/release pairs (see 2.1).

## 7. Running

    tlc -config Completion.cfg Completion.tla      # any run of PROJECT.json
    tlapm CompletionProofs.tla                     # any *Proofs module

Definitions called `Mutant: ...` in the modules are faulty variants of the code's
steps.  No specification uses them; each property is broken by one of them, which
is how it is known to say something.
