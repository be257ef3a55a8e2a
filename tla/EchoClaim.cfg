SPECIFICATION Spec
CONSTANTS
  ParallelEqualizer = TRUE
  Periods = 3
  RingCapacity = 2
  QueueCapacity = 1
  MaxPretrigger = 1
  MaxAudio = 3
  Warmup = 2
  Pretrigger = 1
  MaximumActive = 3
  Frame = 2
  Latency = 0
PROPERTY OwnIsNotDecoded
\* The program ends.
CHECK_DEADLOCK FALSE
