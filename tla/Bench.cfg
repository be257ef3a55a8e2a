SPECIFICATION Spec
CONSTANTS
  AllowEqualizer = TRUE
  IqCapacity = 1
  JobCapacity = 2
  Target = 2
  Samples = 5
  MaxPretrigger = 2
  MaxAudio = 3
  Warmup = 2
  Pretrigger = 2
  MaximumActive = 3
  Frame = 2
  Latency = 1
  Frames = 2
  Total = 2
INVARIANTS EachDecodeStartsClean CandidateIsRecentAudio ReportsAreHonest
PROPERTY BenchEnds
CHECK_DEADLOCK FALSE
