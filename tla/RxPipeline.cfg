SPECIFICATION Spec
CONSTANTS
  DecodeCapacity = 2
  EqualizerCapacity = 1
  Parallel = TRUE
  MaxJobs = 6
INVARIANTS EveryJobInOnePlace RefusalIsAWall
PROPERTIES NothingStallsButRefusal OnlyTransmissionRejects ShutdownEnds
\* The program ends when both decoders are joined.
CHECK_DEADLOCK FALSE
