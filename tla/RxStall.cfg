SPECIFICATION Spec
CONSTANTS
  DecodeCapacity = 2
  EqualizerCapacity = 1
  Parallel = TRUE
  MaxJobs = 5
PROPERTIES MissingJobCannotStall
\* The program ends when both decoders are joined.
CHECK_DEADLOCK FALSE
