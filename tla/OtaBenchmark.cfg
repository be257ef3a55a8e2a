SPECIFICATION Spec
CONSTANTS
  Runs = 2
  Blocks = 1
  Repeats = 2
  Packets = 2
  Capacity = 2
  Deadline = 2
INVARIANTS CountsAreHonest SignalLeavesLineReleased
PROPERTY AttemptIsReported
CHECK_DEADLOCK FALSE
