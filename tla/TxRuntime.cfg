SPECIFICATION Spec
CONSTANTS
  QueueCapacity = 2
  BusyTimeout = 2
  MaxSlot = 2
  MaxNap = 2
  FragmentCounts = {1, 2}
  MaxPackets = 3
INVARIANTS ReceiverShutWhileKeyed OutcomesInOrder
PROPERTIES SentUnderOnePtt TimeoutIsItsOwn EveryPacketEnds StopEnds
PROPERTY ImplementsHalfDuplex
\* The program ends when the worker is joined.
CHECK_DEADLOCK FALSE
