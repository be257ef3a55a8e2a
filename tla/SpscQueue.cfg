SPECIFICATION Spec
CONSTANTS
  Capacity = 2
  MaxOffers = 7
INVARIANTS NoSharedSlot MaximumCoversDepth
PROPERTIES HeldPacketIsStable ImplementsFifo
\* The producer stops offering at MaxOffers and the ring then runs empty.
CHECK_DEADLOCK FALSE
