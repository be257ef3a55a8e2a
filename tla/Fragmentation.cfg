SPECIFICATION Spec
CONSTANTS
  DataCapacity = 2
  MaxCount = 4
  Mtu = 6
  Timeout = 2
  PacketLengths = {2, 5, 6, 7}
  MaxPackets = 3
  MaxClock = 5
  MaxLossRun = 2
INVARIANTS TypeOK DeliveredAreSent IntactIsDelivered NoLateCompletion
\* The sender stops after MaxPackets and the clock at MaxClock.
CHECK_DEADLOCK FALSE
