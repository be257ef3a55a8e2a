SPECIFICATION Spec
CONSTANTS
  DataCapacity = 2
  MaxCount = 4
  Mtu = 6
  Timeout = 2
  PacketLengths = {3, 4}
  MaxPackets = 2
  MaxClock = 1
  MaxLossRun = 2
INVARIANTS DeliveredAreSent
\* The sender stops after MaxPackets and the clock at MaxClock.
CHECK_DEADLOCK FALSE
