SPECIFICATION KissSpec
CONSTANTS
  MaxFrame = 2
  Alphabet = {"FEND", "FESC", "TFEND", "zero", "one"}
  MaxChunk = 2
  PacketBytes = {"FESC"}
  MaxBody = 4
  MaxSent = 2
INVARIANTS KissTypeOK FramesAreTheStream ClientSeesWholePackets
PROPERTY StopGetsThrough
\* The loop ends when a stop was requested.
CHECK_DEADLOCK FALSE
