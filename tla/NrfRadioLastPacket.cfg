\* The comment "go back to rx mode if it was the last packet".
SPECIFICATION FairSpec
CONSTANTS
  RxFifoSize = 2
  MaxPackets = 3
  MBSZ = 2
  MaxSend = 3
PROPERTIES
  LastPacketBackToRx
\* The bounds on packets and calls run out.
CHECK_DEADLOCK FALSE
