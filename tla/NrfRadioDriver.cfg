\* Safety and liveness of the radio driver: rings, mailboxes and FIFO fill up.
SPECIFICATION FairSpec
CONSTANTS
  RxFifoSize = 3
  MaxPackets = 5
  MBSZ = 3
  MaxSend = 4
INVARIANTS
  RxBufferOwned
  DeliveredInOrder
  ReceiveOnlyNeverDeaf
  TxBufferIntact
  QueuedTxHasCause
PROPERTIES
  BacklogNeverShrinks
  RxImplementsQueue
  SendReturns
  TxDrained
  ListensAgain
\* The bounds on packets and calls run out.
CHECK_DEADLOCK FALSE
