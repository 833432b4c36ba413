\* Liveness of the raw feed when the clients keep reading.
SPECIFICATION FairSpec
CONSTANTS
  NC_COUNT = 2
  Clients = {a, b}
  NoConn = null
  MaxFrames = 2
PROPERTIES
  LastFrameArrives
\* The bounds on frames and connections run out.
CHECK_DEADLOCK FALSE
