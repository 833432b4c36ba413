\* Safety of the raw feed: more clients than slots.
SPECIFICATION Spec
CONSTANTS
  NC_COUNT = 2
  Clients = {a, b, c}
  NoConn = null
  MaxFrames = 2
INVARIANTS
  SlotConservation
  WriteTargetLives
  AtMostTwice
  SeatForTheLiving
\* The bounds on frames and connections run out.
CHECK_DEADLOCK FALSE
