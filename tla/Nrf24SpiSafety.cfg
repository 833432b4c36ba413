\* The chip from power-on and from other firmware's settings.
SPECIFICATION Spec
CONSTANTS
  RxFifoSize = 2
  MaxPackets = 3
  MaxSend = 3
INVARIANTS
  OnAirConfigured
PROPERTIES
  ImplementsPort
\* The bounds on packets and messages run out.
CHECK_DEADLOCK FALSE
