\* Packets get through and clients are served in turn, as long as all read,
\* and no listing of the table is torn.
SPECIFICATION GatewaySpec
CONSTANTS
  MaxClients = 2
  Requests = {"json", "message"}
  BufSize = 2
  Rows = 1
  TxSlots = 1
  AcceptSlots = 1
  RxSlots = 1
  MaxPackets = 2
PROPERTIES
  PacketsFlow
  Served
  TableStill
\* The bounds on packets and connections run out.
CHECK_DEADLOCK FALSE
