\* Safety of the web server: answers longer and shorter than the buffer.
SPECIFICATION Spec
CONSTANTS
  MaxClients = 2
  Requests = {"root", "raw", "json", "message", "badmessage", "nopath", "junk"}
  BufSize = 2
  Rows = 2
  TxSlots = 1
  AcceptSlots = 1
INVARIANTS
  OwnOutput
  ResourcesReturned
  OkMeansQueued
\* Every client has been served.
CHECK_DEADLOCK FALSE
