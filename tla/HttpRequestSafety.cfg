\* Requests whole and cut off, in a buffer an earlier one was in.
SPECIFICATION Spec
CONSTANTS
  HTTP_GET <- MCGet
  HTTP_POST <- MCPost
  HTTP_VER <- MCVer
  HTTP_BREAK <- MCBreak
  Paths <- MCPaths
  SendPath <- MCSend
  PAYLOADSZ = 1
  Methods <- MCMethods
  Urls <- MCUrls
  Headers <- MCHeaders
  Bodies <- MCBodies
  MemSize = 18
  MaxRequests = 2
INVARIANTS
  ParsedRight
  NoStaleMessage
\* The bound on requests runs out.
CHECK_DEADLOCK FALSE
