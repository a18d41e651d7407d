SPECIFICATION FairSpec
CONSTANTS
  c1 = c1
  Clients <- MCClients
  Paths <- MCPaths
  path <- MCpath
  Codes <- MCCodes
  MaxFrames = 4
INVARIANTS
  TypeOK
  CallsInOrder
  ClosedIsLast
PROPERTIES
  ClosingIsTold
\* connections are used once: the run ends when all are closed
CHECK_DEADLOCK FALSE
