SPECIFICATION Spec
CONSTANTS
  Conns = {c1}
  NoConn = NoConn
  InitialIDs = {0}
  MaxLog = 1
  MaxFaults = 0
INVARIANTS
  ShutdownAborts
CHECK_DEADLOCK FALSE
