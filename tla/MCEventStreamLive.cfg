\* An old connection lingers while the client is on the next one.
SPECIFICATION FairSpec
CONSTANTS
  Conns = {c1, c2}
  NoConn = NoConn
  InitialIDs = {0}
  MaxLog = 1
  MaxFaults = 1
PROPERTIES
  Drains
  NoLeak
  EventuallyDelivered
CHECK_DEADLOCK FALSE
