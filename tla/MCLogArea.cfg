SPECIFICATION FairSpec
CONSTANTS
  Uploads = {"u1", "u2"}
  NoUpload = NoUpload
  NoName = NoName
  Paths <- MCPaths
  Retention = 1
  MaxFaults = 2
INVARIANTS
  Retained
PROPERTIES
  Expires
  Stopped
CHECK_DEADLOCK FALSE
