\* One connection at a time, long enough a log for resuming after an expiry.
SPECIFICATION Spec
CONSTANTS
  Conns = {c1}
  NoConn = NoConn
  InitialIDs <- MCInitialIDs
  MaxLog = 3
  MaxFaults = 2
INVARIANTS
  TypeOK
  NoSkip
  InOrder
  GivesUpOnlyWhenLost
  IInv
PROPERTIES
  Implements
CHECK_DEADLOCK FALSE
