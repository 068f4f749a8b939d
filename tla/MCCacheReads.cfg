SPECIFICATION FairSpec
CONSTANTS
  Callers = {"a", "b"}
  MaxFaults = 1
INVARIANTS
  TypeOK
  OneCall
  MonotonicReads
  Ordered
PROPERTIES
  NeverBack
  CallsReturn
CHECK_DEADLOCK FALSE
