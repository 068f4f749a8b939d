\* No call fails: the requests alone are enough.
SPECIFICATION Spec
CONSTANTS
  Amount = 1
  MaxRequests = 3
  MaxFaults = 0
INVARIANTS
  StrictStopStops
CHECK_DEADLOCK FALSE
