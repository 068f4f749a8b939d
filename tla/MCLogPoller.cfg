SPECIFICATION FairSpec
CONSTANTS
  Callers = {"events"}
  Versions = {"v1", "v1alpha"}
  Kinds = {"ok", "bad"}
  FirstIDs <- MCFirstIDs
  MaxLines = 2
  MaxFaults = 1
INVARIANTS
  NoGap
  ToldTheTruth
PROPERTIES
  Ascending
  Told
  Delivered
  Released
CHECK_DEADLOCK FALSE
