SPECIFICATION FairSpec
CONSTANTS
  Requests = {"a", "b"}
  Images <- MCImages
  MaxRetries = 2
  MaxFaults = 2
  Apis = {"v0", "v1alpha", "v1beta1"}
INVARIANTS
  Resilient
  StartedComplete
  RejectedNotStarted
PROPERTIES
  Answered
CHECK_DEADLOCK FALSE
