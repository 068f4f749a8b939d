SPECIFICATION Spec
CONSTANTS
  Requests = {"a"}
  Images <- MCImages
  MaxRetries = 2
  MaxFaults = 0
  Apis = {"v1beta1"}
INVARIANTS
  ArtifactFound
CHECK_DEADLOCK FALSE
