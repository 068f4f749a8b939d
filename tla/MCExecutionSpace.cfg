\* Two executors; four requests, enough for a status, two executor requests and a
\* stop, or one executor request, a stop and its repetition; two failed calls.
SPECIFICATION FairSpec
CONSTANTS
  Amount = 2
  MaxRequests = 4
  MaxFaults = 2
INVARIANTS
  TypeOK
  StatusComplete
  StopStops
  CleanedUp
  CloseWaits
PROPERTIES
  Settles
  Responds
CHECK_DEADLOCK FALSE
