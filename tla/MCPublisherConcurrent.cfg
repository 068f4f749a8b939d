\* A setup that overlaps a tryPublish: the connection breaks once.
SPECIFICATION Spec
CONSTANTS
  Goroutines = {g1, g2}
  FaultKinds = {"connection"}
  MaxGen = 3
  MaxFaults = 1
INVARIANTS
  StrictNoFalseAck
