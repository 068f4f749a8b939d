\* Two callers, two connections, any number of timeouts, any two faults.
SPECIFICATION FairSpec
CONSTANTS
  Goroutines = {g1, g2}
  FaultKinds = {"dial", "open", "confirm", "connection", "channel", "nack", "close", "cancel"}
  MaxGen = 2
  MaxFaults = 2
INVARIANTS
  TypeOK
  NoFalseAck
  OneOutstanding
  NoPanic
PROPERTIES
  Interruptible
