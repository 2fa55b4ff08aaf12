\* A stats tick between emptying the outbox and settling the books.
SPECIFICATION Spec
CONSTANTS
  MaxUsed = 2
  MaxRetires = 0
  MaxEpochs = 1
  MaxSeq = 2
  MaxQueue = 1
  MaxFaults = 0
  Circumstances = {"tick_inside_ok"}
INVARIANTS
  AtMostOnce
CHECK_DEADLOCK FALSE
