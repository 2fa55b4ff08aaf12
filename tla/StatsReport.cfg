\* The bytes of two instances of a core, of two node processes, through one
\* fault (a drop, a failed commit or reading, a panel restart).
SPECIFICATION Spec
CONSTANTS
  MaxUsed = 2
  MaxRetires = 1
  MaxEpochs = 2
  MaxSeq = 2
  MaxQueue = 1
  MaxFaults = 1
  Circumstances = {}
INVARIANTS
  TypeOK
  AtMostOnce
  NothingLost
  SettlesWhatWasSent
PROPERTY
  ImplementsLedger
CHECK_DEADLOCK FALSE
