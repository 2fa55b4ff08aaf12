\* Panels with and without stats_ack, replaced by each other.
SPECIFICATION FairSpec
CONSTANTS
  MaxUsed = 1
  MaxRetires = 1
  MaxEpochs = 1
  MaxSeq = 2
  MaxQueue = 1
  MaxFaults = 2
  Circumstances = {"legacy", "rollback", "tick_before_welcome"}
INVARIANTS
  AtMostOnce
PROPERTY
  ReportSettled
CHECK_DEADLOCK FALSE
