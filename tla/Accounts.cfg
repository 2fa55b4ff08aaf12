\* Months of two minutes; quotas, expiries and schedules switched on and off.
SPECIFICATION FairSpec
CONSTANTS
  Month = 2
  MaxTime = 3
  MaxUsed = 1
  Limits = {0, 1}
  Expiries = {0, 2}
  ResetDays = {0, 2}
  Periods = {2}
  MaxCalls = 2
  MaxFaults = 1
  Circumstances = {}
PROPERTIES
  NoRetroactiveWipe
  ResetsCatchUp
  NodesFollow
CHECK_DEADLOCK FALSE
