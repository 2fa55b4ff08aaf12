\* A second change while the first is being finished, and a setting that cannot be read.
SPECIFICATION Spec
CONSTANTS
  Names = {"a", "b", "c"}
  First = "a"
  MaxChanges = 2
  MaxUpgrades = 0
  MaxFaults = 1
  Circumstances = {"finish_unread"}
INVARIANT
  ChangeSticks
CHECK_DEADLOCK FALSE
