\* A second change, which gives up the subscription domain, while the first is being finished.
SPECIFICATION Spec
CONSTANTS
  Names = {"a", "b", "c"}
  First = "a"
  MaxChanges = 2
  MaxUpgrades = 0
  MaxFaults = 0
  Circumstances = {"leaves_out"}
INVARIANT
  ChangeSticks
CHECK_DEADLOCK FALSE
