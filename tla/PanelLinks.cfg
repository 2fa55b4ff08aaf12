\* A subscription domain of its own, added to a panel that answered /sub/ itself.
SPECIFICATION Spec
CONSTANTS
  Names = {"a", "b"}
  First = "a"
  MaxChanges = 1
  MaxUpgrades = 0
  MaxFaults = 0
  Circumstances = {"links_on_panel"}
INVARIANT
  KeepsItsJob
CHECK_DEADLOCK FALSE
