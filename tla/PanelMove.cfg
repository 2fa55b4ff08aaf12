\* Three changes or retirements, one upgrade, one fault.
SPECIFICATION FairSpec
CONSTANTS
  Names = {"a", "b", "c"}
  First = "a"
  MaxChanges = 3
  MaxUpgrades = 1
  MaxFaults = 1
  Circumstances = {}
INVARIANTS
  TypeOK
  KeepsItsJob
  ChangeSticks
PROPERTIES
  Arrives
CHECK_DEADLOCK FALSE
