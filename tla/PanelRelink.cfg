\* One change, and a certificate link that cannot be replaced.
SPECIFICATION FairSpec
CONSTANTS
  Names = {"a", "b"}
  First = "a"
  MaxChanges = 1
  MaxUpgrades = 0
  MaxFaults = 1
  Circumstances = {"relink_fails"}
PROPERTY
  Arrives
CHECK_DEADLOCK FALSE
