\* One user, two addresses, two unlock rules, one call and two faults.
SPECIFICATION FairSpec
CONSTANTS
  Users = {alice}
  Addrs = {1, 2}
  Limits = {0, 1}
  Grace = 0
  Unlocks = {2}
  MaxCalls = 1
  MaxFaults = 2
  Circumstances = {}
INVARIANTS
  RulesStand
PROPERTIES
  KeepsPlace
  VerdictCarriedOut
  RoomIsFound
CHECK_DEADLOCK FALSE
