\* Two requests at once, three in all, one fault and one command.
SPECIFICATION Spec
CONSTANTS
  Requests = {r1, r2}
  Pairs = {p1, p2}
  Codes = {1}
  Window = 1
  MaxTime = 3
  MaxCalls = 3
  MaxFaults = 1
  MaxCommands = 1
  Circumstances = {}
SYMMETRY Symmetry
INVARIANTS
  SpentOnce
  LogoutRevokes
  OneClaim
CHECK_DEADLOCK FALSE
