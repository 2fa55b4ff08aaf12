\* Three nodes and room for a fourth; every two calls, one fault.
CONSTANTS
  NodeIds = {1, 2, 3, 4}
  Addrs = {1, 2, 3}
  Names = {1, 2, 3, 4}
  Ports = {1, 2, 3}
  Hops = {{}, {2}}
  MaxInbounds = 3
  MaxExits = 3
  MaxCalls = 2
  MaxFaults = 1
  Circumstances = {}
SPECIFICATION Spec
INVARIANTS
  TypeOK
  NobodyUntold
  ForwardsMeet
  HopsApart
CHECK_DEADLOCK FALSE
