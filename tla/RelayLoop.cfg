\* The three nodes of the start; a node may be given an address another node has.
CONSTANTS
  NodeIds = {1, 2, 3}
  Addrs = {1, 2}
  Names = {1, 2, 3}
  Ports = {1, 2, 3}
  Hops = {{}}
  MaxInbounds = 3
  MaxExits = 2
  MaxCalls = 2
  MaxFaults = 0
  Circumstances = {"shared_address"}
SPECIFICATION Spec
INVARIANT
  NoLoop
CHECK_DEADLOCK FALSE
