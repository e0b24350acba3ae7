SPECIFICATION Spec
CONSTANTS
  OctetBits = 2
  Octets = 2
  Names = {n1}
  Bridges = {"br0"}
  Cidrs <- MCCidrs
  Callers = {c1, c2}
  MaxNets = 2
  MaxFaults = 1
  MaxCrashes = 1
INVARIANT GatewayIsFirstHost
