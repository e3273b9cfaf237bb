CONSTANTS
  a1 = a1
  a2 = a2
  None = None
  Addrs <- MCAddrs
  MaxTries = 10
  MaxFailovers = 2
  MaxOps = 2
SPECIFICATION Spec
INVARIANT TypeOK
PROPERTY ReactorConverges
