\* Store failures, one restart, two topology changes, two GSLB calls.
CONSTANTS
  h1 = h1  h2 = h2  None = None  Absent = Absent
  Haproxy = "haproxy"  Lvs = "lvs"
  Names <- MCNames
  LBs <- MCLBs
  StoreMayFail = TRUE
  MaxTopo = 2
  MaxOps = 2
  MaxCrashes = 1
SPECIFICATION Spec
PROPERTY ProjectionEventuallyCurrent
