\* No store failure and no restart.
CONSTANTS
  h1 = h1  h2 = h2  None = None  Absent = Absent
  Haproxy = "haproxy"  Lvs = "lvs"
  Names <- MCNames
  LBs <- MCLBs
  StoreMayFail = FALSE
  MaxTopo = 2
  MaxOps = 2
  MaxCrashes = 0
SPECIFICATION Spec
INVARIANT GSLBWriteThrough
