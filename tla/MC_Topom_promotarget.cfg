\* A promotion interrupted by a crash, then other handlers; store writes succeed.
CONSTANTS
  g1 = g1  g2 = g2  a1 = a1  a2 = a2  a3 = a3  r1 = r1  s1 = s1
  Absent = Absent
  Groups <- MCOneGroup
  Addrs <- MCAddrs
  ReportAddrs <- MCReportAddrs
  Sentinels <- MCSentinels
  RunId <- MCRunId
  StoreMayFail = FALSE
  MaxCrashes = 1
SPECIFICATION Spec
VIEW StateView
PROPERTY PromotionTargetKept
