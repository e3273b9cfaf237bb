\* A promotion whose resync fails; no store failures, no crashes.
CONSTANTS
  g1 = g1  g2 = g2  a1 = a1  a2 = a2  a3 = a3  r1 = r1  s1 = s1
  Absent = Absent
  Groups <- MCOneGroup
  Addrs <- MCAddrs
  ReportAddrs <- MCReportAddrs
  Sentinels <- MCSentinels
  RunId <- MCRunId
  StoreMayFail = FALSE
  MaxCrashes = 0
SPECIFICATION Spec
VIEW StateView
INVARIANT NoHiddenSyncFailure
