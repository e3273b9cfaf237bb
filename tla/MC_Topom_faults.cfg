\* Store writes may fail and the dashboard may crash once; one group, two
\* addresses and the reused address r1.
CONSTANTS
  g1 = g1  g2 = g2  a1 = a1  a2 = a2  a3 = a3  r1 = r1  s1 = s1
  Absent = Absent
  Groups <- MCOneGroup
  Addrs <- MCTwoAddrs
  ReportAddrs <- MCTwoReports
  Sentinels <- MCSentinels
  RunId <- MCTwoRunId
  StoreMayFail = TRUE
  MaxCrashes = 1
SPECIFICATION Spec
VIEW StateView
INVARIANTS TypeOK EmptyGroupInSync SentinelInSyncWatched
PROPERTIES TopologyChangeFlagged
