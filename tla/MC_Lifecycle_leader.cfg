\* Two dashboards of one product, three process starts, store writes that
\* succeed, no crash: Close of the dashboard that waits in Start deletes
\* the leader's registration.
CONSTANTS
  d1 = d1  d2 = d2
  None = None
  Dashboards <- MCDashboards
  StoreMayFail = FALSE
  MaxLaunches = 3
  MaxCrashes = 0
SPECIFICATION Spec
INVARIANT SingleLeader
CHECK_DEADLOCK FALSE
