\* Two dashboards of one product, three process starts, failing store
\* writes and one kill, under the fairness of the processes' own steps.
CONSTANTS
  d1 = d1  d2 = d2
  None = None
  Dashboards <- MCDashboards
  StoreMayFail = TRUE
  MaxLaunches = 3
  MaxCrashes = 1
SPECIFICATION LiveSpec
PROPERTY WaiterEventuallyLed
CHECK_DEADLOCK FALSE
