\* Store writes and SetMaster calls may fail.  The blocked Wait is the
\* question of the hang run, so no run reports it as a deadlock.
CONSTANTS
  g1 = g1  g2 = g2
  Groups <- MCGroups
  StoreMayFail = TRUE
SPECIFICATION Spec
PROPERTY ResyncAllReturns
CHECK_DEADLOCK FALSE
