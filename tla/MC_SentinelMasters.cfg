\* One Masters call over three sentinels.  The call returns and stops:
\* the terminal state is not a deadlock.
CONSTANTS
  s1 = s1  s2 = s2  s3 = s3  g1 = g1  g2 = g2  a1 = a1  a2 = a2
  None = None  NoAnswer = NoAnswer  LostMajority = LostMajority  Canceled = Canceled
  Sentinels <- MCSentinels
  Groups <- MCGroups
  Addrs <- MCAddrs
  Epochs <- MCEpochs
SPECIFICATION Spec
INVARIANT TypeOK
PROPERTY MastersRefinesQuorum
CHECK_DEADLOCK FALSE
