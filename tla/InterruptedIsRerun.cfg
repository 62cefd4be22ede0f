SPECIFICATION StartSpec
CONSTANTS
  Procs = {o1}
  Identities = {i1}
  NoOwner = none
  LastVersion = 2
  MaxInodes = 2
  MaxKills = 1
PROPERTY
  InterruptedIsRerun
CHECK_DEADLOCK FALSE
