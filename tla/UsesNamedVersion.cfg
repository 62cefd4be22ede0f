SPECIFICATION CredSpec
CONSTANTS
  Refs = {c1}
  Asks = {1, 2, 3}
  CredRuns = {r1}
  MaxBreaks = 1
  NoCred = none
INVARIANT
  UsesNamedVersion
CHECK_DEADLOCK FALSE
