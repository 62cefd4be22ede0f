SPECIFICATION MCSpec
CONSTANTS
  p1 = p1
  p2 = p2
  Starts = {p1, p2}
  ProcRuns = {r1}
  RunOf <- MCRunOf
  NoProc = none
  MaxChunks <- MCChunks
  MaxOpens = 1
  WireSize = 1
  r1 = r1
  r2 = r2
  r3 = r3
  c1 = c1
  c2 = c2
  e1 = e1
  i1 = i1
  i2 = i2
  i3 = i3
  NoRun = NoRun
  NoLease = NoLease
  Runs = {r1, r2, r3}
  Employees = {e1}
  Companies = {c1, c2}
  Items = {i1, i2, i3}
  Tasks = {}
  ApiModel = {}
  EmployeeOf <- MCEmployeeOf
  CompanyOf <- MCCompanyOf
  Priority <- MCPriority
  WorkItem <- MCWorkItem
  DayLen = 2
  LeaseLen = 1
  MaxTime = 0
  MaxFaults = 0
  MaxCrashes = 0
  Workers = {w1}
  Backoff <- MCBackoff
  MaxRestarts = 2
  RestartWindow = 5
  PollSleep = 1
  MaxUptime = 14
INVARIANTS
  RestartsBounded
  NoCompanyStarves
  MergedOutputIsAPrefix
PROPERTY
  EveryProcessReleased
CHECK_DEADLOCK FALSE
