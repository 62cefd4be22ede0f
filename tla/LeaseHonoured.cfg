SPECIFICATION Spec
CONSTANTS
  r1 = r1
  r2 = r2
  c1 = c1
  e1 = e1
  t1 = t1
  i1 = i1
  NoRun = NoRun
  NoLease = NoLease
  Runs = {r1, r2}
  Employees = {e1}
  Companies = {c1}
  Items = {t1, i1}
  Tasks = {t1}
  ApiModel = {r2}
  EmployeeOf <- MCEmployeeOf
  CompanyOf <- MCCompanyOf
  Priority <- MCPriority
  WorkItem <- MCWorkItem
  DayLen = 3
  LeaseLen = 1
  MaxTime = 3
  MaxFaults = 1
  MaxCrashes = 1
PROPERTY
  LeaseHonoured
CHECK_DEADLOCK FALSE
