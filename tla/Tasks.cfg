SPECIFICATION TaskSpec
CONSTANTS
  d1 = d1
  d2 = d2
  t1 = t1
  t2 = t2
  t3 = t3
  Depts = {d1, d2}
  Tasks = {t1, t2, t3}
  Plans <- MCPlans
  Asking = {t1}
  MaxRows = 2
  MaxReviews = 2
  NoState = NoState
INVARIANTS
  NoSegmentForgotten
PROPERTIES
  CompletesBottomUp
  DispatchedOnceInOrder
  TasksFollowTables
CHECK_DEADLOCK FALSE
