SPECIFICATION Spec
CONSTANTS
  t1 = t1
  t2 = t2
  t3 = t3
  Tasks <- ThreeTasks
  MaxDelegations = 1
  MaxChildren = 3
  NotifiesIdle <- NoTasks
  NoticesEnd <- NoTasks
  Reports = {"COMPLETED"}
  None = None
  MaxReports = 1
  MaxFailures = 0
  MaxCrashes = 0
INVARIANTS GroupIsTold
CHECK_DEADLOCK FALSE
