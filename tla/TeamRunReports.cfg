SPECIFICATION FairSpec
CONSTANTS
  t1 = t1
  t2 = t2
  t3 = t3
  Tasks <- TwoTasks
  MaxDelegations = 2
  MaxChildren = 2
  NotifiesIdle <- OneTask
  NoticesEnd <- SecondTask
  Reports = {"COMPLETED", "NEEDS_FIX"}
  None = None
  MaxReports = 1
  MaxFailures = 1
  MaxCrashes = 1
INVARIANTS TypeOK GroupsAgree ReportedOnce HandledIsTold
PROPERTIES BindingStands EndReachesLead
CHECK_DEADLOCK FALSE
