SPECIFICATION FairSpec
CONSTANTS
  d1 = d1
  d2 = d2
  g1 = g1
  NTasks = 3
  Manual = {3}
  ParallelGroup <- NoGroups
  NoGroup = NoGroup
  References = {2}
  Priority <- HighLast
  Streams <- AllTasks
  Dispatchers = {d1}
  MaxConcurrent = 1
  NoSession = NoSession
  Never = Never
  MaxStarts = 2
  MaxRetries = 1
  MaxEdits = 0
  MaxFaults = 2
INVARIANTS TypeOK LimitRespected
PROPERTIES TaskSettles ReadyRuns
CHECK_DEADLOCK FALSE
