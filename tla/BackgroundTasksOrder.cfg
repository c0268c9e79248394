SPECIFICATION Spec
CONSTANTS
  d1 = d1
  d2 = d2
  g1 = g1
  NTasks = 3
  Manual = {}
  ParallelGroup <- ForkOfSteps
  NoGroup = NoGroup
  References = {}
  Priority <- AllNormal
  Streams = {1, 2}
  Dispatchers = {d1, d2}
  MaxConcurrent = 2
  NoSession = NoSession
  Never = Never
  MaxStarts = 3
  MaxRetries = 0
  MaxEdits = 1
  MaxFaults = 1
SYMMETRY DispatcherSymmetry
INVARIANTS StepsInSequence
PROPERTIES CompletedEnded
CHECK_DEADLOCK FALSE
