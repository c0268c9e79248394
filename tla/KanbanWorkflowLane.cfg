CONSTANTS
  LastColumn = 3
  Automated = {1, 2, 3}
  AutoAdvance = {1}
  Dev = {3}
  LaneSteps <- TwoThenOne
  FallbackSteps = 0
  Mode = "watchdog_retry"
  MaxFallbackAttempts = 1
  MaxRecoveryAttempts = 1
  RepeatLimit = 2
  MaxHandlers = 2
  SlotsFree = TRUE
  Undisturbed = TRUE
  MaxMoves = 1
  Summaries = FALSE
  MaxLooks = 1
  MaxFaults = 0
  MaxSessions = 20
  None = None
SPECIFICATION FairSpec
INVARIANTS RecoveryBounded OneWorker
PROPERTIES StepsInOrder  CompletedLaneAdvances  LostLaneRevived
CHECK_DEADLOCK FALSE
