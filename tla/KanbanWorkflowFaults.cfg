CONSTANTS
  LastColumn = 2
  Automated = {1}
  AutoAdvance = {1}
  Dev = {1}
  LaneSteps <- OneEach
  FallbackSteps = 1
  Mode = "ralph_loop"
  MaxFallbackAttempts = 1
  MaxRecoveryAttempts = 1
  RepeatLimit = 2
  MaxHandlers = 2
  SlotsFree = FALSE
  Undisturbed = FALSE
  MaxMoves = 1
  Summaries = FALSE
  MaxLooks = 1
  MaxFaults = 1
  MaxSessions = 2
  None = None
SPECIFICATION Spec
INVARIANTS TypeOK TriggerOfColumn
CHECK_DEADLOCK FALSE
