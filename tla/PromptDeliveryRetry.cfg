SPECIFICATION FairSpec
CONSTANTS
  Instance = {a, b}
  Prompt = {user, report}
  Report = {report}
  Request = {r1, r2}
  None = None
  RowSaved = FALSE
  Providers = {"opencode-sdk", "claude"}
  MaxFaults = 1
INVARIANTS TypeOK DispatchedOnce AcceptedIsRecorded AcceptedIsDelivered ContextNotLost
PROPERTY RetriedIsTold
