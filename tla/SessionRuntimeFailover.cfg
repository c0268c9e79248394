SPECIFICATION RetriedSpec
CONSTANTS
  Instance = {a, b}
  Prompt = {}
  Lease = 1
  NoOwner = NoOwner
  Background = {}
  MaxFaults = 2
  Hydrates = {b}
  Jsonl = {}
  RowPersisted = TRUE
  DbReadsFail = FALSE
  LeaseOutlivesSteps = FALSE
PROPERTIES FailsOver
