SPECIFICATION FairSpec
CONSTANTS
  Instance = {a}
  Prompt = {p, q}
  Lease = 1
  NoOwner = NoOwner
  Background = {"release", "history"}
  MaxFaults = 0
  Hydrates = {}
  Jsonl = {a}
  RowPersisted = FALSE
  DbReadsFail = TRUE
  LeaseOutlivesSteps = FALSE
PROPERTIES PromptsAnswered
