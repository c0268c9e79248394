SPECIFICATION Spec
CONSTANTS
  Instance = {a, b}
  Prompt = {p}
  Lease = 2
  NoOwner = NoOwner
  Background = {"history"}
  MaxFaults = 0
  Hydrates = {}
  Jsonl = {}
  RowPersisted = TRUE
  DbReadsFail = FALSE
  LeaseOutlivesSteps = TRUE
SYMMETRY Interchangeable
PROPERTIES LeaseNeverStolen
