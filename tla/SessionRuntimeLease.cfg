SPECIFICATION Spec
CONSTANTS
  Instance = {a, b}
  Prompt = {p}
  Lease = 2
  NoOwner = NoOwner
  Background = {"refresh"}
  MaxFaults = 1
  Hydrates = {}
  Jsonl = {}
  RowPersisted = TRUE
  DbReadsFail = FALSE
  LeaseOutlivesSteps = TRUE
SYMMETRY Interchangeable
INVARIANTS TypeOK ClearedHoldsLease StartsUnderLease
PROPERTIES LeaseNeverStolen ImplementsLease
