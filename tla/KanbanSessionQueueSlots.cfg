SPECIFICATION Spec
CONSTANTS
  Card = {c1, c2, c3}
  Column = {dev, review}
  Call = {e1, e2, e3}
  Drain = {d1, d2}
  Limit = 1
  MaxEdits = 2
  None = None
  Undisturbed = TRUE
SYMMETRY Interchangeable
INVARIANTS TypeOK LimitRespected
PROPERTIES StaleNeverStarted
CHECK_DEADLOCK FALSE
