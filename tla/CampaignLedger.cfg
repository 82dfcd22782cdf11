\* Two cases, so that the queue has a unit behind, beside and before every other.
CONSTANTS
  N = 4
  EpochIds = {e1}
  Times = {0, 1, 2}
SPECIFICATION Spec
INVARIANTS
  TypeOK
  InOrder
  ContinuationBought
PROPERTIES
  SettledKept
  UpdatedAtForward
  HistoryAccepted
CHECK_DEADLOCK FALSE
