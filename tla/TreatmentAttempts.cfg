\* Every mode and context, no repair, one or two, every failure in every attempt.
CONSTANT
  Allowances = {0, 1, 2}
SPECIFICATION Spec
INVARIANTS
  TypeOK
  NothingReused
  CallRecorded
  EvaluatedAccepted
PROPERTY
  ImplementsAttempts
\* A treatment ends.
CHECK_DEADLOCK FALSE
