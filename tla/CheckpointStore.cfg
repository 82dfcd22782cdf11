CONSTANTS
  Procs = {p1, p2}
  NoProc = NoProc
  Identities = {i1}
  MaxAttempts = 2
SPECIFICATION Spec
SYMMETRY Symmetry
INVARIANTS
  TypeOK
  DispatchExclusion
  ChainIntact
  OrphanTemporaryUncommitted
PROPERTIES
  StaleOwnershipKept
CHECK_DEADLOCK FALSE
