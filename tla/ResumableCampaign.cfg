\* One case, three commands by two processes, every fault.
CONSTANTS
  Procs = {p1, p2}
  NoProc = NoProc
  N = 2
  EpochIds = {1, 2, 3}
  MaxRuns = 3
  Times = {0, 1, 2, 3, 4, 5, 6, 7, 8, 9, 10, 11, 12, 13, 14}
  RepairAttempts = 1
  Faults = {"crash", "io", "torn", "marker"}
SPECIFICATION Spec
SYMMETRY Symmetry
INVARIANTS
  TypeOK
  InvocationClaimed
  FamilySound
  SingleInvoker
PROPERTIES
  ContinuesObserved
  ImplementsLedger
  StaysStopped
CHECK_DEADLOCK FALSE
