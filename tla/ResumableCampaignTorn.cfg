\* A file of the final family left partially written.
CONSTANTS
  Procs = {p1, p2}
  NoProc = NoProc
  N = 2
  EpochIds = {1, 2}
  MaxRuns = 2
  Times = {0, 1, 2, 3, 4, 5, 6, 7, 8, 9, 10, 11, 12, 13, 14}
  RepairAttempts = 0
  Faults = {"torn"}
SPECIFICATION Spec
INVARIANTS
  FinalFamilyRecoverable
CHECK_DEADLOCK FALSE
