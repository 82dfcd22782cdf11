\* Two cases, two commands by two processes, no fault.
CONSTANTS
  Procs = {p1, p2}
  NoProc = NoProc
  N = 4
  EpochIds = {1, 2}
  MaxRuns = 2
  Times = {0, 1, 2, 3, 4, 5, 6, 7, 8, 9, 10, 11, 12, 13, 14, 15, 16, 17, 18, 19, 20, 21, 22, 23, 24, 25, 26}
  RepairAttempts = 1
  Faults = {}
SPECIFICATION FairSpec
INVARIANTS
  OneCaseKept
PROPERTIES
  CommandsEnd
CHECK_DEADLOCK FALSE
