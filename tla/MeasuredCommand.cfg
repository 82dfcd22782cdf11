\* Every combination of options and platform.
CONSTANTS
  MaxOutput = 3
  Limit = 1
SPECIFICATION FairSpec
INVARIANTS
  TypeOK
  ResultTruthful
PROPERTIES
  BoundedCommandEnds
CHECK_DEADLOCK FALSE
