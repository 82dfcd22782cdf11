\* Two files, two symbols that may have the same name, one file that is not indexed.
CONSTANTS
  Files = {f1, f2}
  Unindexed = {u}
  Symbols = {s1, s2}
  Names = {n}
  Graphs <- SmallGraphs
  Tasks <- AnyTask
  MaxChanges = 1
  MaxFaults = 2
SPECIFICATION Spec
SYMMETRY Symmetry
INVARIANTS
  TypeOK
  RelationshipTruthful
CHECK_DEADLOCK FALSE
