\* Two symbols that may have the same name, and one unusable entry of the index.
CONSTANTS
  Files = {f1, f2}
  Unindexed = {u}
  Symbols = {s1, s2}
  Names = {n}
  Graphs <- SmallGraphs
  Tasks <- AnyTask
  MaxChanges = 1
  MaxFaults = 1
SPECIFICATION Spec
SYMMETRY Symmetry
INVARIANT AmbiguousNotUnrelated
CHECK_DEADLOCK FALSE
