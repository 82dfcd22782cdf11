\* Two benchmark files and one that an edit may add; a mutation of one file, whose changes an assessment
\* lists, and one of both, whose changes it cuts; two edits by somebody else.
CONSTANTS
  Originals = {a, b}
  New = {n}
  Scenarios = {{a}, {a, b}}
  Texts = {x}
  MaxChanges = 1
  MaxEdits = 2
SPECIFICATION Spec
INVARIANTS
  TypeOK
  EvidenceMatched
  NoFalseAlarm
CHECK_DEADLOCK FALSE
