\* Two processes, of which one depends on the other, and two steps; of a handle, two
\* callers, so that one may join the other's stop.
CONSTANTS
  NumProcesses = 2
  NumSteps = 2
  Callers = {c1, c2}
SPECIFICATION EitherSpec
INVARIANTS
  TypeOK
  StatusTruthful
  HandleTypeOK
  StopIsComplete
  OneRequest
PROPERTIES
  DependentsFirst
  CallsEnd
\* A run ends, and a stop may wait for an exit that does not come.
CHECK_DEADLOCK FALSE
