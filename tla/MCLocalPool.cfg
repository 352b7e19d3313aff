SPECIFICATION Spec
CONSTANTS
  Reqs = {r1, r2}
  Workers = {w1, w2}
  MaxSock = 2
  MaxIdle = 1
  MaxData = 2
  Framings <- AllFramings
  Faults <- AllFaults
SYMMETRY Symmetric
INVARIANT OwnAnswer
INVARIANT WholeAnswer
INVARIANT NobodySleepsOnWork
INVARIANT NeverStranded
PROPERTY ImplementsFrames
CHECK_DEADLOCK FALSE
