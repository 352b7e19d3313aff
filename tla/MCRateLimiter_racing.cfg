SPECIFICATION Spec
CONSTANTS
  Callers = {c1, c2}
  Cost = 2
  Burst = 3
  MaxClock = 5
INVARIANT WindowBounded
PROPERTY RefusedOnlyOverLimit
CHECK_DEADLOCK FALSE
