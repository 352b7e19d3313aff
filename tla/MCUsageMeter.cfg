SPECIFICATION FairSpec
CONSTANTS
  Users = {u1, u2}
  Readers = {r1}
  MaxBytes = 2
  MaxDays = 1
  Faults = {"db", "crash"}
INVARIANT Conserved
INVARIANT ReadersCountRight
PROPERTY EventuallyStored
CHECK_DEADLOCK FALSE
