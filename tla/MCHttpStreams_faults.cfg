SPECIFICATION FairSpec
CONSTANTS
  Visitors = {v1, v2}
  MaxConn = 2
  MaxStreams = 2
  MaxChunks = 1
  Faults = {"abort", "timeout", "leave", "drop"}
INVARIANT SlotsAccounted
PROPERTY ImplementsAnswer
PROPERTY EventuallyAnswered
PROPERTY BodyEndsOnLiveLink
CHECK_DEADLOCK FALSE
