SPECIFICATION Spec
CONSTANTS
  MaxPolls = 2
  MaxOpens = 3
  MaxStreams = 1
  MaxChunks = 2
  MaxMgmt = 3
INVARIANT KeepsTrying
INVARIANT StreamsKeepToTheirLink
INVARIANT OwnResponse
INVARIANT AnswerShape
INVARIANT LoginKept
INVARIANT FailsForAReason
CHECK_DEADLOCK FALSE
