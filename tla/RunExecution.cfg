\* Two runs with bursts beyond the limits, timeouts and failing records;
\* the children end and their stderr fits its pipe.
SPECIFICATION WellBehaved
CONSTANTS
  r1 = r1
  r2 = r2
  Providers <- MCProviders
  Runs = {r1, r2}
  MaxLines <- MCLines
  MaxBlocks <- MCBlocks
  PipeCap = 1
  ChanCap = 2
  MaxEvents = 2
  MaxCompleted = 1
  StoreFaults = TRUE
INVARIANTS
  BufferIsBounded
  RawReplyHasCause
  AnswerIsShown
PROPERTIES
  LiveEventsAreKept
  RunReturns
CHECK_DEADLOCK FALSE
