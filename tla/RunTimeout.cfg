\* A child that hangs: the timeout fires and the run does not end.
SPECIFICATION FairSpec
CONSTANTS
  r1 = r1
  r2 = r2
  Providers <- MCProviders
  Runs = {r1}
  MaxLines <- MCLines
  MaxBlocks <- MCBlocks
  PipeCap = 1
  ChanCap = 1
  MaxEvents = 1
  MaxCompleted = 1
  StoreFaults = FALSE
PROPERTIES
  TimeoutEndsRun
CHECK_DEADLOCK FALSE
