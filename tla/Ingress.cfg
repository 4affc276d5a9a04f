SPECIFICATION FairSpec
CONSTANTS
  N = 3
  Modes <- AllModes
  Allowed <- MCAllowed
  Mentions <- MCMentions
  Attached <- MCAttached
  PageSize = 2
  MaxFaults = 2
  MaxCrashes = 1
INVARIANTS
  MissedHasCause
  CopiesHaveCause
  TypingHasCause
PROPERTY
  EveryMessageArrives
CHECK_DEADLOCK FALSE
