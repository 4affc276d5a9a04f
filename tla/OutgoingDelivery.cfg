\* Two refused messages, one of them for ever, in front of another one; a lost
\* access, an attachment that goes missing, failures and a crash.
SPECIFICATION FairSpec
CONSTANTS
  Messages = {1, 2, 3}
  PartsOf <- MCPartsOf
  Attached <- MCAttached
  Refused = {1, 2}
  Recognized = {2}
  DropsNoAccess = TRUE
  Overhead = 4
  Limits <- MCLimits
  Texts <- MCTexts
  MaxFaults = 2
  MaxCrashes = 1
  MaxCount = 3
INVARIANTS
  CopiesBounded
  ChunksAreSound
PROPERTIES
  RemovedHasCause
  OvertakingHasCause
  EveryMessageLeaves
