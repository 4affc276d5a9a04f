SPECIFICATION MCSpec
CONSTANTS
  m1 = m1
  m2 = m2
  m3 = m3
  a1 = a1
  Msgs = {m1, m2, m3}
  Agents = {a1, a2, a3}
  NoMsg = NoMsg
  NoAgent = NoAgent
  MaxRetries = 1
  MaxConcurrentRuns = 2
  JoinCap = 1
  DeadLetterEnabled = TRUE
  IoFaults = FALSE
  MaxCrashes = 2
  Processor = Processor
  Behaviours = {"streams", "deaf", "hangs"}
  Size <- MCSize
  NoCall = NoCall
  MaxChromes = 2
  Installations <- MCInstallations
INVARIANTS
  TwinsHaveCause
PROPERTIES
  FilesSettleOrAreHeldUp
CHECK_DEADLOCK FALSE
