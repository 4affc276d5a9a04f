SPECIFICATION Spec
CONSTANTS
  Msgs = {m1, m2}
  Agents = {a1, a2}
  NoMsg = NoMsg
  NoAgent = NoAgent
  MaxRetries = 1
  MaxConcurrentRuns = 1
  JoinCap = 2
  DeadLetterEnabled = TRUE
  IoFaults = TRUE
  MaxCrashes = 1
SYMMETRY Symmetry
INVARIANTS
  AttemptBound
  AgentExclusive
PROPERTIES
  ClaimHonoursBackoff
  DeliversAtLeastOnce
