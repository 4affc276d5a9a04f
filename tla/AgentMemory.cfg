\* Three turns, two heartbeat runs, resets, stops or failures, and a
\* consolidation CLI that hangs.
SPECIFICATION FairSpec
CONSTANTS
  t1 = t1
  t2 = t2
  t3 = t3
  new = new
  repeated = repeated
  Turns <- MCTurns
  Facts <- MCFacts
  FactOf <- MCFactOf
  Nobody = Nobody
  Headed <- MCHeaded
  KnownCap = 2
  MaxTroubles = 2
INVARIANTS
  LossHasCause
  DuplicateHasCause
PROPERTIES
  FreshAfterReset
  EveryTurnEnds
CHECK_DEADLOCK FALSE
