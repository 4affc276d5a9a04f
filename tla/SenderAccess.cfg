\* Four messages of a sender, an operator, expiring codes, failing calls.
SPECIFICATION Spec
CONSTANTS
  Msgs = {m1, m2, m3, m4}
  Operators = {o1}
  MaxFailedAttempts = 2
  MaxCodes = 3
  IoFaults = TRUE
SYMMETRY MsgSymmetry
INVARIANTS
  GuessesBounded
  PendingCanPair
PROPERTIES
  ApprovalIsKept
CHECK_DEADLOCK FALSE
