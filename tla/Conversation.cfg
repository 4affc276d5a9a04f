SPECIFICATION FairConversationSpec
CONSTANTS
  default = default
  coder = coder
  reviewer = reviewer
  u1 = u1
  Agents = {default, coder, reviewer}
  Default = default
  Fallback = default
  Members = {default, coder, reviewer}
  Leader = coder
  Team = Team
  Senders = {u1}
  None = None
  Bindings <- MCBindings
  MaxChainSteps = 2
  MaxRetries = 1
  MaxEvents = 2
  MaxFailures = 2
  MaxOpen = 2
INVARIANTS
  RightAgentRuns
PROPERTIES
  ConversationsEnd
CHECK_DEADLOCK FALSE
