SPECIFICATION FairHeartbeatSpec
CONSTANTS
  Crier = crier
  Broken = broken
  Spare = spare
  Alarm = alarm
  Note = note
  AllAgents = {crier, broken, spare}
  Explicit = {crier, broken}
  Own = {crier}
  LoopEvery = 2
  Texts = {alarm, note}
  Before = before
  Acks = {before}
  Long = {alarm}
  Ok = Ok
  Error = Error
  None = None
  Answers <- MCAnswers
  Every <- MCEvery
  Window = 2
  Isolated = {crier}
  Target <- MCTarget
  Loop = loop
  Manual = {m1}
PROPERTIES
  RepeatsHaveCause
  ScheduledRunsSpaced
  EveryAgentBeats
