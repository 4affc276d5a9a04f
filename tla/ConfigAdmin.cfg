SPECIFICATION Spec
CONSTANTS
  Agents = {d, a}
  Default = d
  Other = a
  Requests = {r1, r2}
  Commands = {c1}
  None = None
  Installed <- MCInstalled
  MaxBindings = 1
  MaxEdits = 3
  MaxFaults = 1
SYMMETRY Symmetry
CHECK_DEADLOCK FALSE
INVARIANTS
  TeamsAreSound
  EditsSurvive
  ServerIsCurrent
  SecretsStay
