SPECIFICATION Spec
CONSTANTS
  Seats = {"a", "b"}
  Procs = {1, 2}
  Scenes <- AllScenes
  NoScope = NoScope
  NoPid = NoPid
  Unread = Unread
INVARIANT WorkloadRunsOn
INVARIANT VerdictsAreMeasured
INVARIANT NamedMechanismRefuses
CHECK_DEADLOCK FALSE
