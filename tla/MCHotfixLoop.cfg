\* Restarts of one hotfixed application.
SPECIFICATION Spec
CONSTANTS
  Restarters = {"ann", "ben"}
  MaxLaunches = 3
  MaxBoots = 2
  MaxEdits = 1
  MaxCalls = 1
  MaxFaults = 1
INVARIANT HeldByAScript
INVARIANT NothingOldServes
INVARIANT RunsWhatWasSaved
PROPERTY SeatsSurvive
PROPERTY HoldEnds
CHECK_DEADLOCK FALSE
