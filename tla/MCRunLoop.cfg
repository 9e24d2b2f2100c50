SPECIFICATION FairSpec
CONSTANTS
  Callers = {"cli"}
  Pids = {1, 2}
  MaxCalls = 2
  MaxBirths = 3
  MaxCrashes = 1
INVARIANT NoChildAbandoned
INVARIANT OneVersionServes
PROPERTY SignalsWhatItLookedAt
PROPERTY StoppedIsGone
PROPERTY CommandEnds
CHECK_DEADLOCK FALSE
