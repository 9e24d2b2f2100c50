SPECIFICATION EditorSpec
CONSTANTS
  Runs = {1}
  Desks <- LoneDesks
  NoPath = NoPath
  Attempts = 2
INVARIANT ExcludesComeFirst
CHECK_DEADLOCK FALSE
