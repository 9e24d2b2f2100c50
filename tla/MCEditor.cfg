SPECIFICATION EditorSpec
CONSTANTS
  Runs = {1, 2}
  Desks <- AllDesks
  NoPath = NoPath
  Attempts = 2
INVARIANT WindowsAreGuarded
INVARIANT EditorReportIsTrue
CHECK_DEADLOCK FALSE
