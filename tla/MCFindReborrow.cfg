SPECIFICATION Spec
CONSTANTS
  Launchers = {"ann"}
  Names = {"web", "db", "web-podbench", "mine"}
  Originals = {"web", "db"}
  Managed = {"db"}
  Services = {"web"}
  Selectors = {"app=web", "app=api"}
  MaxCommands = 4
  MaxFaults = 0
INVARIANT LeavesTheClusterAsFound
CHECK_DEADLOCK FALSE
