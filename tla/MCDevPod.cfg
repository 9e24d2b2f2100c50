SPECIFICATION Spec
CONSTANTS
  Launchers = {"ann"}
  Names = {"web", "db", "web-podbench", "mine"}
  Originals = {"web", "db"}
  Managed = {"db"}
  Services = {"web"}
  Selectors = {"app=web", "app=api"}
  MaxCommands = 3
  MaxFaults = 2
INVARIANT Undoable
INVARIANT NeverDark
PROPERTY TeardownIsComplete
PROPERTY StanzaOutlivesItsPod
CHECK_DEADLOCK FALSE
