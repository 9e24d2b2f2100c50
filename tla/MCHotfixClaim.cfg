SPECIFICATION Spec
CONSTANTS
  Users = {"ann", "ben"}
  Images <- MCImages
  MaxCalls = 1
  MaxDeploys = 1
  MaxFaults = 1
INVARIANT CheckForetellsInit
INVARIANT ManifestIsTrue
INVARIANT RetirementIsTrue
PROPERTY DeleteSparesTheMounted
CHECK_DEADLOCK FALSE
