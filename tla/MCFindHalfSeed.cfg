SPECIFICATION Spec
CONSTANTS
  Users = {"ann"}
  Images <- MCImages
  MaxCalls = 2
  MaxDeploys = 1
  MaxFaults = 1
INVARIANT SeededClaimIsWhole
CHECK_DEADLOCK FALSE
