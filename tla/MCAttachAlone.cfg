SPECIFICATION Spec
CONSTANTS
  Launchers = {"l1"}
  Workloads = {"app", "db"}
  Owner <- Alone
  Key <- Alone
  Requests <- FlagRequests
  Pods <- AllPods
  Policies <- LadderPolicies
  ImageUid = 0
  ImageGid = 0
  Attempts = 2
  MaxAttaches = 2
  MaxFaults = 1
INVARIANT NamesSpentAreCounted
INVARIANT StoredSeatsRun
INVARIANT RungsAreHonest
INVARIANT NextAttachIsFree
CHECK_DEADLOCK FALSE
