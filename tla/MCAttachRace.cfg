SPECIFICATION FairSpec
CONSTANTS
  Launchers = {"l1", "l2"}
  Workloads = {"app"}
  Owner <- TwoPeople
  Key <- TwoPeople
  Requests <- RaceRequests
  Pods <- BlueapiPod
  Policies <- RacePolicies
  ImageUid = 0
  ImageGid = 0
  Attempts = 2
  MaxAttaches = 1
  MaxFaults = 1
INVARIANT HandedSeatIsOwn
PROPERTY ImplementsLedger
PROPERTY AttachEnds
CHECK_DEADLOCK FALSE
