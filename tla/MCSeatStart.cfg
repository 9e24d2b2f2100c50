\* Start-ups, wirings, signals and restarts of two seats of one pod.
SPECIFICATION Spec
CONSTANTS
  Seats = {"one", "two"}
  Pods <- MCPods
INVARIANT ReadySeatConnects
PROPERTY MergesKeepWhatTheyRead
PROPERTY EveryoneIsAnswered
CHECK_DEADLOCK FALSE
