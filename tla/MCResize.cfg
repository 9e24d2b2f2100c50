\* Resizes and editors on one pod.
SPECIFICATION Spec
CONSTANTS
  Users = {"ann", "ben"}
  Pods <- MCPods
  Ranges <- MCRanges
  Wants <- MCWants
  EditorLimit = 6
  EditorHeadroom = 2
  MaxCalls = 3
  MaxChanges = 1
INVARIANT EditorRaisesOnce
INVARIANT RaiseIsAdmitted
PROPERTY AdviceWorks
CHECK_DEADLOCK FALSE
