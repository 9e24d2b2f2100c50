SPECIFICATION DebugSpec
CONSTANTS
    Runs = {r1, r2}
    NoRun = NoRun
    Conventional = 5678
    Fresh = {40001, 40002}
    Pinned = 40009
    Scenarios <- PinnedPods
INVARIANT ProvisionedEntryAnswers
CHECK_DEADLOCK FALSE
