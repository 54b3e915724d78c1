SPECIFICATION Spec
CONSTANTS
  Bootstrap = TRUE
  Repos = {"x"}
  Runners = {"r"}
  Operating = TRUE
  MaxConcurrent = 1
  PageSize = 1
  MaxPrs = 2
  MaxJobs = 1
  MaxActions = 2
  MaxFaults = 1
  None = "none"
INVARIANT CompleteIsWhole
CHECK_DEADLOCK FALSE
