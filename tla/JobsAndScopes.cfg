SPECIFICATION MCSpec
CONSTANTS
  Bootstrap = FALSE
  Repos = {"x"}
  Runners = {"r", "s"}
  Operating = TRUE
  MaxConcurrent = 1
  PageSize = 1
  MaxPrs = 2
  MaxJobs = 1
  MaxActions = 3
  MaxFaults = 1
  None = None
  Requests = {"a", "b"}
  Home <- Processes
  Ttl = 3
  Lag = 1
  MaxRetries = 2
  MaxTime = 5
  MaxChanges = 1
  MaxOutages = 1
  Absent = Absent
INVARIANTS CapIsKept CompletedIsCovered CompleteIsWhole  ServedIsRecent
CHECK_DEADLOCK FALSE
