SPECIFICATION MCSpec
CONSTANTS
  History <- Numbered
  Prs = {"p", "q"}
  Rejected = {}
  Runners = {"r", "s"}
  Limit = 2
  MaxAttempts = 2
  Taggers = {"t", "u"}
  ForeignTags = {}
  MaxJobs = 0
  TagAttempts = 2
  MaxEpoch = 2
  MaxFaults = 1
  None = "none"
INVARIANTS DoneIsTagged PrefixOnce DoneWasShown ChangedIsHeld
PROPERTIES  EveryRowIsAnnotated
CHECK_DEADLOCK FALSE
