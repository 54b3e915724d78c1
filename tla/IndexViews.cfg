SPECIFICATION MCSpec
CONSTANTS
  Prs = {1}
  Writers = {"w"}
  MaxVersion = 1
  MaxJobs = 2
  MaxFaults = 2
  Branches = {"main", "rel"}
  Shas = {"c1", "c2", "c3", "c4", "c5", "c6", "c7"}
  Pulls = {"p2", "p5", "p7"}
  PrSha <- AllPrSha
  PrBranch <- AllPrBranch
  Histories <- AllHistories
  Early = {"c2", "p2", "c5", "p5"}
  Numberers = {"n"}
  Runners = {"w"}
  Enrichers = {"en"}
  SweepKinds <- AllSweepKinds
  PageSize = 1
  PagesPerClaim = 1
  MaxEpoch = 2
  MaxSweeps = 1
  MaxFailures = 2
  None = "none"
INVARIANTS SettledIsShown ServedIsComplete ServedIsPrepared
PROPERTY EpochNotLowered
CHECK_DEADLOCK FALSE
