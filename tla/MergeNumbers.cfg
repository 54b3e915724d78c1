SPECIFICATION MCSpec
CONSTANTS
  Shas = {"a", "b"}
  Prs = {"p", "o"}
  Landed <- ShownLanded
  Hint <- ShownHint
  Squash = {"a", "b"}
  History <- ShownHistory
  Failures = {}
  Documents = {"p", "a"}
  Attesting = FALSE
  Reconcilers = {"r"}
  Materializers = {"m", "n"}
  BatchSize = 2
  NumberMax = 3
  MaxEpoch = 2
  MaxFaults = 0
  None = "none"
INVARIANTS NumbersAreGapless NumberedIsShown
PROPERTY NumbersAreKept
CHECK_DEADLOCK FALSE
