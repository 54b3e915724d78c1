SPECIFICATION FairSpec
CONSTANTS
  MaxChanges = 1
  MaxRetries = 1
  MaxReprocess = 1
  MaxCopies = 2
  MaxRequests = 1
  MaxFaults = 1
CHECK_DEADLOCK FALSE
INVARIANTS HeldIsEarned
PROPERTY EventuallyHandled
