SPECIFICATION Spec
CONSTANTS
  MaxChanges = 2
  MaxRetries = 0
  MaxReprocess = 3
  MaxCopies = 2
  MaxRequests = 0
  MaxFaults = 1
CHECK_DEADLOCK FALSE
INVARIANTS ProcessedIsIndexed IndexShowsProcessed IndexHasSnapshot
