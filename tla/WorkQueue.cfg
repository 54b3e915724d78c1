SPECIFICATION Spec
CONSTANTS
    DocKeys = {"doc"}
    SpaceKeys = {"space"}
    Runners = {w1, w2}
    Tokens = {t1, t2, t3}
    MaxRetries = 1
    ClaimLimit = 2
    MaxRequests = 2
    t1 = t1
    t2 = t2
    t3 = t3
    w1 = w1
    w2 = w2
SYMMETRY Symmetric
CHECK_DEADLOCK FALSE
INVARIANTS CompletedIsServed OwedIsScheduled
PROPERTY LeaseEndedByHolder
