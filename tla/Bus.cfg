SPECIFICATION BusSpec
CONSTANTS
    MaxEvents = 3
    Broken = {2}
    BatchSize = 2
    ClaimIdle = 2
    MaxRetries = 2
    MaxBackoff = 1
    MaxDefer = 3
    MaxDefers = 1
    MaxFaults = 2
CHECK_DEADLOCK FALSE
INVARIANTS AckedIsSettled 
PROPERTIES ImplementsQueue MemoryImplementsQueue PublishedIsAcked
