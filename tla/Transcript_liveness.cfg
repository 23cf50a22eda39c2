SPECIFICATION FairSpec
CONSTANTS
    QueueSlots = 2
    FailureSlots = 1
    EventSlots = 1
    FinalSlots = 1
    Checkpoint = 2
    Budget = 1
    MaxSamples = 1
    MaxSessions = 3
    MaxRetries = 1
    FaultKinds = {"dial", "break", "write"}
    MaxFaults = 1
    MaxCrashes = 0
CHECK_DEADLOCK FALSE
INVARIANTS
    BudgetKept
PROPERTIES
    FirstStopReturns
    FailureSettles
