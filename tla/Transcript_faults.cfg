SPECIFICATION Spec
CONSTANTS
    QueueSlots = 1
    FailureSlots = 1
    EventSlots = 1
    FinalSlots = 1
    Checkpoint = 2
    Budget = 2
    MaxSamples = 2
    MaxSessions = 3
    MaxRetries = 0
    FaultKinds = {"db", "dial", "write", "break", "conflict", "final"}
    MaxFaults = 1
    MaxCrashes = 1
CHECK_DEADLOCK FALSE
INVARIANTS TranscriptInv SentOnce TranscribedOnce
PROPERTIES RecoveryGapUntranscribed
