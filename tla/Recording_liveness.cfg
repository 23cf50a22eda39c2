SPECIFICATION FairSpec
CONSTANTS
    Meetings = {m1}
    Enders = {e1, e2}
    SegmentSamples = 2
    CheckpointSamples = 2
    MaxSamples = 3
    FaultKinds = {"device", "write", "stop", "merge", "transcript", "flush"}
    MaxFaults = 1
    MaxCrashes = 1
    None = None
CHECK_DEADLOCK FALSE
INVARIANTS
    OkMeansSaved
PROPERTIES
    
    FailureEnds
    BootRecovers
