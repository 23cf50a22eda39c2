SPECIFICATION Spec
CONSTANTS
    Meetings = {m1, m2}
    Enders = {e1}
    SegmentSamples = 2
    CheckpointSamples = 2
    MaxSamples = 2
    FaultKinds = {"device", "write", "db", "stop", "merge", "transcript", "flush"}
    MaxFaults = 1
    MaxCrashes = 1
    None = None
CHECK_DEADLOCK FALSE
SYMMETRY Symmetry
INVARIANTS IInv SavedIsComplete StartedIsDurable MicrophoneOff
PROPERTIES ImplementsLifecycle
