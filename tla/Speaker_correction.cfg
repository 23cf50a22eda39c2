CONSTANTS
 Finals = 2 Label <- OneLabel NoLabel = NoLabel Participants = {p1} Nobody = Nobody Least = 1 Target = 2
 QueueCapacity = 1 Workers = {"runner", "host"} MaxTracks = 2 MaxClusters = 1 MaxFaults = 1 MaxCrashes = 0 MaxRetries = 1
 Requests = {r1, r2} Texts = {x, y} Original = x Corrected = {1} Kinds = {"text", "speaker", "cluster", "resource"}
SPECIFICATION Spec
SYMMETRY Symmetric
CHECK_DEADLOCK FALSE
INVARIANTS CorrectionInv
PROPERTIES ManualKept BatchAsConfirmed
