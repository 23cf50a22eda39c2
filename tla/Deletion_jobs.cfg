\* A recording in the audio directory, and a file that comes later beside it.
CONSTANTS Components = {"deletion"}
  Calls = {c1, c2} Paths = {"recording.wav", "attachment", "audio"} Audio = {"recording.wav"}
  AudioDir = "audio" Late = {"attachment"} MaxWrites = 1 MaxJobs = 1 MaxCrashes = 1
  Guests = {g1} Host = host Requests = {r1} Handlers = {h1, h2} MaxConcurrent = 2 MaxGenerations = 2
  Reads = {p1, p2} Limit = 1 MaxEvents = 2 MaxFaults = 1
SPECIFICATION Spec
CHECK_DEADLOCK FALSE
INVARIANTS DeletionInv RetryReachesAll
SYMMETRY Interchangeable
