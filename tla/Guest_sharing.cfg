\* A guest, the host and two requests at once, over two listeners; and a page with two reads.
CONSTANTS Components = {"guests", "page"}
  Calls = {c1, c2} Paths = {"recording.wav", "attachment", "audio"} Audio = {"recording.wav"}
  AudioDir = "audio" Late = {"attachment"} MaxWrites = 1 MaxJobs = 1 MaxCrashes = 1
  Guests = {g1} Host = host Requests = {r1} Handlers = {h1, h2} MaxConcurrent = 2 MaxGenerations = 2
  Reads = {p1, p2} Limit = 1 MaxEvents = 2 MaxFaults = 1
SPECIFICATION Spec
CHECK_DEADLOCK FALSE
INVARIANTS GuestInv TimelineInv
PROPERTIES ContentFromSharers
SYMMETRY Interchangeable
