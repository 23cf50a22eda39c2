CONSTANTS Releases = 3 MaxCommits = 2 MaxLapses = 2 MaxEnds = 4
  Finals = 2 Label <- OneLabel NoLabel = NoLabel Participants = {p1} Nobody = Nobody Least = 1 Target = 1 QueueCapacity = 1 Workers = {"runner","router"}
  MaxTracks = 3 MaxClusters = 1 MaxFaults = 1 MaxCrashes = 1 MaxRetries = 0
SPECIFICATION EitherSpec
CHECK_DEADLOCK FALSE
INVARIANTS UpgradeInv NoneLeftBehind
PROPERTIES StartDecides EvidenceRouted
