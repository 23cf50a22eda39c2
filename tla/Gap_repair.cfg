SPECIFICATION FairSpec
CONSTANTS
  g1 = g1
  g2 = g2

  Gaps = {g1, g2}
  From <- MC_From
  To <- MC_To
  Limit = 2
  Heard = {0}
  Requests = {r1}
  Resolvers = {w1}
  MaxAttempts = 2
  MaxFaults = 1
  MaxCrashes = 1
  NoRequest = NoRequest
CHECK_DEADLOCK FALSE
INVARIANTS RepairInv EvidenceKept TranscribedOnce
PROPERTIES GapSettles
