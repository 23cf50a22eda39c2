SPECIFICATION FairSpec
CONSTANTS
  Meetings = {m1}
  Jobs = {j1, j2}
  NoJob = NoJob
  MaxSessions = 2
  MaxTurns = 3
  MaxCalls = 1
  MaxFaults = 1
  Kinds = {"retry", "ask", "sync", "minutes"}
CHECK_DEADLOCK FALSE
INVARIANTS AgentInv
PROPERTIES SettledTurnsStay QuestionEnds GenerationEnds
