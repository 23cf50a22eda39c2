--------------------------- MODULE MC_MinuteVersions ---------------------------
EXTENDS MinuteVersions, TLC
Symmetric == Permutations(Generations) \cup Permutations(Editors) \cup Permutations(Requests) \cup Permutations(Timers)
=============================================================================
