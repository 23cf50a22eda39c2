CONSTANTS Generations = {g1,g2} Requests = {q1, q2} Editors = {e1} Timers = {t1} MaxFacts = 1 MaxFaults = 1
SPECIFICATION Spec
CHECK_DEADLOCK FALSE
SYMMETRY Symmetric
INVARIANTS MinutesInv EditsMissNothing
PROPERTIES ImplementsHistory
