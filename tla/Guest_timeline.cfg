CONSTANTS Reads = {p1, p2} Limit = 2 MaxEvents = 1 MaxFaults = 0
SPECIFICATION FairSpec
CHECK_DEADLOCK FALSE
PROPERTIES PublishedArrives
