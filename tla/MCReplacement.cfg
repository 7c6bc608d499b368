SPECIFICATION FairSpec
CONSTANTS
    Sources = {1, 2, 3}
    Dead = {2}
    Movie = FALSE
    Size = 1
    Stalled = 2
    SlowAfter = 2
    Rate = 1
    Slow = FALSE
    Horizon = 2
    Handover = TRUE
    MaxFaults = 1
    MaxPauses = 1
PROPERTIES NewcomerAlone CompleteIsKept StallIsReal Arrives
