SPECIFICATION FairSpec
CONSTANTS
    Requests = {1, 2, 3, 4}
    Media = {101, 102, 104}
    Wants <- EachItsOwn
    First <- NewestLater
    Barren = {3}
    PageSize = 1
    Stuck = FALSE
    MaxDecisions = 2
    MaxFaults = 1
    MaxDeletes = 1
INVARIANT ApprovedIsKept
PROPERTIES Admitted Released
