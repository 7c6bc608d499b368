SPECIFICATION FairSpec
CONSTANTS
    Movies = {91}
    Episodes = {1, 2}
    Season <- OneEach
    Sources = {11, 12, 13, 14}
    Packs = {13}
    Holds <- TwoForTheMovie
    First <- FirstOfEach
    Late = {101}
    Registry = FALSE
    CopyAnyway = FALSE
    MaxFaults = 1
    MaxSwaps = 1
INVARIANT CompleteIsTheSource
PROPERTIES InOrder Served
CHECK_DEADLOCK FALSE
