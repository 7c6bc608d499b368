SPECIFICATION FairSpec
CONSTANTS
    Seasons = {1, 2}
    Episodes = {1, 2}
    Season <- OneEach
    Window = 1
    Packs = {1}
    Sourceless = {}
    Dead = {1}
    Size <- Small
    Disk = 3
    MaxOutside = 1
    MaxFaults = 1
    Pools = TRUE
INVARIANT SlotsHaveSources
PROPERTIES EpisodeArrives StoppedIsSettled
