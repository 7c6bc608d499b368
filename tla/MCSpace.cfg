SPECIFICATION FairSpec
CONSTANTS
    Torrents = {"a", "b"}
    Size <- Mixed
    Total <- TwoAndTwo
    Probes = {"b"}
    Packs = {}
    MaxForeign <- SsdForeign
    MaxOffline = 1
    MaxFaults = 2
    MaxDeletes = 1
INVARIANTS TypeOK Committed
PROPERTY RoomIsGiven
