SPECIFICATION Spec
CONSTANTS
    Movies = {m1}
    Seasons = {}
    Episodes = {}
    Hashes = {h1, h2, h3}
    Permits = {p1, p2, p3, p4}
    NoPermit = NoPermit
    NoScope = NoScope
    Pack = Pack
    Size <- UnitSize
    LiveProbes = TRUE
SYMMETRY Interchangeable
INVARIANTS TypeOK ProbeAnchored EveryTorrentIsOnRecord BudgetCovers
PROPERTIES SingleUse ImportPinsSource
