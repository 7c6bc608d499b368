SPECIFICATION Spec
CONSTANTS
    Movies = {}
    Seasons = {s1}
    Episodes = {e1, e2}
    Hashes = {h1, h2}
    Permits = {p1, p2, p3}
    NoPermit = NoPermit
    NoScope = NoScope
    Pack = Pack
    Size <- UnitSize
    LiveProbes = FALSE
SYMMETRY Interchangeable
INVARIANTS SlotExclusive CopyImportAlone
PROPERTIES RemovalIsExplicit
