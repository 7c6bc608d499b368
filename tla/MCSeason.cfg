SPECIFICATION Spec
CONSTANTS
    Movies = {}
    Seasons = {s1}
    Episodes = {e1}
    Hashes = {h1, h2, h3}
    Permits = {p1, p2, p3}
    NoPermit = NoPermit
    NoScope = NoScope
    Pack = Pack
    Size <- UnitSize
    LiveProbes = TRUE
SYMMETRY Interchangeable
INVARIANTS HandoverSound CancelledHasNoUse
PROPERTIES AddIsAdmitted SeasonPurged
