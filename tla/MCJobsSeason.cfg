SPECIFICATION FairSpec
CONSTANTS
    Movies = {}
    Episodes = {e1, e2}
    Seasons = {s1}
    SeasonOf <- OneSeason
    Sources = {t1}
    SourceOf <- FromPack
    NoSource = NoSource
    NoJob = NoJob
INVARIANTS JInv SeasonAllOrNothing CompleteIsGone
PROPERTIES Erases Settles
CHECK_DEADLOCK FALSE
