SPECIFICATION Spec
CONSTANTS
    Movies = {m1, m2}
    Episodes = {}
    Seasons = {}
    SeasonOf <- OneSeason
    Sources = {t1}
    SourceOf <- FromMovie
    NoSource = NoSource
    NoJob = NoJob
PROPERTIES SourceBeforeFile
CHECK_DEADLOCK FALSE
