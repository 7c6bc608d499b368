SPECIFICATION FairSpec
CONSTANTS
    Size = 2
    MaxRate = 2
    StallTime = 2
    ProbeTime = 1
    ProofAge = 1
    SlowRate = 1
    GainNum = 1
    GainDen = 5
    SlowReplacement = TRUE
    Expiry = 4
PROPERTY LoserGivesWay
PROPERTY HandoverIsProven
PROPERTY VerdictStands
PROPERTY TrialEnds
