SPECIFICATION FairSpec
CONSTANTS
    Thread = {t1, t2}
    Count = 2
    Misnamed = {1}
    RunStarted = FALSE
    NeedsToken = FALSE
    Entitled = {0}
    MaxTries = 3
PROPERTY PoolEnds
