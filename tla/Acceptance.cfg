SPECIFICATION FairSpec
CONSTANTS
    t1 = t1
    t2 = t2
    t3 = t3
    k1 = k1
    k2 = k2
    Tasks = {t1, t2, t3}
    Kind <- Each
    Keys = {k1, k2}
    Key <- Shared
    MaxKills = 1
    MaxAttempts = 3
INVARIANTS
    TypeOK
    WholeResults
    ResultsExact
    FailsOnlyRaced
PROPERTIES
    EveryTaskEnds
CHECK_DEADLOCK FALSE
