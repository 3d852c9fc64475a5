SPECIFICATION Spec
CONSTANTS
    t1 = t1
    t2 = t2
    t3 = t3
    t4 = t4
    s0 = s0
    s1 = s1
    s2 = s2
    s3 = s3
    x = x
    y = y
    Tasks = {t1, t2, t3, t4}
    Kind <- Mixed
    TaskSource <- MixedSource
    Feed <- MixedFeeds
    Stories = {x}
    Category <- Report
    Sources = {s0, s1, s2, s3}
    SourceType <- Types
    SourceTrust <- Trust
    LastDay = 2
    MaxKills = 1
INVARIANTS
    TypeOK
    NeverOverclaims
    OneEventPerReport
PROPERTIES
    ConfirmedStays
