SPECIFICATION FairSpec
CONSTANTS
    s1 = s1
    s2 = s2
    Sources = {s1}
    Yaml <- Listed
    Pollers = {p1}
    Admins = {a1}
    Backfilled = {}
    Bodies = {b1}
    PollSeconds = 2
    MaxTime = 2
    MaxRuns = 2
    MaxKills = 1
INVARIANTS
    TypeOK
    DocumentsOfSettledRuns
    PollSpacing
PROPERTIES
    SuccessIsFinal
    OnlySeenIsReenabled
    EveryFetchEnds
CHECK_DEADLOCK FALSE
