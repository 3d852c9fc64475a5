SPECIFICATION Spec
CONSTANTS
    s1 = s1
    s2 = s2
    Sources = {s1, s2}
    Yaml <- Listed
    Pollers = {p1}
    Admins = {}
    Backfilled = {}
    Bodies = {b1}
    PollSeconds = 2
    MaxTime = 2
    MaxRuns = 2
    MaxKills = 0
PROPERTIES
    DeniedNotFetchedAgain
