SPECIFICATION CrawlFairSpec
CONSTANTS
    s1 = s1
    h1 = h1
    h2 = h2
    whole = whole
    broken = broken
    Sources = {s1}
    Yaml <- Listed
    Pollers = {p1}
    Admins = {}
    Backfilled = {s1}
    Bodies = {whole, broken}
    PollSeconds = 1
    MaxTime = 1
    MaxRuns = 1
    MaxKills = 1
    Config <- Html
    Document <- Pages
    Settings <- NoOptIn
    Clients <- SourceMessages
    Hosts = {h1, h2}
    Url <- Names
    Resolves <- Lookup
    Forbids = {h2}
    Policy <- ClientPolicies
    RespectsRobots <- SourceMessages
    Interval = 1
    MaxRetries = 1
    MaxRedirects = 2
    BackoffBase = 3
    BackoffCap = 1
    RetryAfters = {0, 2}
INVARIANTS
    TypeOK
    RequestsBounded
    NoFetchForgotten
PROPERTIES
    ClientSpacing
    RetryAfterKept
    OnlyCheckedAsked
    EveryCallEnds
    ImplementsCycle
CHECK_DEADLOCK FALSE
