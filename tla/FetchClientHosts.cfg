SPECIFICATION Spec
CONSTANTS
    Clients = {c1, c2}
    Hosts = {h1}
    Url <- Names
    Resolves <- Fixed
    Forbids = {}
    Policy <- Public
    RespectsRobots = {c1, c2}
    Interval = 2
    MaxRetries = 1
    MaxRedirects = 1
    BackoffBase = 1
    BackoffCap = 2
    RetryAfters = {0, 1}
PROPERTIES
    HostSpacing
