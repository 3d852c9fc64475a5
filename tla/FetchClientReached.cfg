SPECIFICATION Spec
CONSTANTS
    Clients = {c1}
    Hosts = {h1}
    Url <- Names
    Resolves <- Changing
    Forbids = {}
    Policy <- Public
    RespectsRobots = {}
    Interval = 2
    MaxRetries = 1
    MaxRedirects = 1
    BackoffBase = 1
    BackoffCap = 2
    RetryAfters = {0, 1}
PROPERTIES
    OnlyPermittedReached
