SPECIFICATION Spec
CONSTANTS
    Tasks = {t1, t2}
    Events = {e1}
    Publishers <- TwoPublishers
    Category <- Exploits
    MaxKills = 0
INVARIANTS
    NoPushAfterSuccess
CHECK_DEADLOCK FALSE
