SPECIFICATION FairSpec
CONSTANTS
    Tasks = {t1, t2}
    Events = {e1}
    Publishers <- ThreePublishers
    Category <- Exploits
    MaxKills = 1
INVARIANTS
    TypeOK
    NoPendingCommitted
    DeliveredImpliesAccepted
    FirstPushUnique
    NeverOverstated
PROPERTIES
    DeliveredStays
    EveryTaskEnds
    ImplementsOutbox
CHECK_DEADLOCK FALSE
