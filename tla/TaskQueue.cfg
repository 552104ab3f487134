CONSTANTS
    t1 = t1 t2 = t2
    g1 = g1
    u1 = u1
    c1 = c1 c2 = c2
    Tasks = {t1, t2}
    Targets = {g1}
    Owners = {u1}
    OwnerOf <- OneOwner
    Clients = {c1, c2}
    NoTask = NoTask
    NoTarget = NoTarget
    MaxTroubles = 1
SPECIFICATION FairSpec
INVARIANTS
    ProcessingIsHeld
    NoLostWakeUp
PROPERTIES
    ClaimsOldestFirst
    Lifecycle
    EveryTaskSettles
    WorkerEndsAfterShutdown
