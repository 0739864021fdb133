CONSTANTS
    a1 = a1
    k1 = k1
    k2 = k2
    a2 = a2
    a3 = a3
    t1 = t1
    t2 = t2
    p1 = p1
    All = all
    Private = private
    Conns <- MCConns
    Partitions <- MCPartitions
    Access <- MCAccess
    MaxMs = 1
    MaxFailures = 1
    Topics <- MCTopics
    Sources <- MCSources
    Me = a1
    MayPublish <- MCMay
    MaySubscribe <- MCMay
    Attempts = 3
    MaxEvents = 2
    MaxSpawns = 1
    MaxSubs = 2
    Clients = {1, 2}
    Capacity = 2
    MaxSent = 4
    MaxFiles = 3
    MaxSize = 1
    MaxLogged = 4
SPECIFICATION StoreSpec
SYMMETRY SymmetricConns
INVARIANTS MemoryFinds SubscribersAreServed AuditKeeps
CHECK_DEADLOCK FALSE
