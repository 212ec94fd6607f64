SPECIFICATION Spec
CONSTANTS
    u1 = u1
    u2 = u2
    j1 = j1
    j2 = j2
    None = None
    Users <- OneUser
    Jobs <- TwoJobs
    Owner <- SameOwner
    Kind <- TwoKinds
    Batch <- NoBatch
    Queue <- DownloadQueue
    ClearedQueues <- MainClear
    Concurrency = 1
    PageSize = 2
    MaxStops = 0
    Env = {"clear"}
INVARIANT
    ClearEmptiesQueue
CHECK_DEADLOCK FALSE
