SPECIFICATION Spec
CONSTANTS
    u1 = u1
    u2 = u2
    j1 = j1
    j2 = j2
    None = None
    Users <- OneUser
    Jobs <- TwoJobs
    Owner <- SameOwner
    Kind <- TwoKinds
    Batch <- SecondInBatch
    Queue <- DownloadQueue
    ClearedQueues <- FleetClear
    Concurrency = 1
    PageSize = 1
    MaxStops = 0
    Env = {"clear", "redis", "botcrash", "telegram", "forget"}
INVARIANTS
    ClearTakesWhatItSees
    CompletedIsAnswered
CHECK_DEADLOCK FALSE
