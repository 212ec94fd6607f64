SPECIFICATION Spec
CONSTANTS
    u1 = u1
    u2 = u2
    j1 = j1
    j2 = j2
    None = None
    Users <- OneUser
    Jobs <- TwoJobs
    Owner <- SameOwner
    Kind <- VideoKinds
    Batch <- NoBatch
    Queue <- TranscodeQueue
    ClearedQueues <- MainClear
    Concurrency = 5
    PageSize = 2
    MaxStops = 0
    Env = {}
INVARIANT
    TranscodeSerialized
CHECK_DEADLOCK FALSE
