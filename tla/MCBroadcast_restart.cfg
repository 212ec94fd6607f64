SPECIFICATION FairSpec
CONSTANTS
    s1 = s1
    N = 2
    Sends <- OneTap
    BatchSize = 2
    MaxStops = 1
    Env = {"cancel", "db", "enqueue", "botcrash", "shutdown", "crash"}
INVARIANTS
    CompletedSkipsNobody
    ReportMatchesRows
PROPERTY
    BroadcastEnds
CHECK_DEADLOCK FALSE
