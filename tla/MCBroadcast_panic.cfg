SPECIFICATION FairSpec
CONSTANTS
    s1 = s1
    N = 2
    Sends <- OneTap
    BatchSize = 2
    MaxStops = 0
    Env = {}
INVARIANT
    ActiveIsWorkedOn
CHECK_DEADLOCK FALSE
