SPECIFICATION FairSpec
CONSTANTS
    u1 = u1
    u2 = u2
    q1 = q1
    q2 = q2
    k1 = k1
    None = None
    Users <- TwoUsers
    Requests <- TwoRequests
    User <- TwoOfTwo
    Releases <- OneRelease
    Release <- SameRelease
    Tracks <- TwoTracks
    Exempt <- AdminSecond
    Workers = 2
    Env = {"expire", "relexpire", "cancel", "redis", "database", "disk",
           "deadline", "crash"}
INVARIANTS
    CancelStopsAlbum
    ReleaseNotLeaked
    RecordMatchesChat
    OneDownloadPerRelease
PROPERTY
    RequestsEnd
CHECK_DEADLOCK FALSE
