SPECIFICATION FairSpec
CONSTANTS
    s1 = s1
    s2 = s2
    s3 = s3
    Client = {c1, c2, c3}
    Marked = {c1, c2}
    Server = {s1, s2, s3}
    process <- MCProcess
    kLocal = 2
    kSwitch = 2
    kRouter = 2
    kProcess = 2
    FirstIds = {14}
    MaxJoins = 2
    MaxDrops = 1
    MaxRequests = 2
INVARIANTS
    NoLostDxip
    DxipReachesClient
    NoRequestLost
PROPERTIES
    RequestsSettle
CHECK_DEADLOCK FALSE
