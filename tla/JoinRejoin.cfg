SPECIFICATION AppFairSpec
CONSTANTS
    Peer = {b1, r1, v1}
    Handler = {h1}
    Config = {b1}
    Public = {b1}
    Rejected = {r1}
    Virtual = {v1}
    MaxHandshakes = 1
    MaxFailures = 1
INVARIANTS
    TypeOK
    RejoinKnowsSomebody
PROPERTIES
    MultiJoinReturns
    
CHECK_DEADLOCK FALSE
