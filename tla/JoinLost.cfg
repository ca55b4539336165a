SPECIFICATION FairSpec
CONSTANTS
    Peer = {b1}
    Handler = {h1}
    Config = {b1}
    Public = {b1}
    Rejected = {}
    Virtual = {}
    MaxHandshakes = 0
    MaxFailures = 1
PROPERTIES
    EventuallyConnected
CHECK_DEADLOCK FALSE
