SPECIFICATION FairSpec
CONSTANTS
    r = r
    a = a
    b = b
    c = c
    Node = {r, a, b, c}
    endpoint <- MCEndpoint
    nat_type <- MCNatType
    Client = {c}
    Marked = {c}
    Bootstrap = r
    Searching = {a, c}
    kDetectionTimes = 1
    kDelay = 1
    kQueryNodes = 2
    MaxFaults = 1
INVARIANTS
    ClientsStayOut
    EntriesUsable
PROPERTIES
    Converges
    
