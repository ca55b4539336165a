SPECIFICATION FairSpec
CONSTANTS
    Key = {k1, k2}
    NatDetectStruct = {o1, o2, o3}
    kDetectCount = 2
    DelayCounts = {0, 1}
INVARIANTS
    TypeOK
    AtMostOneLate
PROPERTIES
    DetectionsEnd
    
CHECK_DEADLOCK FALSE
