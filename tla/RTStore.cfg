SPECIFICATION Spec
CONSTANTS
    kNodeIdSize = 1
    kByteBits = 3
    RoutingMaxNodesSize_ = 8
    p1 = p1
    p2 = p2
    q1 = q1
    q2 = q2
    s1 = s1
    t1 = t1
    t2 = t2
    Thread = {t1, t2}
    NodeInfoPtr = {p1, p2, q1, s1}
    NullPtr = NullPtr
    SelfPtr = SelfPtr
    node_id <- MCNodeId
    hash64 <- MCHash
    endpoint <- MCEndpoint
    acceptable <- MCAcceptable
    local_id <- MCLocalId
    local_hash64 = 2
    kKadParamK = 2
    kKadParamAlpha = 1
    kKadParamAlphaRandom = 1
SYMMETRY Symmetry
INVARIANTS
    BucketBound
    IndexesAgree
    AlphaLoopCanEnd
    HashMapAgrees
PROPERTIES
    ImplementsNodeSet
