SPECIFICATION Spec
CONSTANTS
    kNodeIdSize = 2
    kByteBits = 2
    MaxTable = 3
    RoutingMaxNodesSize_ = 2
INVARIANTS
    CloserIsXorDistance
    BucketsAreDistanceLengths
    ClosestIsMinimal
    ClosestToTargetIsExact
CHECK_DEADLOCK FALSE
