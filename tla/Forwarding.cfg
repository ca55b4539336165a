SPECIFICATION FairSpec
CONSTANTS
    kNodeIdSize = 1
    kByteBits = 3
    Node <- MCFourNodes
    endpoint <- MCSharedEndpoint
    first_node <- MCFirstNode
    RoutingMaxNodesSize_ = 3
    Knows <- MCKnows
    Target <- MCTarget
    Unstable <- MCUnstable
INVARIANTS
    NoLoop
PROPERTIES
    MessagesEnd
    GreedyDelivers
CHECK_DEADLOCK FALSE
