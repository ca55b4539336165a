---------------------------- MODULE Forwarding ----------------------------
(***************************************************************************)
(* Multi-hop routing: RoutingTable::SendToClosestNode and RecursiveSend,   *)
(* over the routing tables of all nodes, for the message that the code in  *)
(* src/ forwards, kKadConnectRequest.  Every node that forwards it appends *)
(* itself to hop_nodes and picks the node nearest to the destination among *)
(* those it knows that are not in hop_nodes.                               *)
(*                                                                         *)
(* One message is followed: what a node does with a message depends on the *)
(* message and the node's table only, so messages, and the copies of a     *)
(* message that the network duplicated, do not influence each other.       *)
(* Meanwhile the tables and join states of some nodes may change, and the  *)
(* message may be lost; the history variable still says that neither has   *)
(* happened yet.                                                           *)
(***************************************************************************)
EXTENDS KadId, Sequences, Functions

CONSTANTS
    Node,                  \* the ids of the nodes
    endpoint,              \* endpoint[n]: public ip and port; virtual nodes share one
    first_node,            \* nodes started as first node
    Target,                \* the destinations of messages, nodes or not
    Knows,                 \* Knows[n]: the nodes that n may have in its table
    Unstable               \* the nodes whose tables and join states change

ASSUME ForwardingAssumption ==
    /\ Node \subseteq NodeId /\ IsFiniteSet(Node)
    /\ DOMAIN endpoint = Node
    /\ Knows \in [Node -> SUBSET Node] /\ \A n \in Node : n \notin Knows[n]
    /\ first_node \subseteq Node /\ Unstable \subseteq Node
    /\ Target \subseteq NodeId

VARIABLES
    nodes_,       \* nodes_[n]: the ids in the table of node n
    joined_,      \* the nodes that have joined
    state,        \* the message: "none", "flight", "delivered", "dropped"
    at,           \* the node it is on its way to, or has reached
    des_node_id,
    hop_nodes,
    still         \* nothing has changed or been lost so far

message == <<state, at, des_node_id, hop_nodes>>
vars == <<nodes_, joined_, message, still>>

Tables == {t \in [Node -> SUBSET Node] : \A n \in Node : t[n] \subseteq Knows[n]}

Init ==
    /\ nodes_ \in Tables
    /\ joined_ = Node
    /\ state = "none" /\ at \in Node /\ des_node_id \in Target
    /\ hop_nodes = <<>> /\ still = TRUE

Drop == state' = "dropped" /\ UNCHANGED at

(* next_nodes_vec of RecursiveSend.                                        *)
NextNodes(n) == GetClosestNodes(nodes_[n], des_node_id, RoutingMaxNodesSize_)

ReadyNodesBackwards(n, hops) ==                 \* mutant: hops are not excluded
    {x \in Range(NextNodes(n)) : x # n /\ endpoint[x] # endpoint[n]}

(* ready_nodes of RecursiveSend, with hops as the message's hop list.      *)
ReadyNodes(n, hops) ==
    {x \in Range(NextNodes(n)) : /\ x # n /\ endpoint[x] # endpoint[n]
                                 /\ x \notin Range(hops)}

RecursiveSend(n, hops) ==
    IF IsInjective(hops) /\ ReadyNodes(n, hops) # {}
    THEN /\ at' = FirstOf(NextNodes(n), ReadyNodes(n, hops))
         /\ state' = "flight"
    ELSE Drop

SendToClosestNodeNoHop(n, add_hop) ==           \* mutant: the hop is not recorded
    IF des_node_id # n /\ n \in first_node \cup joined_
    THEN hop_nodes' = hop_nodes /\ RecursiveSend(n, hop_nodes')
    ELSE Drop /\ UNCHANGED hop_nodes

SendToClosestNode(n, add_hop) ==
    IF des_node_id # n /\ n \in first_node \cup joined_
    THEN /\ hop_nodes' = IF add_hop THEN Append(hop_nodes, n) ELSE hop_nodes
         /\ RecursiveSend(n, hop_nodes')
    ELSE Drop /\ UNCHANGED hop_nodes

(* SendConnectRequest(id, service_type), SmartSendReply: node n originates *)
(* a message and routes it from its own table.                             *)
SendRouted(n) ==
    /\ state = "none" /\ at = n
    /\ \E add_hop \in BOOLEAN : SendToClosestNode(n, add_hop)
    /\ UNCHANGED <<nodes_, joined_, des_node_id, still>>

(* SendConnectRequest through the node that answered FindNodes: the first  *)
(* hop is sent directly, and the origin is not recorded in hop_nodes.      *)
SendConnectRequest(n, relay) ==
    /\ state = "none" /\ at = n /\ relay # n
    /\ state' = "flight" /\ at' = relay
    /\ UNCHANGED <<nodes_, joined_, des_node_id, hop_nodes, still>>

(* HandleConnectRequest: the destination takes it, any other node relays.  *)
HandleConnectRequest(n) ==
    /\ state = "flight" /\ at = n
    /\ IF des_node_id = n
       THEN state' = "delivered" /\ UNCHANGED <<at, hop_nodes>>
       ELSE SendToClosestNode(n, TRUE)
    /\ UNCHANGED <<nodes_, joined_, des_node_id, still>>

Lose ==
    /\ state = "flight" /\ Drop /\ still' = FALSE
    /\ UNCHANGED <<nodes_, joined_, des_node_id, hop_nodes>>

(* AddNode and DropNode on the table of n, SetJoin and SetUnJoin.          *)
ChangeTable(n, x) ==
    /\ n \in Unstable /\ x \in Knows[n] /\ still' = FALSE
    /\ nodes_' = [nodes_ EXCEPT ![n] = IF x \in @ THEN @ \ {x} ELSE @ \cup {x}]
    /\ UNCHANGED <<joined_, message>>

ChangeJoin(n) ==
    /\ n \in Unstable /\ still' = FALSE
    /\ joined_' = IF n \in joined_ THEN joined_ \ {n} ELSE joined_ \cup {n}
    /\ UNCHANGED <<nodes_, message>>

Next ==
    \/ Lose
    \/ \E n \in Node :
        \/ SendRouted(n) \/ HandleConnectRequest(n) \/ ChangeJoin(n)
        \/ \E x \in Node : SendConnectRequest(n, x) \/ ChangeTable(n, x)

Spec == Init /\ [][Next]_vars

(* A message that is not lost reaches its next node and is handled there.  *)
FairSpec == Spec /\ WF_vars(\E n \in Node : HandleConnectRequest(n))
-----------------------------------------------------------------------------
(* Types of the tables and of the message.                                 *)
TypeOK ==
    /\ nodes_ \in [Node -> SUBSET Node]
    /\ joined_ \subseteq Node
    /\ state \in {"none", "flight", "delivered", "dropped"}
    /\ at \in Node /\ des_node_id \in NodeId
    /\ hop_nodes \in Seq(Node) /\ still \in BOOLEAN

(* No routing loop: whatever happens to the tables on the way, no node     *)
(* forwards the message twice, and the message in flight is never on its   *)
(* way to a node that has forwarded it.  So RecursiveSend's own check for  *)
(* a repeated hop never fires, and a message makes at most as many hops as *)
(* there are nodes.                                                        *)
NoLoop ==
    /\ IsInjective(hop_nodes)
    /\ state = "flight" => at \notin Range(hop_nodes)

(* A message that was sent comes to an end.                                *)
MessagesEnd == (state = "flight") ~> (state \in {"delivered", "dropped"})

(* What Kademlia needs of the tables: every node but the destination knows *)
(* one nearer to the destination than itself, in another process.          *)
CloserKnown ==
    \A n \in Node \ {des_node_id} :
        \E x \in nodes_[n] : /\ CloserToTarget(x, n, des_node_id)
                             /\ endpoint[x] # endpoint[n]

(* With such tables that do not change, and without loss, every message    *)
(* that was sent reaches its destination: neither the exclusion of         *)
(* hop_nodes nor that of the virtual nodes next door hides the way.        *)
GreedyDelivers ==
    (state = "flight" /\ still /\ CloserKnown) ~> (state = "delivered" \/ ~still)
=============================================================================
