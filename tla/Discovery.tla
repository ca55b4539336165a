------------------------------ MODULE Discovery ------------------------------
(***************************************************************************)
(* How nodes behind NATs come to know each other: the neighbour search of  *)
(* RoutingTable (FindNeighbours, HandleFindNodesRequest, -Response), the   *)
(* connect request that is relayed to a node that was found, and the       *)
(* handshakes of NodeDetectionManager (src/node_detection_manager.cc).     *)
(*                                                                         *)
(* Every node has a table and a detection manager of its own; one action   *)
(* is one handler or one pass of a timer.  All nodes have joined, and the  *)
(* tables have room (AddNode in detail is in RoutingTable).  Virtual nodes *)
(* of one process share its endpoint.  A NAT lets a packet in only from    *)
(* an endpoint that was written to before.  Packets are lost, delayed and  *)
(* overtake each other.                                                    *)
(***************************************************************************)
EXTENDS Naturals, FiniteSets, Functions

CONSTANTS
    Node,
    endpoint,           \* endpoint[n]: public_ip and public_port
    nat_type,           \* "public" (or without a NAT), "cone" or "abnormal"
    Client,             \* nodes in client mode
    Marked,             \* those whose SetSpeClientMessage sets client_msg
    Bootstrap,          \* the node through which all others have joined
    Searching,          \* nodes whose neighbour search runs
    kDetectionTimes,
    kDelay,             \* detection_delay_count of an abnormal node
    kQueryNodes,        \* kKadParamAlpha + kKadParamAlphaRandom
    MaxFaults           \* bound on lost and slow packets and heartbeat failures

Endpoint == {endpoint[n] : n \in Node}

ASSUME DiscoveryAssumption ==
    /\ IsFiniteSet(Node) /\ Client \subseteq Node /\ Marked \subseteq Client
    /\ Bootstrap \in Node \ Client /\ nat_type[Bootstrap] = "public"
    /\ DOMAIN endpoint = Node
    /\ nat_type \in [Node -> {"public", "cone", "abnormal"}]
    /\ {kDetectionTimes, kQueryNodes} \subseteq Nat \ {0}
    /\ {kDelay, MaxFaults} \subseteq Nat

VARIABLES
    nodes_,                \* nodes_[n]: the peers in the table of n
    detection_nodes_map_,  \* of each node: endpoint to NodeInfo under detection
    opened,                \* <<e, f>>: the NAT of e lets packets of f in
    network,               \* packets under way
    faults                 \* losses, overtaken packets and failures so far

vars == <<nodes_, detection_nodes_map_, opened, network, faults>>

Packet(type, src, des, from, nodes) ==
    [type |-> type, src |-> src, des |-> des, from |-> from, nodes |-> nodes]

(* After the joins: HandleBootstrapJoinRequest has added everybody whose   *)
(* request had no client_msg, HandleBootstrapJoinResponse the bootstrap    *)
(* node (module Join).                                                     *)
Init ==
    /\ nodes_ = [n \in Node |-> IF n = Bootstrap THEN Node \ (Marked \cup {n}) ELSE {Bootstrap}]
    /\ detection_nodes_map_ = [n \in Node |-> [e \in {} |-> 0]]
    /\ opened = {<<e, endpoint[Bootstrap]>> : e \in Endpoint}
    /\ network = {} /\ faults = 0

(* SendData and SendPing: what is sent opens the NAT of the sender for an  *)
(* answer.                                                                 *)
Send(rest, packets) ==
    /\ network' = rest \cup packets
    /\ opened' = opened \cup {<<endpoint[p.from], endpoint[p.des]>> : p \in packets}

Passes(p) ==
    \/ nat_type[p.des] = "public" \/ endpoint[p.from] = endpoint[p.des]
    \/ <<endpoint[p.des], endpoint[p.from]>> \in opened

(* The node whose timer began the exchange a packet belongs to.            *)
Asker(p) == IF p.type \in {"found", "response"} THEN p.des ELSE p.src

(* The timers are periodic, 600 ms and 3 s, whatever became of the packets *)
(* of the last pass: the next one begins after them, or overtakes them, as *)
(* often as MaxFaults allows.                                              *)
TimerPass(n) ==
    LET overtakes == \E p \in network : Asker(p) = n
    IN  /\ overtakes => faults < MaxFaults
        /\ faults' = IF overtakes THEN faults + 1 ELSE faults

CanAddNode(n, peer) == peer # n /\ peer \notin nodes_[n]

BothAbnormal(n, peer) == {nat_type[n], nat_type[peer]} = {"abnormal"}

(***************************************************************************)
(* NodeDetectionManager.                                                   *)
(***************************************************************************)
AddDetectionNode(map, peer) ==
    IF endpoint[peer] \in DOMAIN map THEN map
    ELSE [e \in DOMAIN map \cup {endpoint[peer]} |->
            IF e \in DOMAIN map THEN map[e]
            ELSE [node |-> peer, count |-> 0,
                  delay |-> IF nat_type[peer] = "abnormal" THEN kDelay ELSE 0]]

RemoveDetection(map, e) == Restrict(map, DOMAIN map \ {e})

UsedUp(map) ==
    {e \in DOMAIN map : map[e].delay = 0 /\ map[e].count >= kDetectionTimes}

(* One pass of the timer, under detection_nodes_map_mutex_.                *)
DoTetection(n) ==
    LET map == detection_nodes_map_[n]
        waiting == {e \in DOMAIN map : map[e].delay > 0}
        sending == DOMAIN map \ (waiting \cup UsedUp(map))
    IN  /\ TimerPass(n) /\ DOMAIN map # {}
        /\ detection_nodes_map_' = [detection_nodes_map_ EXCEPT ![n] =
              [e \in DOMAIN map \ UsedUp(map) |->
                  IF e \in waiting THEN [map[e] EXCEPT !.delay = @ - 1]
                                   ELSE [map[e] EXCEPT !.count = @ + 1]]]
        /\ Send(network, {Packet("request", n, map[e].node, n, {}) : e \in sending})
        /\ UNCHANGED nodes_

(***************************************************************************)
(* The neighbour search.  The bloom filter of a request is taken to be     *)
(* exact: the set of the known nodes.  The nodes asked are the closest and *)
(* a random one: any kQueryNodes of the table.  An answer has at most 16   *)
(* nodes, more than there are here.                                        *)
(***************************************************************************)
QueryNodes(n) ==
    IF Cardinality(nodes_[n]) <= kQueryNodes THEN {nodes_[n]}
    ELSE {q \in SUBSET nodes_[n] : Cardinality(q) = kQueryNodes}

FindNeighbours(n) ==
    /\ n \in Searching /\ TimerPass(n)
    /\ \E query_nodes \in QueryNodes(n) :
          Send(network, {Packet("find", n, m, n, nodes_[n]) : m \in query_nodes})
    /\ UNCHANGED <<nodes_, detection_nodes_map_>>

HandleFindNodesRequest(p) ==
    LET n == p.des
        found == (nodes_[n] \cup {n}) \ (p.nodes \cup {p.src})
    IN  /\ p.type = "find"
        /\ nodes_' = IF nat_type[p.src] = "public" /\ CanAddNode(n, p.src)
                     THEN [nodes_ EXCEPT ![n] = @ \cup {p.src}] ELSE nodes_
        /\ Send(network \ {p}, IF found = {} THEN {} ELSE {Packet("found", n, p.src, n, found)})
        /\ UNCHANGED detection_nodes_map_

MustDetectAbnormal(n, m) ==                     \* mutant: all cones are taken for open
    endpoint[m] # endpoint[n] /\ nat_type[m] = "abnormal"

(* Nodes of the own process and public nodes need no detection.            *)
MustDetect(n, m) == endpoint[m] # endpoint[n] /\ nat_type[m] # "public"

SendConnectRequestDirect(n, relay, m) ==        \* mutant: not through the node that knows m
    Packet("connect", n, m, n, {})

SendConnectRequest(n, relay, m) == Packet("relay", n, relay, n, {m})

(* The others are detected, the first of each endpoint, and asked through  *)
(* the node that named them to connect from their side.                    *)
HandleFindNodesResponse(p) ==
    LET n == p.des
        new == {m \in p.nodes : CanAddNode(n, m)}
        detect == {m \in new : MustDetect(n, m) /\ ~BothAbnormal(n, m)}
        map == detection_nodes_map_[n]
    IN  /\ p.type = "found"
        /\ nodes_' = [nodes_ EXCEPT ![n] = @ \cup {m \in new : ~MustDetect(n, m)}]
        /\ \E first \in SUBSET detect :
              /\ \A m \in detect : \E f \in first : endpoint[f] = endpoint[m]
              /\ \A f, g \in first : endpoint[f] = endpoint[g] => f = g
              /\ detection_nodes_map_' = [detection_nodes_map_ EXCEPT ![n] =
                    [e \in DOMAIN map \cup {endpoint[f] : f \in first} |->
                        IF e \in DOMAIN map THEN map[e]
                        ELSE AddDetectionNode(map, CHOOSE f \in first : endpoint[f] = e)[e]]]
        /\ Send(network \ {p}, {SendConnectRequest(n, p.src, m) : m \in detect})

(* HandleConnectRequest at the relay: SendToClosestNode, which is the      *)
(* destination itself if the relay still knows it.  (Forwarding models the *)
(* detours of a message whose destination is not there.)                   *)
RelayConnectRequest(p) ==
    /\ p.type = "relay"
    /\ Send(network \ {p},
            {Packet("connect", p.src, m, p.des, {}) : m \in p.nodes \cap nodes_[p.des]})
    /\ UNCHANGED <<nodes_, detection_nodes_map_>>

HandleConnectRequest(p) ==
    /\ p.type = "connect"
    /\ detection_nodes_map_' = IF BothAbnormal(p.des, p.src) THEN detection_nodes_map_
          ELSE [detection_nodes_map_ EXCEPT ![p.des] = AddDetectionNode(@, p.src)]
    /\ Send(network \ {p}, {})
    /\ UNCHANGED nodes_

HandleHandshakeRequestAlways(p) ==              \* mutant: known nodes are detected again
    /\ p.type = "request"
    /\ detection_nodes_map_' = [detection_nodes_map_ EXCEPT ![p.des] = AddDetectionNode(@, p.src)]
    /\ Send(network \ {p}, {Packet("response", p.des, p.src, p.des, {})})
    /\ UNCHANGED nodes_

HandleHandshakeRequest(p) ==
    /\ p.type = "request"
    /\ detection_nodes_map_' = IF ~CanAddNode(p.des, p.src) THEN detection_nodes_map_
          ELSE [detection_nodes_map_ EXCEPT ![p.des] = AddDetectionNode(@, p.src)]
    /\ Send(network \ {p}, {Packet("response", p.des, p.src, p.des, {})})
    /\ UNCHANGED nodes_

HandleHandshakeResponseAny(p) ==                \* mutant: clients are added as well
    /\ p.type = "response"
    /\ detection_nodes_map_' =
          [detection_nodes_map_ EXCEPT ![p.des] = RemoveDetection(@, endpoint[p.src])]
    /\ nodes_' = [nodes_ EXCEPT ![p.des] = @ \cup {p.src}]
    /\ Send(network \ {p}, {})

(* The answer of a client ends the detection, but is not added.            *)
HandleHandshakeResponse(p) ==
    /\ p.type = "response"
    /\ detection_nodes_map_' =
          [detection_nodes_map_ EXCEPT ![p.des] = RemoveDetection(@, endpoint[p.src])]
    /\ nodes_' = IF p.src \in Client THEN nodes_
                 ELSE [nodes_ EXCEPT ![p.des] = @ \cup {p.src}]
    /\ Send(network \ {p}, {})

Handle(p) ==
    \/ HandleFindNodesRequest(p) \/ HandleFindNodesResponse(p)
    \/ RelayConnectRequest(p) \/ HandleConnectRequest(p)
    \/ HandleHandshakeRequest(p) \/ HandleHandshakeResponse(p)

Receive(p) ==
    /\ p \in network
    /\ Passes(p) /\ Handle(p)
    /\ UNCHANGED faults

(* The NAT of the destination drops the packet.                            *)
Block(p) ==
    /\ p \in network
    /\ ~Passes(p)
    /\ network' = network \ {p}
    /\ UNCHANGED <<nodes_, detection_nodes_map_, opened, faults>>

Lose(p) ==
    /\ p \in network
    /\ faults < MaxFaults /\ faults' = faults + 1
    /\ network' = network \ {p}
    /\ UNCHANGED <<nodes_, detection_nodes_map_, opened>>

(* The bootstrap node stays; a node that loses it as well has to rejoin,   *)
(* see Join.                                                               *)
OnHeartbeatFailed(n) ==
    /\ faults < MaxFaults /\ faults' = faults + 1
    /\ \E e \in Endpoint \ {endpoint[Bootstrap]} :
          LET failed == {m \in nodes_[n] : endpoint[m] = e}
          IN  failed # {} /\ nodes_' = [nodes_ EXCEPT ![n] = @ \ failed]
    /\ UNCHANGED <<detection_nodes_map_, opened, network>>

-----------------------------------------------------------------------------
Next ==
    \/ \E n \in Node : DoTetection(n) \/ FindNeighbours(n) \/ OnHeartbeatFailed(n)
    \/ \E p \in network : Receive(p) \/ Block(p) \/ Lose(p)

Spec == Init /\ [][Next]_vars

(* The timers are periodic and the transport delivers what is neither lost *)
(* nor blocked.  Strong fairness where, within MaxFaults, the search and   *)
(* the detection timer of one node wait for each other's packets: both     *)
(* fire for ever in the code.                                              *)
Fairness ==
    /\ \A n \in Node : WF_vars(\E p \in network : Asker(p) = n /\ (Receive(p) \/ Block(p)))
    /\ \A n \in Node \ Searching : WF_vars(DoTetection(n))
    /\ \A n \in Searching : SF_vars(DoTetection(n)) /\ WF_vars(FindNeighbours(n))

FairSpec == Spec /\ Fairness

-----------------------------------------------------------------------------
(***************************************************************************)
(* Properties.                                                             *)
(***************************************************************************)

(* Tables hold peers only, a detection is filed under the endpoint of its  *)
(* node, and no node is written to more often than kDetectionTimes.        *)
TypeOK ==
    /\ nodes_ \in [Node -> SUBSET Node] /\ \A n \in Node : n \notin nodes_[n]
    /\ DOMAIN detection_nodes_map_ = Node
    /\ \A n \in Node : LET map == detection_nodes_map_[n] IN
          \A e \in DOMAIN map : /\ endpoint[map[e].node] = e /\ map[e].node # n
                                /\ map[e].count \in 0 .. kDetectionTimes
                                /\ map[e].delay \in 0 .. kDelay
    /\ opened \subseteq Endpoint \X Endpoint
    /\ \A p \in network : {p.src, p.des, p.from} \cup p.nodes \subseteq Node
    /\ faults \in 0 .. MaxFaults

Reachable(n) == {m \in Node \ (Client \cup {n}) : ~BothAbnormal(n, m)}

(* The search ends with a complete table: a searching node comes to know   *)
(* every node the bootstrap node knows, whatever the NATs in between, the  *)
(* virtual nodes that share one detection slot, lost packets, and timers   *)
(* that do not wait for slow ones.                                         *)
Converges ==
    <>[](\A n \in Searching : Reachable(n) \cap nodes_[Bootstrap] \subseteq nodes_[n])

(* Two nodes that detect each other stop: a handshake answers a request    *)
(* with a request of its own only while the sender is not in the table, so *)
(* the detection maps of all nodes are empty in the end.                   *)
DetectionsEnd == <>[](\A n \in Node : DOMAIN detection_nodes_map_[n] = {})

(* What is in a table can be written to: a node enters a table only after  *)
(* its NAT was opened for the owner, or it needs no opening.  This is what *)
(* Forwarding relies on, where a message to a node of the table arrives.   *)
EntriesUsable ==
    \A n \in Node : \A m \in nodes_[n] : Passes(Packet("data", n, m, n, {}))

(* A client behind a NAT searches, detects and shakes hands like any other *)
(* node, but gets into no table, unless its join request failed to say     *)
(* that it is one: nobody answers a search with its name.                  *)
Listed == {m \in Node : m \in Marked => nat_type[m] = "public"}

ClientsStayOut == \A n \in Node : nodes_[n] \subseteq Listed
=============================================================================
