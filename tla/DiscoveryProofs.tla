-------------------------- MODULE DiscoveryProofs --------------------------
(***************************************************************************)
(* Theorems about Discovery for every set of nodes, endpoints and NATs,    *)
(* and any number of faults.                                               *)
(***************************************************************************)
EXTENDS Discovery, TLAPS

(* What a packet says about the NATs: its sender had let the destination   *)
(* in when it was sent.  A handshake response comes from the node it       *)
(* speaks for.                                                             *)
Addressed(p) ==
    /\ p.src \in Node /\ p.des \in Node /\ p.nodes \subseteq Node
    /\ p.type = "response" => p.from = p.src

PacketInv(p) == Addressed(p) /\ <<endpoint[p.from], endpoint[p.des]>> \in opened

(* Only nodes are detected.                                                *)
IsDetectionMap(map) == \A e \in DOMAIN map : map[e].node \in Node

CanWrite(n, m) == Passes(Packet("data", n, m, n, {}))

UsableInv ==
    /\ nodes_ \in [Node -> SUBSET Node]
    /\ DOMAIN detection_nodes_map_ = Node
    /\ \A n \in Node : IsDetectionMap(detection_nodes_map_[n])
    /\ \A p \in network : PacketInv(p)
    /\ EntriesUsable

(* A NAT that is open stays open: opened only grows.                       *)
LEMMA StaysUsable ==
    ASSUME UsableInv,
           nodes_' \in [Node -> SUBSET Node],
           \A n \in Node : \A m \in nodes_'[n] : m \in nodes_[n] \/ CanWrite(n, m),
           DOMAIN detection_nodes_map_' = Node,
           \A n \in Node : \/ detection_nodes_map_'[n] = detection_nodes_map_[n]
                           \/ IsDetectionMap(detection_nodes_map_'[n]),
           opened \subseteq opened',
           \A p \in network' : p \in network \/ PacketInv(p)'
    PROVE  UsableInv'
<1>1. \A p \in network' : PacketInv(p)'
  BY DEF UsableInv, PacketInv, Addressed
<1>2. \A n, m \in Node : CanWrite(n, m) => CanWrite(n, m)'
  BY DEF CanWrite, Passes, Packet
<1>3. EntriesUsable'
  BY <1>2 DEF UsableInv, EntriesUsable, CanWrite
<1>4. \A n \in Node : IsDetectionMap(detection_nodes_map_'[n])
  BY DEF UsableInv
<1> QED BY <1>1, <1>3, <1>4 DEF UsableInv, IsDetectionMap

(* Packets that Send puts on the way open the NAT of their sender.         *)
LEMMA SendOpens ==
    ASSUME NEW packets, NEW rest, rest \subseteq network, Send(rest, packets),
           \A p \in packets : Addressed(p)
    PROVE  /\ opened \subseteq opened'
           /\ \A p \in network' : p \in network \/ PacketInv(p)'
BY DEF Send, PacketInv, Addressed

(* AddDetectionNode and RemoveDetection keep a detection map.              *)
LEMMA DetectionMaps ==
    ASSUME NEW map, IsDetectionMap(map)
    PROVE  /\ \A m \in Node : IsDetectionMap(AddDetectionNode(map, m))
           /\ \A e : IsDetectionMap(RemoveDetection(map, e))
BY DEF IsDetectionMap, AddDetectionNode, RemoveDetection, Restrict

(* A request for neighbours adds its sender only if that is public.        *)
LEMMA FindRequestKeepsUsable ==
    ASSUME UsableInv, NEW p \in network, HandleFindNodesRequest(p) PROVE UsableInv'
<1> DEFINE found == (nodes_[p.des] \cup {p.des}) \ (p.nodes \cup {p.src})
           packets == IF found = {} THEN {} ELSE {Packet("found", p.des, p.src, p.des, found)}
<1>0. Addressed(p) /\ nodes_ \in [Node -> SUBSET Node]
  BY DEF UsableInv, PacketInv
<1>1. Send(network \ {p}, packets) /\ UNCHANGED detection_nodes_map_
  BY DEF HandleFindNodesRequest
<1>2. \A x \in packets : Addressed(x)
  BY <1>0 DEF Addressed, Packet
<1>3. /\ opened \subseteq opened'
      /\ \A x \in network' : x \in network \/ PacketInv(x)'
  <2> HIDE DEF packets
  <2> QED BY <1>1, <1>2, SendOpens
<1>4. /\ nodes_' \in [Node -> SUBSET Node]
      /\ \A n \in Node : \A m \in nodes_'[n] : m \in nodes_[n] \/ nat_type[m] = "public"
  BY <1>0 DEF HandleFindNodesRequest, Addressed
<1>5. \A n \in Node : \A m \in nodes_'[n] : m \in nodes_[n] \/ CanWrite(n, m)
  BY <1>4 DEF CanWrite, Passes, Packet
<1> HIDE DEF packets
<1> QED BY <1>1, <1>3, <1>4, <1>5, StaysUsable DEF UsableInv

(* Its answer adds what needs no detection.                                *)
LEMMA FindResponseKeepsUsable ==
    ASSUME UsableInv, NEW p \in network, HandleFindNodesResponse(p) PROVE UsableInv'
<1> DEFINE new == {m \in p.nodes : CanAddNode(p.des, m)}
           detect == {m \in new : MustDetect(p.des, m) /\ ~BothAbnormal(p.des, m)}
           packets == {SendConnectRequest(p.des, p.src, m) : m \in detect}
           map == detection_nodes_map_[p.des]
<1>0. Addressed(p) /\ nodes_ \in [Node -> SUBSET Node] /\ new \subseteq Node
  BY DEF UsableInv, PacketInv, Addressed
<1>1. Send(network \ {p}, packets)
  BY DEF HandleFindNodesResponse
<1>2. \A x \in packets : Addressed(x)
  BY <1>0 DEF Addressed, SendConnectRequest, Packet
<1>3. /\ opened \subseteq opened'
      /\ \A x \in network' : x \in network \/ PacketInv(x)'
  <2> HIDE DEF packets
  <2> QED BY <1>1, <1>2, SendOpens
<1>4. nodes_' = [nodes_ EXCEPT ![p.des] = @ \cup {m \in new : ~MustDetect(p.des, m)}]
  BY DEF HandleFindNodesResponse
<1>5. nodes_' \in [Node -> SUBSET Node]
  BY <1>0, <1>4 DEF Addressed
<1>6. \A n \in Node : \A m \in nodes_'[n] : m \in nodes_[n] \/ CanWrite(n, m)
  BY <1>0, <1>4 DEF Addressed, MustDetect, CanWrite, Passes, Packet
<1>7. PICK first \in SUBSET detect :
          detection_nodes_map_' = [detection_nodes_map_ EXCEPT ![p.des] =
              [e \in DOMAIN map \cup {endpoint[f] : f \in first} |->
                  IF e \in DOMAIN map THEN map[e]
                  ELSE AddDetectionNode(map, CHOOSE f \in first : endpoint[f] = e)[e]]]
  BY DEF HandleFindNodesResponse
<1>8. ASSUME NEW e \in {endpoint[f] : f \in first}, e \notin DOMAIN map
      PROVE  AddDetectionNode(map, CHOOSE f \in first : endpoint[f] = e)[e].node \in Node
  <2>1. PICK f : f = CHOOSE g \in first : endpoint[g] = e
    OBVIOUS
  <2>2. f \in first /\ endpoint[f] = e
    BY <1>8, <2>1
  <2>3. AddDetectionNode(map, f)[e].node = f
    BY <1>8, <2>2 DEF AddDetectionNode
  <2> QED BY <1>0, <2>1, <2>2, <2>3
<1>9. /\ DOMAIN detection_nodes_map_' = Node
      /\ \A n \in Node : \/ detection_nodes_map_'[n] = detection_nodes_map_[n]
                         \/ IsDetectionMap(detection_nodes_map_'[n])
  BY <1>0, <1>7, <1>8 DEF UsableInv, IsDetectionMap, Addressed
<1> HIDE DEF packets, new, detect, map
<1> QED BY <1>3, <1>5, <1>6, <1>9, StaysUsable

(* Connect requests and handshake requests change detection maps only.     *)
LEMMA RequestsKeepUsable ==
    ASSUME UsableInv, NEW p \in network,
           RelayConnectRequest(p) \/ HandleConnectRequest(p) \/ HandleHandshakeRequest(p)
    PROVE  UsableInv'
<1>0. /\ Addressed(p) /\ UNCHANGED nodes_ /\ nodes_ \in [Node -> SUBSET Node]
      /\ DOMAIN detection_nodes_map_ = Node
      /\ IsDetectionMap(detection_nodes_map_[p.des])
  BY DEF UsableInv, PacketInv, Addressed, RelayConnectRequest, HandleConnectRequest,
         HandleHandshakeRequest
<1>1. \/ UNCHANGED detection_nodes_map_
      \/ detection_nodes_map_' =
            [detection_nodes_map_ EXCEPT ![p.des] = AddDetectionNode(@, p.src)]
  BY DEF RelayConnectRequest, HandleConnectRequest, HandleHandshakeRequest
<1>2. IsDetectionMap(AddDetectionNode(detection_nodes_map_[p.des], p.src))
  BY <1>0, DetectionMaps DEF Addressed
<1>3. /\ DOMAIN detection_nodes_map_' = Node
      /\ \A n \in Node : \/ detection_nodes_map_'[n] = detection_nodes_map_[n]
                         \/ IsDetectionMap(detection_nodes_map_'[n])
  BY <1>0, <1>1, <1>2
<1>4. PICK packets : Send(network \ {p}, packets) /\ \A x \in packets : Addressed(x)
  <2>1. CASE RelayConnectRequest(p)
    <3> DEFINE packets == {Packet("connect", p.src, m, p.des, {}) : m \in p.nodes \cap nodes_[p.des]}
    <3>1. Send(network \ {p}, packets)
      BY <2>1 DEF RelayConnectRequest
    <3>2. \A x \in packets : Addressed(x)
      BY <1>0 DEF Addressed, Packet
    <3> HIDE DEF packets
    <3> QED BY <3>1, <3>2
  <2>2. CASE HandleConnectRequest(p)
    BY <2>2 DEF HandleConnectRequest
  <2>3. CASE HandleHandshakeRequest(p)
    <3> DEFINE packets == {Packet("response", p.des, p.src, p.des, {})}
    <3>1. Send(network \ {p}, packets)
      BY <2>3 DEF HandleHandshakeRequest
    <3>2. \A x \in packets : Addressed(x)
      BY <1>0 DEF Addressed, Packet
    <3> HIDE DEF packets
    <3> QED BY <3>1, <3>2
  <2> QED BY <2>1, <2>2, <2>3
<1>5. /\ opened \subseteq opened'
      /\ \A x \in network' : x \in network \/ PacketInv(x)'
  BY <1>4, SendOpens
<1> QED BY <1>0, <1>3, <1>5, StaysUsable

(* A handshake response adds its sender, whose NAT it has opened.          *)
LEMMA ResponseKeepsUsable ==
    ASSUME UsableInv, NEW p \in network, HandleHandshakeResponse(p) PROVE UsableInv'
<1>0. /\ PacketInv(p) /\ Addressed(p) /\ nodes_ \in [Node -> SUBSET Node]
      /\ DOMAIN detection_nodes_map_ = Node
      /\ IsDetectionMap(detection_nodes_map_[p.des])
  BY DEF UsableInv, PacketInv, Addressed
<1>1. detection_nodes_map_' =
          [detection_nodes_map_ EXCEPT ![p.des] = RemoveDetection(@, endpoint[p.src])]
  BY DEF HandleHandshakeResponse
<1>2. IsDetectionMap(RemoveDetection(detection_nodes_map_[p.des], endpoint[p.src]))
  BY <1>0, DetectionMaps
<1>3. /\ DOMAIN detection_nodes_map_' = Node
      /\ \A n \in Node : \/ detection_nodes_map_'[n] = detection_nodes_map_[n]
                         \/ IsDetectionMap(detection_nodes_map_'[n])
  BY <1>0, <1>1, <1>2
<1>4. CanWrite(p.des, p.src)
  BY <1>0 DEF HandleHandshakeResponse, PacketInv, Addressed, CanWrite, Passes, Packet
<1>5. /\ nodes_' \in [Node -> SUBSET Node]
      /\ \A n \in Node : \A m \in nodes_'[n] : m \in nodes_[n] \/ CanWrite(n, m)
  BY <1>0, <1>4 DEF HandleHandshakeResponse, Addressed
<1>6. Send(network \ {p}, {})
  BY DEF HandleHandshakeResponse
<1>7. /\ opened \subseteq opened'
      /\ \A x \in network' : x \in network \/ PacketInv(x)'
  BY <1>6, SendOpens
<1> QED BY <1>3, <1>5, <1>7, StaysUsable

(* A pass of the detection timer and a search only send.                   *)
LEMMA TimersKeepUsable ==
    ASSUME UsableInv, NEW n \in Node, DoTetection(n) \/ FindNeighbours(n)
    PROVE  UsableInv'
<1>0. /\ UNCHANGED nodes_ /\ nodes_ \in [Node -> SUBSET Node]
      /\ DOMAIN detection_nodes_map_ = Node /\ IsDetectionMap(detection_nodes_map_[n])
  BY DEF UsableInv, DoTetection, FindNeighbours
<1>1. CASE DoTetection(n)
  <2> DEFINE map == detection_nodes_map_[n]
             waiting == {e \in DOMAIN map : map[e].delay > 0}
             sending == DOMAIN map \ (waiting \cup UsedUp(map))
             packets == {Packet("request", n, map[e].node, n, {}) : e \in sending}
  <2>1. Send(network, packets)
    BY <1>1 DEF DoTetection
  <2>2. \A x \in packets : Addressed(x)
    BY <1>0 DEF Addressed, Packet, IsDetectionMap
  <2>3. /\ opened \subseteq opened'
        /\ \A x \in network' : x \in network \/ PacketInv(x)'
    <3> HIDE DEF packets
    <3> QED BY <2>1, <2>2, SendOpens
  <2>4. detection_nodes_map_' = [detection_nodes_map_ EXCEPT ![n] =
            [e \in DOMAIN map \ UsedUp(map) |->
                IF e \in waiting THEN [map[e] EXCEPT !.delay = @ - 1]
                                 ELSE [map[e] EXCEPT !.count = @ + 1]]]
    BY <1>1 DEF DoTetection
  <2>5. /\ DOMAIN detection_nodes_map_' = Node
        /\ \A k \in Node : \/ detection_nodes_map_'[k] = detection_nodes_map_[k]
                           \/ IsDetectionMap(detection_nodes_map_'[k])
    BY <1>0, <2>4 DEF IsDetectionMap
  <2> HIDE DEF packets
  <2> QED BY <1>0, <2>3, <2>5, StaysUsable
<1>2. CASE FindNeighbours(n)
  <2>1. PICK query_nodes \in QueryNodes(n) :
            Send(network, {Packet("find", n, m, n, nodes_[n]) : m \in query_nodes})
    BY <1>2 DEF FindNeighbours
  <2>2. query_nodes \subseteq Node
    BY <1>0 DEF QueryNodes
  <2>3. \A x \in {Packet("find", n, m, n, nodes_[n]) : m \in query_nodes} : Addressed(x)
    BY <1>0, <2>2 DEF Addressed, Packet
  <2>4. /\ opened \subseteq opened'
        /\ \A x \in network' : x \in network \/ PacketInv(x)'
    BY <2>1, <2>3, SendOpens
  <2>5. UNCHANGED detection_nodes_map_
    BY <1>2 DEF FindNeighbours
  <2> QED BY <1>0, <2>4, <2>5, StaysUsable DEF UsableInv
<1> QED BY <1>1, <1>2

(* Blocked and lost packets and failing heartbeats only take away.         *)
LEMMA FaultsKeepUsable ==
    ASSUME UsableInv,
           \/ \E p \in network : Block(p) \/ Lose(p)
           \/ \E n \in Node : OnHeartbeatFailed(n)
    PROVE  UsableInv'
<1>1. /\ UNCHANGED <<detection_nodes_map_, opened>> /\ network' \subseteq network
      /\ nodes_' \in [Node -> SUBSET Node]
      /\ \A n \in Node : nodes_'[n] \subseteq nodes_[n]
  <2>1. ASSUME NEW p \in network, Block(p) \/ Lose(p)
        PROVE  UNCHANGED <<nodes_, detection_nodes_map_, opened>> /\ network' \subseteq network
    BY <2>1 DEF Block, Lose
  <2>2. ASSUME NEW n \in Node, OnHeartbeatFailed(n)
        PROVE  /\ UNCHANGED <<network, detection_nodes_map_, opened>>
               /\ nodes_' \in [Node -> SUBSET Node]
               /\ \A k \in Node : nodes_'[k] \subseteq nodes_[k]
    BY <2>2 DEF OnHeartbeatFailed, UsableInv
  <2> QED BY <2>1, <2>2 DEF UsableInv
<1> QED BY <1>1, StaysUsable DEF UsableInv

(* Whatever is lost, delayed or overtaken, and whichever heartbeats fail:  *)
(* FindNeighbours, HandleFindNodesResponse and HandleHandshake put only    *)
(* those nodes into a table that can be written to from its owner.         *)
THEOREM EntriesAlwaysUsable == Spec => []EntriesUsable
<1>1. Init => UsableInv
  <2> SUFFICES ASSUME Init PROVE UsableInv
    OBVIOUS
  <2>1. /\ nodes_ \in [Node -> SUBSET Node] /\ network = {}
        /\ DOMAIN detection_nodes_map_ = Node
        /\ \A n \in Node : DOMAIN detection_nodes_map_[n] = {}
    BY DiscoveryAssumption DEF Init
  <2>2. \A n \in Node : \A m \in nodes_[n] : m = Bootstrap \/ (n = Bootstrap /\ m \in Node)
    BY DiscoveryAssumption DEF Init
  <2>3. EntriesUsable
    BY <2>2, DiscoveryAssumption DEF EntriesUsable, Passes, Packet, Init, Endpoint
  <2> QED BY <2>1, <2>3 DEF UsableInv, IsDetectionMap
<1>2. UsableInv /\ [Next]_vars => UsableInv'
  <2> SUFFICES ASSUME UsableInv, [Next]_vars PROVE UsableInv'
    OBVIOUS
  <2>1. CASE UNCHANGED vars
    BY <2>1 DEF vars, UsableInv, EntriesUsable, PacketInv, Addressed, Passes, IsDetectionMap
  <2>2. ASSUME NEW p \in network, Receive(p) PROVE UsableInv'
    BY <2>2, FindRequestKeepsUsable, FindResponseKeepsUsable, RequestsKeepUsable,
       ResponseKeepsUsable DEF Receive, Handle
  <2> QED BY <2>1, <2>2, TimersKeepUsable, FaultsKeepUsable DEF Next
<1>3. UsableInv => EntriesUsable
  BY DEF UsableInv
<1> QED BY <1>1, <1>2, <1>3, PTL DEF Spec

-----------------------------------------------------------------------------
(***************************************************************************)
(* Type correctness.  That no node detects or stores itself rests on the   *)
(* packets: the two ends of an exchange differ from the connect request    *)
(* that is relayed on to the handshake response that ends the detection.   *)
(***************************************************************************)
Detection == [node : Node, count : 0 .. kDetectionTimes, delay : 0 .. kDelay]

DetectionsOf(n, map) ==
    \A e \in DOMAIN map : /\ map[e] \in Detection
                          /\ endpoint[map[e].node] = e /\ map[e].node # n

BetweenTwo(p) ==
    /\ p.src \in Node /\ p.des \in Node /\ p.from \in Node /\ p.nodes \subseteq Node
    /\ p.type \in {"connect", "request", "response"} => p.src # p.des
    /\ p.type = "relay" => p.src \notin p.nodes

TypeInv ==
    /\ nodes_ \in [Node -> SUBSET Node] /\ \A n \in Node : n \notin nodes_[n]
    /\ DOMAIN detection_nodes_map_ = Node
    /\ \A n \in Node : DetectionsOf(n, detection_nodes_map_[n])
    /\ opened \subseteq Endpoint \X Endpoint
    /\ \A p \in network : BetweenTwo(p)
    /\ faults \in 0 .. MaxFaults

(* What a step has to show.                                                *)
LEMMA StaysTyped ==
    ASSUME TypeInv,
           nodes_' \in [Node -> SUBSET Node],
           \A n \in Node : \A m \in nodes_'[n] : m \in nodes_[n] \/ m # n,
           DOMAIN detection_nodes_map_' = Node,
           \A n \in Node : \/ detection_nodes_map_'[n] = detection_nodes_map_[n]
                           \/ DetectionsOf(n, detection_nodes_map_'[n]),
           opened' \subseteq Endpoint \X Endpoint,
           \A p \in network' : p \in network \/ BetweenTwo(p),
           faults' \in 0 .. MaxFaults
    PROVE  TypeInv'
<1>1. \A n \in Node : n \notin nodes_'[n]
  BY DEF TypeInv
<1>2. \A n \in Node : DetectionsOf(n, detection_nodes_map_'[n])
  BY DEF TypeInv
<1>3. \A p \in network' : BetweenTwo(p)
  BY DEF TypeInv
<1> QED BY <1>1, <1>2, <1>3 DEF TypeInv, DetectionsOf, BetweenTwo

(* Send puts packets between nodes on the way and opens their endpoints.   *)
LEMMA SendTyped ==
    ASSUME TypeInv, NEW packets, NEW rest, rest \subseteq network, Send(rest, packets),
           \A p \in packets : BetweenTwo(p)
    PROVE  /\ opened' \subseteq Endpoint \X Endpoint
           /\ \A p \in network' : p \in network \/ BetweenTwo(p)
<1>1. \A p \in packets : <<endpoint[p.from], endpoint[p.des]>> \in Endpoint \X Endpoint
  BY DEF BetweenTwo, Endpoint
<1> QED BY <1>1 DEF Send, TypeInv

(* A new detection is filed under the endpoint of its node.                *)
LEMMA DetectionAdded ==
    ASSUME NEW n \in Node, NEW m \in Node, m # n, NEW map, DetectionsOf(n, map)
    PROVE  DetectionsOf(n, AddDetectionNode(map, m))
<1>1. [node |-> m, count |-> 0,
       delay |-> IF nat_type[m] = "abnormal" THEN kDelay ELSE 0] \in Detection
  BY DiscoveryAssumption DEF Detection
<1>2. CASE endpoint[m] \in DOMAIN map
  BY <1>2 DEF AddDetectionNode
<1>3. CASE endpoint[m] \notin DOMAIN map
  BY <1>1, <1>3 DEF AddDetectionNode, DetectionsOf
<1> QED BY <1>2, <1>3

(* A request for neighbours.                                               *)
LEMMA FindRequestTyped ==
    ASSUME TypeInv, NEW p \in network, HandleFindNodesRequest(p), UNCHANGED faults
    PROVE  TypeInv'
<1> DEFINE found == (nodes_[p.des] \cup {p.des}) \ (p.nodes \cup {p.src})
           packets == IF found = {} THEN {} ELSE {Packet("found", p.des, p.src, p.des, found)}
<1>0. BetweenTwo(p) /\ nodes_ \in [Node -> SUBSET Node] /\ faults' \in 0 .. MaxFaults
  BY DEF TypeInv
<1>1. Send(network \ {p}, packets) /\ UNCHANGED detection_nodes_map_
  BY DEF HandleFindNodesRequest
<1>2. \A x \in packets : BetweenTwo(x)
  BY <1>0 DEF BetweenTwo, Packet
<1>3. /\ opened' \subseteq Endpoint \X Endpoint
      /\ \A x \in network' : x \in network \/ BetweenTwo(x)
  <2> HIDE DEF packets
  <2> QED BY <1>1, <1>2, SendTyped
<1>4. /\ nodes_' \in [Node -> SUBSET Node]
      /\ \A n \in Node : \A m \in nodes_'[n] : m \in nodes_[n] \/ m # n
  BY <1>0 DEF HandleFindNodesRequest, BetweenTwo, CanAddNode
<1> HIDE DEF packets
<1> QED BY <1>0, <1>1, <1>3, <1>4, StaysTyped DEF TypeInv

(* Its answer: what is new is either added or detected.                    *)
LEMMA FindResponseTyped ==
    ASSUME TypeInv, NEW p \in network, HandleFindNodesResponse(p), UNCHANGED faults
    PROVE  TypeInv'
<1> DEFINE new == {m \in p.nodes : CanAddNode(p.des, m)}
           detect == {m \in new : MustDetect(p.des, m) /\ ~BothAbnormal(p.des, m)}
           packets == {SendConnectRequest(p.des, p.src, m) : m \in detect}
           map == detection_nodes_map_[p.des]
<1>0. /\ BetweenTwo(p) /\ nodes_ \in [Node -> SUBSET Node]
      /\ new \subseteq Node /\ p.des \notin new /\ p.des \in Node
      /\ faults' \in 0 .. MaxFaults /\ DetectionsOf(p.des, map)
      /\ DOMAIN detection_nodes_map_ = Node
  BY DEF TypeInv, BetweenTwo, CanAddNode
<1>1. Send(network \ {p}, packets)
  BY DEF HandleFindNodesResponse
<1>2. \A x \in packets : BetweenTwo(x)
  BY <1>0 DEF BetweenTwo, SendConnectRequest, Packet
<1>3. /\ opened' \subseteq Endpoint \X Endpoint
      /\ \A x \in network' : x \in network \/ BetweenTwo(x)
  <2> HIDE DEF packets
  <2> QED BY <1>1, <1>2, SendTyped
<1>4. nodes_' = [nodes_ EXCEPT ![p.des] = @ \cup {m \in new : ~MustDetect(p.des, m)}]
  BY DEF HandleFindNodesResponse
<1>5. /\ nodes_' \in [Node -> SUBSET Node]
      /\ \A n \in Node : \A m \in nodes_'[n] : m \in nodes_[n] \/ m # n
  BY <1>0, <1>4
<1>7. PICK first \in SUBSET detect :
          detection_nodes_map_' = [detection_nodes_map_ EXCEPT ![p.des] =
              [e \in DOMAIN map \cup {endpoint[f] : f \in first} |->
                  IF e \in DOMAIN map THEN map[e]
                  ELSE AddDetectionNode(map, CHOOSE f \in first : endpoint[f] = e)[e]]]
  BY DEF HandleFindNodesResponse
<1>8. ASSUME NEW e \in {endpoint[f] : f \in first}, e \notin DOMAIN map
      PROVE  LET d == AddDetectionNode(map, CHOOSE f \in first : endpoint[f] = e)[e]
             IN  d \in Detection /\ endpoint[d.node] = e /\ d.node # p.des
  <2>1. PICK f : f = CHOOSE g \in first : endpoint[g] = e
    OBVIOUS
  <2>2. f \in first /\ endpoint[f] = e
    BY <1>8, <2>1
  <2>3. f \in Node /\ f # p.des
    BY <1>0, <2>2
  <2>4. DetectionsOf(p.des, AddDetectionNode(map, f))
    <3> HIDE DEF map
    <3> QED BY <1>0, <2>3, DetectionAdded
  <2>5. e \in DOMAIN AddDetectionNode(map, f)
    BY <1>8, <2>2 DEF AddDetectionNode
  <2> QED BY <2>1, <2>4, <2>5 DEF DetectionsOf
<1>9. /\ DOMAIN detection_nodes_map_' = Node
      /\ \A n \in Node : \/ detection_nodes_map_'[n] = detection_nodes_map_[n]
                         \/ DetectionsOf(n, detection_nodes_map_'[n])
  BY <1>0, <1>7, <1>8 DEF DetectionsOf
<1> HIDE DEF packets, new, detect, map
<1> QED BY <1>0, <1>3, <1>5, <1>9, StaysTyped

(* Connect requests and handshake requests.                                *)
LEMMA RequestsTyped ==
    ASSUME TypeInv, NEW p \in network, UNCHANGED faults,
           RelayConnectRequest(p) \/ HandleConnectRequest(p) \/ HandleHandshakeRequest(p)
    PROVE  TypeInv'
<1>0. /\ BetweenTwo(p) /\ UNCHANGED nodes_ /\ nodes_ \in [Node -> SUBSET Node]
      /\ DOMAIN detection_nodes_map_ = Node /\ faults' \in 0 .. MaxFaults
      /\ DetectionsOf(p.des, detection_nodes_map_[p.des])
  BY DEF TypeInv, BetweenTwo, RelayConnectRequest, HandleConnectRequest,
         HandleHandshakeRequest
<1>1. \/ UNCHANGED detection_nodes_map_
      \/ /\ detection_nodes_map_' =
              [detection_nodes_map_ EXCEPT ![p.des] = AddDetectionNode(@, p.src)]
         /\ p.src # p.des
  BY <1>0 DEF RelayConnectRequest, HandleConnectRequest, HandleHandshakeRequest, BetweenTwo
<1>2. p.src # p.des =>
          DetectionsOf(p.des, AddDetectionNode(detection_nodes_map_[p.des], p.src))
  BY <1>0, DetectionAdded DEF BetweenTwo
<1>3. /\ DOMAIN detection_nodes_map_' = Node
      /\ \A n \in Node : \/ detection_nodes_map_'[n] = detection_nodes_map_[n]
                         \/ DetectionsOf(n, detection_nodes_map_'[n])
  BY <1>0, <1>1, <1>2
<1>4. PICK packets : Send(network \ {p}, packets) /\ \A x \in packets : BetweenTwo(x)
  <2>1. CASE RelayConnectRequest(p)
    <3> DEFINE packets == {Packet("connect", p.src, m, p.des, {}) : m \in p.nodes \cap nodes_[p.des]}
    <3>1. Send(network \ {p}, packets) /\ p.src \notin p.nodes
      BY <1>0, <2>1 DEF RelayConnectRequest, BetweenTwo
    <3>2. \A x \in packets : BetweenTwo(x)
      BY <1>0, <3>1 DEF BetweenTwo, Packet
    <3> HIDE DEF packets
    <3> QED BY <3>1, <3>2
  <2>2. CASE HandleConnectRequest(p)
    BY <2>2 DEF HandleConnectRequest
  <2>3. CASE HandleHandshakeRequest(p)
    <3> DEFINE packets == {Packet("response", p.des, p.src, p.des, {})}
    <3>1. Send(network \ {p}, packets) /\ p.src # p.des
      BY <1>0, <2>3 DEF HandleHandshakeRequest, BetweenTwo
    <3>2. \A x \in packets : BetweenTwo(x)
      BY <1>0, <3>1 DEF BetweenTwo, Packet
    <3> HIDE DEF packets
    <3> QED BY <3>1, <3>2
  <2> QED BY <2>1, <2>2, <2>3
<1>5. /\ opened' \subseteq Endpoint \X Endpoint
      /\ \A x \in network' : x \in network \/ BetweenTwo(x)
  BY <1>4, SendTyped
<1> QED BY <1>0, <1>3, <1>5, StaysTyped

(* A handshake response comes from another node.                           *)
LEMMA ResponseTyped ==
    ASSUME TypeInv, NEW p \in network, HandleHandshakeResponse(p), UNCHANGED faults
    PROVE  TypeInv'
<1>0. /\ BetweenTwo(p) /\ nodes_ \in [Node -> SUBSET Node]
      /\ DOMAIN detection_nodes_map_ = Node /\ faults' \in 0 .. MaxFaults
      /\ DetectionsOf(p.des, detection_nodes_map_[p.des])
      /\ p.src # p.des /\ p.des \in Node /\ p.src \in Node
  BY DEF TypeInv, BetweenTwo, HandleHandshakeResponse
<1>1. detection_nodes_map_' =
          [detection_nodes_map_ EXCEPT ![p.des] = RemoveDetection(@, endpoint[p.src])]
  BY DEF HandleHandshakeResponse
<1>2. DetectionsOf(p.des, RemoveDetection(detection_nodes_map_[p.des], endpoint[p.src]))
  BY <1>0 DEF DetectionsOf, RemoveDetection, Restrict
<1>3. /\ DOMAIN detection_nodes_map_' = Node
      /\ \A n \in Node : \/ detection_nodes_map_'[n] = detection_nodes_map_[n]
                         \/ DetectionsOf(n, detection_nodes_map_'[n])
  BY <1>0, <1>1, <1>2
<1>4. /\ nodes_' \in [Node -> SUBSET Node]
      /\ \A n \in Node : \A m \in nodes_'[n] : m \in nodes_[n] \/ m # n
  BY <1>0 DEF HandleHandshakeResponse
<1>5. Send(network \ {p}, {})
  BY DEF HandleHandshakeResponse
<1>6. /\ opened' \subseteq Endpoint \X Endpoint
      /\ \A x \in network' : x \in network \/ BetweenTwo(x)
  BY <1>5, SendTyped
<1> QED BY <1>0, <1>3, <1>4, <1>6, StaysTyped

(* A timer that overtakes its packets stays within the bound.              *)
LEMMA PassTyped ==
    ASSUME TypeInv, NEW n \in Node, TimerPass(n) PROVE faults' \in 0 .. MaxFaults
<1>1. faults \in 0 .. MaxFaults /\ MaxFaults \in Nat
  BY DiscoveryAssumption DEF TypeInv
<1> QED BY <1>1 DEF TimerPass

(* A pass of the detection timer counts each entry on by one and never     *)
(* beyond its bound: used up entries are gone before.                      *)
LEMMA DetectionTyped ==
    ASSUME TypeInv, NEW n \in Node, DoTetection(n) PROVE TypeInv'
<1> DEFINE map == detection_nodes_map_[n]
           waiting == {e \in DOMAIN map : map[e].delay > 0}
           sending == DOMAIN map \ (waiting \cup UsedUp(map))
           packets == {Packet("request", n, map[e].node, n, {}) : e \in sending}
           passed == [e \in DOMAIN map \ UsedUp(map) |->
                        IF e \in waiting THEN [map[e] EXCEPT !.delay = @ - 1]
                                         ELSE [map[e] EXCEPT !.count = @ + 1]]
<1>0. /\ UNCHANGED nodes_ /\ nodes_ \in [Node -> SUBSET Node]
      /\ DOMAIN detection_nodes_map_ = Node /\ DetectionsOf(n, map)
      /\ faults' \in 0 .. MaxFaults
  <2>1. TimerPass(n) /\ UNCHANGED nodes_
    BY DEF DoTetection
  <2> QED BY <2>1, PassTyped DEF TypeInv
<1>1. Send(network, packets)
  BY DEF DoTetection
<1>2. \A x \in packets : BetweenTwo(x)
  BY <1>0 DEF BetweenTwo, Packet, DetectionsOf, Detection
<1>3. /\ opened' \subseteq Endpoint \X Endpoint
      /\ \A x \in network' : x \in network \/ BetweenTwo(x)
  <2> HIDE DEF packets
  <2> QED BY <1>1, <1>2, SendTyped
<1>4. detection_nodes_map_' = [detection_nodes_map_ EXCEPT ![n] = passed]
  BY DEF DoTetection
<1>5. DetectionsOf(n, passed)
  <2> SUFFICES ASSUME NEW e \in DOMAIN map \ UsedUp(map)
               PROVE  /\ passed[e] \in Detection
                      /\ endpoint[passed[e].node] = e /\ passed[e].node # n
    BY DEF DetectionsOf
  <2>1. /\ map[e] \in Detection /\ endpoint[map[e].node] = e /\ map[e].node # n
        /\ map[e].count \in 0 .. kDetectionTimes /\ map[e].delay \in 0 .. kDelay
        /\ kDetectionTimes \in Nat /\ kDelay \in Nat
    BY <1>0, DiscoveryAssumption DEF DetectionsOf, Detection
  <2>2. CASE e \in waiting
    <3>1. map[e].delay - 1 \in 0 .. kDelay
      BY <2>1, <2>2
    <3>2. passed[e] = [map[e] EXCEPT !.delay = map[e].delay - 1]
      BY <2>2
    <3> QED BY <2>1, <3>1, <3>2 DEF Detection
  <2>3. CASE e \notin waiting
    <3>1. map[e].delay = 0 /\ map[e].count < kDetectionTimes
      BY <2>1, <2>3 DEF UsedUp
    <3>2. map[e].count + 1 \in 0 .. kDetectionTimes
      BY <2>1, <3>1
    <3>3. passed[e] = [map[e] EXCEPT !.count = map[e].count + 1]
      BY <2>3
    <3> QED BY <2>1, <3>2, <3>3 DEF Detection
  <2> QED BY <2>2, <2>3
<1>6. /\ DOMAIN detection_nodes_map_' = Node
      /\ \A k \in Node : \/ detection_nodes_map_'[k] = detection_nodes_map_[k]
                         \/ DetectionsOf(k, detection_nodes_map_'[k])
  <2> HIDE DEF passed
  <2> QED BY <1>0, <1>4, <1>5
<1> HIDE DEF packets, passed, map
<1> QED BY <1>0, <1>3, <1>6, StaysTyped

(* A search only sends; blocked and lost packets and failing heartbeats    *)
(* only take away.                                                         *)
LEMMA OthersTyped ==
    ASSUME TypeInv,
           \/ \E n \in Node : FindNeighbours(n) \/ OnHeartbeatFailed(n)
           \/ \E p \in network : Block(p) \/ Lose(p)
    PROVE  TypeInv'
<1>0. nodes_ \in [Node -> SUBSET Node] /\ faults \in 0 .. MaxFaults /\ MaxFaults \in Nat
  BY DiscoveryAssumption DEF TypeInv
<1>1. ASSUME NEW n \in Node, FindNeighbours(n) PROVE TypeInv'
  <2>1. PICK query_nodes \in QueryNodes(n) :
            Send(network, {Packet("find", n, m, n, nodes_[n]) : m \in query_nodes})
    BY <1>1 DEF FindNeighbours
  <2>2. query_nodes \subseteq Node
    BY <1>0 DEF QueryNodes
  <2>3. \A x \in {Packet("find", n, m, n, nodes_[n]) : m \in query_nodes} : BetweenTwo(x)
    BY <1>0, <2>2 DEF BetweenTwo, Packet
  <2>4. /\ opened' \subseteq Endpoint \X Endpoint
        /\ \A x \in network' : x \in network \/ BetweenTwo(x)
    BY <2>1, <2>3, SendTyped
  <2>5. /\ UNCHANGED <<nodes_, detection_nodes_map_>>
        /\ faults' \in 0 .. MaxFaults
    BY <1>1, PassTyped DEF FindNeighbours
  <2> QED BY <1>0, <2>4, <2>5, StaysTyped DEF TypeInv
<1>2. ASSUME NEW n \in Node, OnHeartbeatFailed(n) PROVE TypeInv'
  <2>1. /\ UNCHANGED <<network, detection_nodes_map_, opened>>
        /\ nodes_' \in [Node -> SUBSET Node]
        /\ \A k \in Node : nodes_'[k] \subseteq nodes_[k]
    BY <1>0, <1>2 DEF OnHeartbeatFailed
  <2>2. faults' \in 0 .. MaxFaults
    BY <1>0, <1>2 DEF OnHeartbeatFailed
  <2> QED BY <2>1, <2>2, StaysTyped DEF TypeInv
<1>3. ASSUME NEW p \in network, Block(p) \/ Lose(p) PROVE TypeInv'
  <2>1. UNCHANGED <<nodes_, detection_nodes_map_, opened>> /\ network' \subseteq network
    BY <1>3 DEF Block, Lose
  <2>2. faults' \in 0 .. MaxFaults
    BY <1>0, <1>3 DEF Block, Lose
  <2> QED BY <1>0, <2>1, <2>2, StaysTyped DEF TypeInv
<1> QED BY <1>1, <1>2, <1>3

(* Nothing is under way or detected at first.                              *)
LEMMA TypeInvInit == Init => TypeInv
<1> SUFFICES ASSUME Init PROVE TypeInv
  OBVIOUS
<1>1. /\ nodes_ \in [Node -> SUBSET Node] /\ \A n \in Node : n \notin nodes_[n]
      /\ DOMAIN detection_nodes_map_ = Node
      /\ \A n \in Node : DOMAIN detection_nodes_map_[n] = {}
  BY DiscoveryAssumption DEF Init
<1>2. opened \subseteq Endpoint \X Endpoint
  BY DiscoveryAssumption DEF Init, Endpoint
<1>3. network = {} /\ faults \in 0 .. MaxFaults
  BY DiscoveryAssumption DEF Init
<1> QED BY <1>1, <1>2, <1>3 DEF TypeInv, DetectionsOf

(* Every handler, timer and fault keeps tables, detections and packets.    *)
LEMMA TypeInvStep == TypeInv /\ [Next]_vars => TypeInv'
<1> SUFFICES ASSUME TypeInv, [Next]_vars PROVE TypeInv'
  OBVIOUS
<1>1. CASE UNCHANGED vars
  BY <1>1 DEF vars, TypeInv, DetectionsOf, BetweenTwo
<1>2. ASSUME NEW p \in network, Receive(p) PROVE TypeInv'
  BY <1>2, FindRequestTyped, FindResponseTyped, RequestsTyped, ResponseTyped
     DEF Receive, Handle
<1> QED BY <1>1, <1>2, DetectionTyped, OthersTyped DEF Next

(* Tables, detections and packets are well typed whatever is lost or       *)
(* overtaken: AddDetectionNode never files a node under a foreign endpoint *)
(* or under its own table, HandleHandshake never adds a node to itself,    *)
(* and DoTetection never counts past kDetectionTimes.                      *)
THEOREM TypeCorrect == Spec => []TypeOK
<1>1. TypeInv => TypeOK
  <2> SUFFICES ASSUME TypeInv PROVE TypeOK
    OBVIOUS
  <2>1. \A n \in Node : \A e \in DOMAIN detection_nodes_map_[n] :
            /\ endpoint[detection_nodes_map_[n][e].node] = e
            /\ detection_nodes_map_[n][e].node # n
            /\ detection_nodes_map_[n][e].count \in 0 .. kDetectionTimes
            /\ detection_nodes_map_[n][e].delay \in 0 .. kDelay
    BY DEF TypeInv, DetectionsOf, Detection
  <2> QED BY <2>1 DEF TypeInv, TypeOK, BetweenTwo
<1> QED BY <1>1, TypeInvInit, TypeInvStep, PTL DEF Spec

-----------------------------------------------------------------------------
(***************************************************************************)
(* ClientsStayOut.  A search is sent to nodes of a table only, and answers *)
(* name nodes of a table and the one that was asked.                       *)
(***************************************************************************)
NamesListed(p) ==
    /\ p.type = "find" => p.des \in Listed
    /\ p.type = "found" => p.nodes \subseteq Listed

ListedInv ==
    /\ TypeInv /\ ClientsStayOut
    /\ \A p \in network : NamesListed(p)

(* Packets that Send puts on the way name what its caller names.           *)
LEMMA StaysListed ==
    ASSUME ListedInv, TypeInv', \A n \in Node : nodes_'[n] \subseteq Listed,
           \A p \in network' : p \in network \/ NamesListed(p)
    PROVE  ListedInv'
BY DEF ListedInv, ClientsStayOut, NamesListed, Listed

(* The two halves of a search: a public sender is added, an answer names   *)
(* nodes of the table, and what it names is added.                         *)
LEMMA SearchKeepsOut ==
    ASSUME ListedInv, TypeInv', NEW p \in network,
           HandleFindNodesRequest(p) \/ HandleFindNodesResponse(p)
    PROVE  ListedInv'
<1>0. /\ nodes_ \in [Node -> SUBSET Node] /\ \A n \in Node : nodes_[n] \subseteq Listed
      /\ p.src \in Node /\ p.des \in Node /\ NamesListed(p)
  BY DEF ListedInv, TypeInv, ClientsStayOut, BetweenTwo
<1>1. CASE HandleFindNodesRequest(p)
  <2>1. \A n \in Node : nodes_'[n] \subseteq Listed
    BY <1>0, <1>1 DEF HandleFindNodesRequest, Listed
  <2>2. PICK found : /\ found = (nodes_[p.des] \cup {p.des}) \ (p.nodes \cup {p.src})
                     /\ Send(network \ {p}, IF found = {} THEN {}
                                            ELSE {Packet("found", p.des, p.src, p.des, found)})
    BY <1>1 DEF HandleFindNodesRequest
  <2>3. found \subseteq Listed
    BY <1>0, <1>1, <2>2 DEF HandleFindNodesRequest, NamesListed
  <2>4. NamesListed(Packet("found", p.des, p.src, p.des, found))
    BY <2>3 DEF NamesListed, Packet
  <2>5. \A x \in network' : x \in network \/ NamesListed(x)
    BY <2>2, <2>4 DEF Send
  <2> QED BY <2>1, <2>5, StaysListed
<1>2. CASE HandleFindNodesResponse(p)
  <2>1. p.nodes \subseteq Listed
    BY <1>0, <1>2 DEF HandleFindNodesResponse, NamesListed
  <2>2. \A n \in Node : nodes_'[n] \subseteq Listed
    BY <1>0, <1>2, <2>1 DEF HandleFindNodesResponse
  <2>3. \A x \in network' : x \in network \/ NamesListed(x)
    BY <1>2 DEF HandleFindNodesResponse, Send, SendConnectRequest, Packet, NamesListed
  <2> QED BY <2>2, <2>3, StaysListed
<1> QED BY <1>1, <1>2

(* Connect requests and handshakes: only the answer of a node that is no   *)
(* client adds it.                                                         *)
LEMMA HandshakeKeepsOut ==
    ASSUME ListedInv, TypeInv', NEW p \in network,
           \/ RelayConnectRequest(p) \/ HandleConnectRequest(p)
           \/ HandleHandshakeRequest(p) \/ HandleHandshakeResponse(p)
    PROVE  ListedInv'
<1>0. /\ nodes_ \in [Node -> SUBSET Node] /\ \A n \in Node : nodes_[n] \subseteq Listed
      /\ p.src \in Node /\ p.des \in Node
  BY DEF ListedInv, TypeInv, ClientsStayOut, BetweenTwo
<1>1. \A n \in Node : nodes_'[n] \subseteq Listed
  BY <1>0, DiscoveryAssumption
     DEF RelayConnectRequest, HandleConnectRequest, HandleHandshakeRequest,
         HandleHandshakeResponse, Listed
<1>2. \A x \in network' : x \in network \/ NamesListed(x)
  BY DEF RelayConnectRequest, HandleConnectRequest, HandleHandshakeRequest,
         HandleHandshakeResponse, Send, Packet, NamesListed
<1> QED BY <1>1, <1>2, StaysListed

(* The timers, faults and failing heartbeats: a search goes to the table.  *)
LEMMA OthersKeepOut ==
    ASSUME ListedInv, TypeInv',
           \/ \E n \in Node : DoTetection(n) \/ FindNeighbours(n) \/ OnHeartbeatFailed(n)
           \/ \E p \in network : Block(p) \/ Lose(p)
    PROVE  ListedInv'
<1>0. nodes_ \in [Node -> SUBSET Node] /\ \A n \in Node : nodes_[n] \subseteq Listed
  BY DEF ListedInv, TypeInv, ClientsStayOut
<1>1. ASSUME NEW n \in Node, DoTetection(n) PROVE ListedInv'
  <2>1. UNCHANGED nodes_ /\ \A x \in network' : x \in network \/ NamesListed(x)
    BY <1>1 DEF DoTetection, Send, Packet, NamesListed
  <2> QED BY <1>0, <2>1, StaysListed
<1>2. ASSUME NEW n \in Node, FindNeighbours(n) PROVE ListedInv'
  <2>1. PICK query_nodes \in QueryNodes(n) :
            Send(network, {Packet("find", n, m, n, nodes_[n]) : m \in query_nodes})
    BY <1>2 DEF FindNeighbours
  <2>2. query_nodes \subseteq Listed
    BY <1>0, <1>2 DEF QueryNodes
  <2>3. \A x \in network' : x \in network \/ NamesListed(x)
    BY <2>1, <2>2 DEF Send, Packet, NamesListed
  <2>4. UNCHANGED nodes_
    BY <1>2 DEF FindNeighbours
  <2> QED BY <1>0, <2>3, <2>4, StaysListed
<1>3. ASSUME NEW n \in Node, OnHeartbeatFailed(n) PROVE ListedInv'
  <2>1. UNCHANGED network /\ \A k \in Node : nodes_'[k] \subseteq nodes_[k]
    BY <1>0, <1>3 DEF OnHeartbeatFailed
  <2> QED BY <1>0, <2>1, StaysListed
<1>4. ASSUME NEW p \in network, Block(p) \/ Lose(p) PROVE ListedInv'
  <2>1. UNCHANGED nodes_ /\ network' \subseteq network
    BY <1>4 DEF Block, Lose
  <2> QED BY <1>0, <2>1, StaysListed
<1> QED BY <1>1, <1>2, <1>3, <1>4

(* Whatever searches, handshakes and connect requests of whichever nodes   *)
(* interleave, a client that is not public never enters a table.           *)
THEOREM ClientsAreNotListed == Spec => []ClientsStayOut
<1>1. Init => ListedInv
  <2> SUFFICES ASSUME Init PROVE ListedInv
    OBVIOUS
  <2>1. TypeInv
    BY TypeInvInit
  <2>2. network = {} /\ \A n \in Node : nodes_[n] \subseteq Listed
    BY DiscoveryAssumption DEF Init, Listed
  <2> QED BY <2>1, <2>2 DEF ListedInv, ClientsStayOut
<1>2. ListedInv /\ [Next]_vars => ListedInv'
  <2> SUFFICES ASSUME ListedInv, [Next]_vars PROVE ListedInv'
    OBVIOUS
  <2>0. TypeInv'
    BY TypeInvStep DEF ListedInv
  <2>1. CASE UNCHANGED vars
    BY <2>0, <2>1, StaysListed DEF vars, ListedInv, ClientsStayOut
  <2>2. ASSUME NEW p \in network, Receive(p) PROVE ListedInv'
    BY <2>0, <2>2, SearchKeepsOut, HandshakeKeepsOut DEF Receive, Handle
  <2> QED BY <2>0, <2>1, <2>2, OthersKeepOut DEF Next
<1>3. ListedInv => ClientsStayOut
  BY DEF ListedInv
<1> QED BY <1>1, <1>2, <1>3, PTL DEF Spec
============================================================================
