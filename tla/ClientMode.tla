------------------------------ MODULE ClientMode ------------------------------
(***************************************************************************)
(* Nodes in client mode: they get a dynamic xip from every node they join  *)
(* through (DynamicXipManager there, LocalNodeInfo here), and their        *)
(* requests travel through a relay that remembers them (ClientNodeManager, *)
(* KadMessageHandler::HandleClientMessage).                                *)
(*                                                                         *)
(* A client handles messages in several threads and drops nodes whose      *)
(* heartbeat failed in another.  LocalNodeInfo keeps two maps under a      *)
(* mutex each, so all go through several critical sections: one action     *)
(* each.  The join requests of a client in Marked say client_msg: only a   *)
(* class that overrides the empty SetSpeClientMessage makes them do so;    *)
(* the others are taken for nodes of the network and get an empty dxip.    *)
(* External: such an override, the dispatcher that calls                   *)
(* HandleClientMessage, and the handler of a request, which sends its      *)
(* answer to src_node_id.                                                  *)
(***************************************************************************)
EXTENDS Naturals, FiniteSets, Functions

CONSTANTS
    Client,
    Marked,             \* clients whose SetSpeClientMessage sets client_msg
    Server,             \* nodes of the network: bootstrap nodes, relays, destinations
    process,            \* process[s]: its virtual nodes share a ClientNodeManager
    kLocal, kSwitch, kRouter, kProcess,    \* number of values of the fields of a xip
    FirstIds,           \* what an uninitialised atom_xip_manager_id_ may hold
    MaxJoins,           \* bound on the join requests of all clients
    MaxDrops,           \* bound on the heartbeat failures
    MaxRequests         \* bound on the requests of all clients

(* The counter has 32 bits, of which the fields show the lower 24.         *)
CounterSize == kLocal * kSwitch * kRouter * kProcess

ASSUME ClientModeAssumption ==
    /\ Client \cap Server = {} /\ Marked \subseteq Client /\ DOMAIN process = Server
    /\ {kLocal, kSwitch, kRouter, kProcess} \subseteq Nat \ {0}
    /\ {MaxJoins, MaxDrops, MaxRequests} \subseteq Nat
    /\ MaxJoins < kLocal * kSwitch * kRouter      \* 2^20 in the code
    /\ FirstIds \subseteq 0 .. CounterSize - 1

VARIABLES
    atom_xip_manager_id_, dy_xip_map_,     \* of each server: DynamicXipManager
    nodes_,                                \* of each client and each server
    node_dxip_map_, dxip_node_map_,        \* of each client: LocalNodeInfo
    adding,                \* of each client: the thread that holds joined_mutex_
    pending,               \* of each client: threads about to call AddNode, per node
    dropping,              \* of each client: the thread in DropNode
    client_nodes_map_,     \* of each process: ClientNodeManager
    network, joins, drops,
    asked, got             \* requests sent, and what came back to the client

server == <<atom_xip_manager_id_, dy_xip_map_>>
local == <<nodes_, node_dxip_map_, dxip_node_map_, adding, pending, dropping>>
relay == <<client_nodes_map_, asked, got>>
vars == <<server, local, relay, network, joins, drops>>

Empty == [x \in {} |-> 0]
Put(map, key, value) == [x \in DOMAIN map \cup {key} |-> IF x = key THEN value ELSE map[x]]
Erase(map, key) == Restrict(map, DOMAIN map \ {key})
Idle == [step |-> "idle"]
NoDxip == [xip |-> "none"]                      \* the dxip field is not set: ""

Init ==
    /\ atom_xip_manager_id_ \in [Server -> FirstIds]
    /\ dy_xip_map_ = [s \in Server |-> Empty]
    /\ nodes_ = [n \in Client \cup Server |-> {}]
    /\ node_dxip_map_ = [c \in Client |-> Empty]
    /\ dxip_node_map_ = [c \in Client |-> Empty]
    /\ adding = [c \in Client |-> Idle]
    /\ pending = [c \in Client |-> [s \in Server |-> 0]]
    /\ dropping = [c \in Client |-> Idle]
    /\ client_nodes_map_ = [q \in Range(process) |-> {}]
    /\ network = {} /\ joins = 0 /\ drops = 0
    /\ asked = {} /\ got = {}

(***************************************************************************)
(* Joining.  Two join requests of one client to one server are distinct    *)
(* packets, and so are their answers.                                      *)
(***************************************************************************)
Bootstrap(c, s) ==
    /\ joins < MaxJoins /\ joins' = joins + 1
    /\ network' = network \cup {[type |-> "join", client |-> c, to |-> s, number |-> joins]}
    /\ UNCHANGED <<server, local, relay, drops>>

(* The process id is cut out with the shift of the router id.              *)
DispatchDynamicXip(s, id) ==
    [xip |-> s,
     process |-> ((id \div (kLocal * kSwitch * kRouter)) % kProcess) * kRouter,
     router |-> (id \div (kLocal * kSwitch)) % kRouter,
     switch |-> (id \div kLocal) % kSwitch,
     local |-> id % kLocal]

JoinResponse(p, dxip) ==
    [type |-> "joined", client |-> p.client, to |-> p.client, src |-> p.to, dxip |-> dxip,
     number |-> p.number]

HandleClientJoinSameId(p) ==                    \* mutant: the counter is not incremented
    LET s == p.to
        dxip == DispatchDynamicXip(s, atom_xip_manager_id_[s])
    IN  /\ p.type = "join" /\ p.client \in Marked
        /\ dy_xip_map_' = [dy_xip_map_ EXCEPT ![s] = Put(@, dxip, p.client)]
        /\ network' = (network \ {p}) \cup {JoinResponse(p, dxip)}
        /\ UNCHANGED <<atom_xip_manager_id_, local, relay>>

(* HandleBootstrapJoinRequest with SendBootstrapJoinResponse: a client     *)
(* gets a dxip, whoever is not marked as one becomes a peer instead.       *)
HandleClientJoin(p) ==
    LET s == p.to
        now_id == (atom_xip_manager_id_[s] + 1) % CounterSize
        dxip == DispatchDynamicXip(s, now_id)
    IN  /\ p.type = "join" /\ p.client \in Marked
        /\ atom_xip_manager_id_' = [atom_xip_manager_id_ EXCEPT ![s] = now_id]
        /\ dy_xip_map_' = [dy_xip_map_ EXCEPT ![s] = Put(@, dxip, p.client)]
        /\ network' = (network \ {p}) \cup {JoinResponse(p, dxip)}
        /\ UNCHANGED <<local, relay>>

HandlePeerJoin(p) ==
    /\ p.type = "join" /\ p.client \notin Marked
    /\ network' = (network \ {p}) \cup {JoinResponse(p, NoDxip)}
    /\ nodes_' = [nodes_ EXCEPT ![p.to] = @ \cup {p.client}]
    /\ UNCHANGED <<server, node_dxip_map_, dxip_node_map_, adding, pending, dropping, relay>>

(* HandleBootstrapJoinResponse: AddDxip in two steps under joined_mutex_,  *)
(* then, the mutex released, AddNode.                                      *)
AddNodeDxip(p) ==
    LET c == p.client IN
    /\ p.type = "joined" /\ adding[c] = Idle
    /\ node_dxip_map_' = [node_dxip_map_ EXCEPT ![c] = Put(@, p.src, p.dxip)]
    /\ adding' = [adding EXCEPT ![c] = [step |-> "dxip", node |-> p.src, dxip |-> p.dxip]]
    /\ network' = network \ {p}
    /\ UNCHANGED <<server, nodes_, dxip_node_map_, pending, dropping, relay>>

AddDxipNode(c) ==
    /\ adding[c].step = "dxip"
    /\ dxip_node_map_' = [dxip_node_map_ EXCEPT ![c] = Put(@, adding[c].dxip, adding[c].node)]
    /\ adding' = [adding EXCEPT ![c] = Idle]
    /\ pending' = [pending EXCEPT ![c][adding[c].node] = @ + 1]
    /\ UNCHANGED <<server, nodes_, node_dxip_map_, dropping, relay, network, joins, drops>>

AddNode(c, s) ==
    /\ pending[c][s] > 0 /\ pending' = [pending EXCEPT ![c][s] = @ - 1]
    /\ nodes_' = [nodes_ EXCEPT ![c] = @ \cup {s}]
    /\ UNCHANGED <<server, node_dxip_map_, dxip_node_map_, adding, dropping, relay, network,
                   joins, drops>>

(***************************************************************************)
(* DropNode, with DropDxip in two steps.                                   *)
(***************************************************************************)
DropNode(c, s) ==
    /\ dropping[c] = Idle /\ s \in nodes_[c]
    /\ drops < MaxDrops /\ drops' = drops + 1
    /\ nodes_' = [nodes_ EXCEPT ![c] = @ \ {s}]
    /\ dropping' = [dropping EXCEPT ![c] = [step |-> "node", node |-> s]]
    /\ UNCHANGED <<server, node_dxip_map_, dxip_node_map_, adding, pending, relay, network,
                   joins>>

DropNodeDxip(c) ==
    LET s == dropping[c].node IN
    /\ dropping[c].step = "node"
    /\ dropping' = [dropping EXCEPT ![c] = IF s \in DOMAIN node_dxip_map_[c]
                       THEN [step |-> "dxip", node |-> s, dxip |-> node_dxip_map_[c][s]] ELSE Idle]
    /\ node_dxip_map_' = [node_dxip_map_ EXCEPT ![c] = Erase(@, s)]
    /\ UNCHANGED <<server, nodes_, dxip_node_map_, adding, pending, relay, network, joins, drops>>

DropDxipNodeAll(c) ==                           \* mutant: whatever the node gave is erased
    /\ dropping[c].step = "dxip"
    /\ dxip_node_map_' = [dxip_node_map_ EXCEPT ![c] =
          Restrict(@, {x \in DOMAIN @ : @[x] # dropping[c].node})]
    /\ dropping' = [dropping EXCEPT ![c] = Idle]
    /\ UNCHANGED <<server, nodes_, node_dxip_map_, adding, pending, relay, network, joins, drops>>

DropDxipNode(c) ==
    /\ dropping[c].step = "dxip"
    /\ dxip_node_map_' = [dxip_node_map_ EXCEPT ![c] = Erase(@, dropping[c].dxip)]
    /\ dropping' = [dropping EXCEPT ![c] = Idle]
    /\ UNCHANGED <<server, nodes_, node_dxip_map_, adding, pending, relay, network, joins, drops>>

(***************************************************************************)
(* Requests.  relay_flag tells whether a relay has seen the message.       *)
(***************************************************************************)
Message(type, client, id, src, des, to, relay_flag) ==
    [type |-> type, client |-> client, id |-> id, src |-> src, des |-> des, to |-> to,
     relay_flag |-> relay_flag]

SendRequest(c, s, des) ==
    LET id == Cardinality(asked) + 1 IN
    /\ id <= MaxRequests /\ s \in nodes_[c]
    /\ asked' = asked \cup {[id |-> id, client |-> c, relay |-> s, des |-> des]}
    /\ network' = network \cup {Message("request", c, id, c, des, s, FALSE)}
    /\ UNCHANGED <<server, local, client_nodes_map_, got, joins, drops>>

Known(p) == p.client \in client_nodes_map_[process[p.to]]

ToClient(p) == [p EXCEPT !.relay_flag = FALSE, !.des = p.client, !.to = p.client]

(* The answer of the destination, which CheckAndSendRelay takes to the     *)
(* client if the destination is its own relay, and SendToClosestNode to    *)
(* the relay if not.                                                       *)
Answer(p) ==
    LET res == Message("answer", p.client, p.id, p.to, p.src, p.src, TRUE)
    IN  IF p.src = p.to THEN ToClient(res) ELSE res

RelayFirstForgets(p) ==                         \* mutant: the client is not remembered
    LET relayed == [p EXCEPT !.relay_flag = TRUE, !.src = p.to]
    IN  /\ p.to \in Server /\ ~p.relay_flag
        /\ network' = (network \ {p}) \cup
              {IF p.des = p.to THEN Answer(relayed) ELSE [relayed EXCEPT !.to = p.des]}
        /\ UNCHANGED <<server, local, relay>>

RelayFirstReplaces(p) ==                        \* mutant: the last client is remembered only
    LET relayed == [p EXCEPT !.relay_flag = TRUE, !.src = p.to]
    IN  /\ p.to \in Server /\ ~p.relay_flag
        /\ client_nodes_map_' = [client_nodes_map_ EXCEPT ![process[p.to]] = {p.client}]
        /\ network' = (network \ {p}) \cup
              {IF p.des = p.to THEN Answer(relayed) ELSE [relayed EXCEPT !.to = p.des]}
        /\ UNCHANGED <<server, local, asked, got>>

(* HandleClientMessage at a node of the network, and what follows it:      *)
(* a first relay remembers the client; a message for another node goes on; *)
(* one for this node goes to the client if the process knows it.           *)
RelayFirst(p) ==
    LET relayed == [p EXCEPT !.relay_flag = TRUE, !.src = p.to]
    IN  /\ p.to \in Server /\ ~p.relay_flag
        /\ client_nodes_map_' = [client_nodes_map_ EXCEPT ![process[p.to]] = @ \cup {p.client}]
        /\ network' = (network \ {p}) \cup
              {IF p.des = p.to THEN Answer(relayed) ELSE [relayed EXCEPT !.to = p.des]}
        /\ UNCHANGED <<server, local, asked, got>>

RelayToClient(p) ==
    /\ p.to \in Server /\ p.relay_flag /\ Known(p)
    /\ network' = (network \ {p}) \cup {ToClient(p)}
    /\ UNCHANGED <<server, local, relay>>

HandleRequest(p) ==
    /\ p.to \in Server /\ p.relay_flag /\ ~Known(p)
    /\ network' = (network \ {p}) \cup (IF p.type = "request" THEN {Answer(p)} ELSE {})
    /\ UNCHANGED <<server, local, relay>>

(* client_id is the own id: the message is handled here.                   *)
ClientReceive(p) ==
    /\ p.to \in Client
    /\ got' = got \cup {[id |-> p.id, type |-> p.type, client |-> p.to]}
    /\ network' = network \ {p}
    /\ UNCHANGED <<server, local, client_nodes_map_, asked>>

Receive(p) ==
    /\ \/ HandleClientJoin(p) \/ HandlePeerJoin(p) \/ AddNodeDxip(p)
       \/ /\ p.type \in {"request", "answer"}
          /\ RelayFirst(p) \/ RelayToClient(p) \/ HandleRequest(p) \/ ClientReceive(p)
    /\ UNCHANGED <<joins, drops>>

-----------------------------------------------------------------------------
ClientStep(c) ==
    \/ AddDxipNode(c) \/ DropNodeDxip(c) \/ DropDxipNode(c)
    \/ \E s \in Server : AddNode(c, s)

Next ==
    \/ \E c \in Client, s \in Server : Bootstrap(c, s) \/ DropNode(c, s)
    \/ \E c \in Client, s, des \in Server : SendRequest(c, s, des)
    \/ \E c \in Client : ClientStep(c)
    \/ \E p \in network : Receive(p)

Spec == Init /\ [][Next]_vars

(* Messages are handled and the threads of a client go on.                 *)
Fairness ==
    /\ WF_vars(\E p \in network : Receive(p))
    /\ WF_vars(\E c \in Client : ClientStep(c))

FairSpec == Spec /\ Fairness

-----------------------------------------------------------------------------
(***************************************************************************)
(* Properties.                                                             *)
(***************************************************************************)

(* A dxip is filed under the server that gave it, in both maps and at that *)
(* server; a process remembers clients only.                               *)
TypeOK ==
    /\ atom_xip_manager_id_ \in [Server -> 0 .. CounterSize - 1]
    /\ \A s \in Server : \A x \in DOMAIN dy_xip_map_[s] : x.xip = s /\ dy_xip_map_[s][x] \in Client
    /\ nodes_ \in [Client \cup Server -> SUBSET (Client \cup Server)]
    /\ pending \in [Client -> [Server -> Nat]]
    /\ \A c \in Client :
          /\ nodes_[c] \subseteq Server
          /\ \A s \in DOMAIN node_dxip_map_[c] :
                s \in Server /\ (c \in Marked => node_dxip_map_[c][s].xip = s)
          /\ \A x \in DOMAIN dxip_node_map_[c] : dxip_node_map_[c][x] \in Server
    /\ client_nodes_map_ \in [Range(process) -> SUBSET Client]
    /\ asked \subseteq [id : 1 .. MaxRequests, client : Client, relay : Server, des : Server]
    /\ joins \in 0 .. MaxJoins /\ drops \in 0 .. MaxDrops

(* AddDxip and DropDxip take two locks one after the other.  However a     *)
(* second join response and the failure of the same node interleave, the   *)
(* dxip that node_dxip_map_ ends up with is one that HasDynamicXip finds.  *)
(* (The empty dxip of a client that is not marked as one is shared by all  *)
(* the nodes it joins through, and is gone with the first it drops.)       *)
NoLostDxip ==
    \A c \in Marked : adding[c] = Idle /\ dropping[c] = Idle =>
        \A s \in DOMAIN node_dxip_map_[c] :
            LET x == node_dxip_map_[c][s]
            IN  x \in DOMAIN dxip_node_map_[c] /\ dxip_node_map_[c][x] = s

(* A dynamic xip is an address: the server that gave it finds the client   *)
(* that holds it, and no two clients hold the same, stale ones included.   *)
DxipReachesClient ==
    \A c \in Marked : \A x \in DOMAIN dxip_node_map_[c] :
        x \in DOMAIN dy_xip_map_[x.xip] /\ dy_xip_map_[x.xip][x] = c

OnTheWay(a) ==
    \E p \in network : p.type \in {"request", "answer"} /\ p.id = a.id /\ p.client = a.client

Answered(a) == [id |-> a.id, type |-> "answer", client |-> a.client] \in got

(* An ambiguity of HandleClientMessage: a destination in a process that    *)
(* has relayed for the client takes the request for an answer and sends it *)
(* back.                                                                   *)
SentBack(a) ==
    /\ [id |-> a.id, type |-> "request", client |-> a.client] \in got
    /\ a.relay # a.des
    /\ \E b \in asked : b.client = a.client /\ process[b.relay] = process[a.des]

(* No request is lost, and nothing comes to a client that did not ask for  *)
(* it: the relay an answer goes back to always knows the client, whichever *)
(* requests of whichever clients its process relays meanwhile.             *)
NoRequestLost ==
    /\ \A a \in asked : OnTheWay(a) \/ Answered(a) \/ SentBack(a)
    /\ \A g \in got : \E a \in asked : a.id = g.id /\ a.client = g.client

(* A request is answered, through the relay and to the client that asked,  *)
(* or sent back.                                                           *)
RequestsSettle == <>[](\A a \in asked : Answered(a) \/ SentBack(a))
=============================================================================
