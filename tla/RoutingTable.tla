---------------------------- MODULE RoutingTable ----------------------------
(***************************************************************************)
(* The node store of RoutingTable (src/routing_table.cc) under the threads *)
(* that use it: message handlers that call CanAddNode and AddNode, the     *)
(* heartbeat thread that calls OnHeartbeatFailed, and the timer that asks  *)
(* GetClosestAlphaNodes whom to query.                                     *)
(*                                                                         *)
(* The store keeps the same nodes three times, each under a mutex of its   *)
(* own (nodes_, node_id_map_, node_hash_map_), and a fourth time in        *)
(* no_lock_for_use_nodes_, which has none.  One action is one critical     *)
(* section; between two of them any other thread may run.                  *)
(*                                                                         *)
(* A NodeInfoPtr is an object: two objects may describe the same peer      *)
(* (equal node_id), which is what happens when two handlers hear of it.    *)
(* nodes_ is a set of objects: its order is only ever read after a sort in *)
(* the same critical section, so the vector's order is left out and a      *)
(* sort's choice among objects of equal id is a choice of the model.       *)
(* The local node is a full node: AddDxip is only called in client mode,   *)
(* so DropNode's DropDxip finds nothing, and security_join_ptr_ is null.   *)
(* HandleNodeQuit, a third caller of DropNode, is registered for no        *)
(* message (KadMessageHandler::AddBaseHandlers) and is left out.           *)
(*                                                                         *)
(* Nothing keeps two threads off the same peer.  raced is a history        *)
(* variable, no state of the code: the peers for which AddNode or DropNode *)
(* changed nodes_ while another call for the same peer had still to bring  *)
(* the maps into line.  The properties say how far such overlaps reach.    *)
(***************************************************************************)
EXTENDS KadId, Functions

CONSTANTS
    Thread,             \* handler, heartbeat and timer threads
    NodeInfoPtr,        \* NodeInfo objects
    NullPtr,            \* the null NodeInfoPtr
    SelfPtr,            \* the NodeInfo that Init stores for the local node
    node_id,            \* node_id[o], fields of the NodeInfo objects
    hash64,
    endpoint,           \* public_ip and public_port
    acceptable,         \* nat_type is known and ValidNode accepts the object
    local_id,           \* local_node_ptr_->id()
    local_hash64,       \* local_node_ptr_->hash64()
    kKadParamK,
    kKadParamAlpha,
    kKadParamAlphaRandom

ASSUME RoutingTableAssumption ==
    /\ IsFiniteSet(NodeInfoPtr)
    /\ NullPtr \notin NodeInfoPtr /\ SelfPtr \notin NodeInfoPtr
    /\ node_id \in [NodeInfoPtr -> NodeId]
    /\ hash64 \in [NodeInfoPtr -> Nat] /\ local_hash64 \in Nat
    /\ DOMAIN endpoint = NodeInfoPtr
    /\ acceptable \in [NodeInfoPtr -> BOOLEAN]
    /\ local_id \in NodeId
    /\ kKadParamK \in Nat \ {0}
    /\ kKadParamAlpha \in Nat /\ kKadParamAlphaRandom \in Nat

VARIABLES
    nodes_,                  \* std::vector<NodeInfoPtr>
    node_id_map_,            \* std::map from node_id to NodeInfoPtr
    node_hash_map_,          \* std::map from hash64 to NodeInfoPtr
    no_lock_for_use_nodes_,  \* a copy of nodes_: "null", "current" or "stale"
    nodes_mutex_,            \* {t} while t stays in the loop that holds it
    pc,                      \* where each thread is
    node,                    \* the NodeInfo argument of its AddNode or DropNode
    heartbeat_mutex_,        \* {t} while t runs HeartbeatManager's callbacks
    failed_nodes,            \* OnHeartbeatFailed: still to be dropped
    copy,                    \* the temporary that nodes() returned, likewise
    query_nodes,             \* GetClosestAlphaNodes: ids chosen so far
    rest,                    \* GetClosestAlphaNodes: nodes_ past the first alpha
    raced                    \* history: peers for which two calls overlapped

store == <<nodes_, node_id_map_, node_hash_map_, no_lock_for_use_nodes_>>
alpha == <<nodes_mutex_, query_nodes, rest>>
heartbeat == <<heartbeat_mutex_, failed_nodes>>
vars == <<store, alpha, heartbeat, pc, node, copy, raced>>

(* std::map::insert keeps an existing entry; erase of a missing key does   *)
(* nothing.                                                                *)
MapInsert(m, k, v) ==
    IF k \in DOMAIN m THEN m
    ELSE [x \in DOMAIN m \cup {k} |-> IF x = k THEN v ELSE m[x]]

MapErase(m, k) == Restrict(m, DOMAIN m \ {k})

Ids(objs) == {node_id[o] : o \in objs}
bucket_index(o) == SetNodeBucket(local_id, node_id[o])
InBucket(objs, b) == {o \in objs : bucket_index(o) = b}

HasNode(o) == node_id[o] \in DOMAIN node_id_map_

NewNodeReplaceOldNodeOffByOne(o) ==             \* mutant: <= instead of <
    Cardinality(InBucket(nodes_, bucket_index(o))) <= kKadParamK

(* NewNodeReplaceOldNode: room in the k-bucket of the node.                *)
NewNodeReplaceOldNode(o) ==
    Cardinality(InBucket(nodes_, bucket_index(o))) < kKadParamK

Init ==
    /\ nodes_ = {}
    /\ node_id_map_ = [x \in {} |-> NullPtr]
    /\ node_hash_map_ = [x \in {local_hash64} |-> SelfPtr]
    /\ no_lock_for_use_nodes_ = "null"
    /\ nodes_mutex_ = {}
    /\ pc = [t \in Thread |-> "idle"]
    /\ node = [t \in Thread |-> NullPtr]
    /\ heartbeat_mutex_ = {}
    /\ failed_nodes = [t \in Thread |-> {}]
    /\ copy = [t \in Thread |-> "null"]
    /\ query_nodes = [t \in Thread |-> {}]
    /\ rest = [t \in Thread |-> {}]
    /\ raced = {}

Goto(t, label) == pc' = [pc EXCEPT ![t] = label]

Return(t) == Goto(t, "idle") /\ node' = [node EXCEPT ![t] = NullPtr]

(* Lock nodes_mutex_ for a critical section of a single step.              *)
LockNodes == nodes_mutex_ = {}

(***************************************************************************)
(* AddNode and CanAddNode.  A handler creates the NodeInfo: the object is  *)
(* one that nothing refers to any more.  Both calls start with the checks  *)
(* of Addable, where HasNode locks node_id_map_mutex_; a call that they    *)
(* end changes nothing.                                                    *)
(***************************************************************************)
Referenced ==
    nodes_ \cup Range(node_id_map_) \cup Range(node_hash_map_) \cup Range(node)
    \cup UNION Range(failed_nodes) \cup UNION Range(rest)

Addable(o) == acceptable[o] /\ node_id[o] # local_id /\ ~HasNode(o)

NewNodeInfo(t, o, label) ==
    /\ pc[t] = "idle"
    /\ o \notin Referenced
    /\ Addable(o)
    /\ node' = [node EXCEPT ![t] = o]
    /\ Goto(t, label)
    /\ UNCHANGED <<store, alpha, heartbeat, copy, raced>>

(* HandleFindNodesRequest and HandleFindNodesResponse ask first.           *)
BeginCanAddNode(t) == \E o \in NodeInfoPtr : NewNodeInfo(t, o, "can_bucket")

(* HandleHandshake, HandleBootstrapJoinRequest and -Response do not.       *)
BeginAddNode(t) == \E o \in NodeInfoPtr : NewNodeInfo(t, o, "add_push")

NodeRefused(t) ==
    pc[t] = "idle" /\ (\E o \in NodeInfoPtr : ~Addable(o)) /\ UNCHANGED vars

CanAddNodeBucket(t) ==
    /\ pc[t] = "can_bucket" /\ LockNodes
    /\ IF NewNodeReplaceOldNode(node[t])
       THEN Goto(t, "add_check") /\ UNCHANGED node
       ELSE Return(t)
    /\ UNCHANGED <<store, alpha, heartbeat, copy, raced>>

AddNodeCheck(t) ==
    /\ pc[t] = "add_check"
    /\ IF Addable(node[t]) THEN Goto(t, "add_push") /\ UNCHANGED node
                           ELSE Return(t)
    /\ UNCHANGED <<store, alpha, heartbeat, copy, raced>>

(* A change of nodes_ leaves the copies of it behind.                      *)
Outdated(c) == IF c = "current" THEN "stale" ELSE c

OutdateCopies ==
    /\ no_lock_for_use_nodes_' = Outdated(no_lock_for_use_nodes_)
    /\ copy' = [t \in Thread |-> Outdated(copy[t])]

(* Another thread has changed nodes_ for this peer and not yet the maps.   *)
Updating == {"add_id", "add_hash", "drop_id", "drop_hash"}

Overlaps(t, id) ==
    \E s \in Thread \ {t} : pc[s] \in Updating /\ node_id[node[s]] = id

NoteOverlap(t) ==
    raced' = raced \cup {id \in {node_id[node[t]]} : Overlaps(t, id)}

AddNodePushUnchecked(t) ==                      \* mutant: HasNode not asked again
    /\ pc[t] = "add_push" /\ LockNodes
    /\ IF NewNodeReplaceOldNode(node[t])
       THEN /\ nodes_' = nodes_ \cup {node[t]}
            /\ OutdateCopies /\ NoteOverlap(t)
            /\ Goto(t, "add_id") /\ UNCHANGED node
       ELSE Return(t) /\ UNCHANGED <<nodes_, no_lock_for_use_nodes_, copy, raced>>
    /\ UNCHANGED <<node_id_map_, node_hash_map_, alpha, heartbeat>>

(* Under nodes_mutex_: room in the bucket, HasNode again, push_back.       *)
AddNodePush(t) ==
    /\ pc[t] = "add_push" /\ LockNodes
    /\ IF NewNodeReplaceOldNode(node[t]) /\ ~HasNode(node[t])
       THEN /\ nodes_' = nodes_ \cup {node[t]}
            /\ OutdateCopies /\ NoteOverlap(t)
            /\ Goto(t, "add_id") /\ UNCHANGED node
       ELSE Return(t) /\ UNCHANGED <<nodes_, no_lock_for_use_nodes_, copy, raced>>
    /\ UNCHANGED <<node_id_map_, node_hash_map_, alpha, heartbeat>>

AddNodeIdMap(t) ==
    /\ pc[t] = "add_id"
    /\ node_id_map_' = MapInsert(node_id_map_, node_id[node[t]], node[t])
    /\ Goto(t, "add_hash")
    /\ UNCHANGED <<nodes_, node_hash_map_, no_lock_for_use_nodes_,
                   alpha, heartbeat, node, copy, raced>>

AddNodeHashMap(t) ==
    /\ pc[t] = "add_hash"
    /\ node_hash_map_' = MapInsert(node_hash_map_, hash64[node[t]], node[t])
    /\ Goto(t, "snap_copy") /\ node' = [node EXCEPT ![t] = NullPtr]
    /\ UNCHANGED <<nodes_, node_id_map_, no_lock_for_use_nodes_,
                   alpha, heartbeat, copy, raced>>

(***************************************************************************)
(* The last lines of AddNode and DropNode: no_lock_for_use_nodes_ is set   *)
(* to nullptr, nodes() copies nodes_ under its mutex, and the copy is      *)
(* assigned.  The node is not used any more.  DropNode's caller then goes  *)
(* on with the next failed node.                                           *)
(***************************************************************************)
SnapshotCopy(t) ==
    /\ pc[t] = "snap_copy" /\ LockNodes
    /\ no_lock_for_use_nodes_' = "null"
    /\ copy' = [copy EXCEPT ![t] = "current"]
    /\ Goto(t, "snap_assign")
    /\ UNCHANGED <<nodes_, node_id_map_, node_hash_map_, alpha, heartbeat, node, raced>>

NextFailedNode(t, failed) ==
    IF failed = {}
    THEN /\ Return(t)
         /\ heartbeat_mutex_' = heartbeat_mutex_ \ {t}
         /\ UNCHANGED failed_nodes
    ELSE \E o \in failed :
            /\ heartbeat_mutex_' = {t}
            /\ node' = [node EXCEPT ![t] = o]
            /\ failed_nodes' = [failed_nodes EXCEPT ![t] = failed \ {o}]
            /\ Goto(t, "drop_nodes")

SnapshotAssign(t) ==
    /\ pc[t] = "snap_assign"
    /\ no_lock_for_use_nodes_' = copy[t]
    /\ copy' = [copy EXCEPT ![t] = "null"]
    /\ NextFailedNode(t, failed_nodes[t])
    /\ UNCHANGED <<nodes_, node_id_map_, node_hash_map_, alpha, raced>>

(***************************************************************************)
(* OnHeartbeatFailed: collect the nodes of the endpoint, drop each of them.*)
(* HeartbeatManager holds its mutex_ around the callbacks, so a second one *)
(* waits until the first has dropped all its nodes.                        *)
(***************************************************************************)
OnHeartbeatFailed(t) ==
    /\ pc[t] = "idle" /\ heartbeat_mutex_ = {} /\ LockNodes
    /\ \E o \in nodes_ :
          NextFailedNode(t, {n \in nodes_ : endpoint[n] = endpoint[o]})
    /\ UNCHANGED <<store, alpha, copy, raced>>

(* DropNode erases the first object of that id, if there is one.           *)
DropNodeNodes(t) ==
    /\ pc[t] = "drop_nodes" /\ LockNodes
    /\ LET same == {o \in nodes_ : node_id[o] = node_id[node[t]]}
       IN  \/ same = {} /\ UNCHANGED <<nodes_, no_lock_for_use_nodes_, copy>>
           \/ \E o \in same : nodes_' = nodes_ \ {o} /\ OutdateCopies
    /\ NoteOverlap(t)
    /\ Goto(t, "drop_id")
    /\ UNCHANGED <<node_id_map_, node_hash_map_, alpha, heartbeat, node>>

DropNodeIdMapSkipped(t) ==                      \* mutant: no erase
    /\ pc[t] = "drop_id"
    /\ Goto(t, "drop_hash")
    /\ UNCHANGED <<store, alpha, heartbeat, node, copy, raced>>

DropNodeIdMap(t) ==
    /\ pc[t] = "drop_id"
    /\ node_id_map_' = MapErase(node_id_map_, node_id[node[t]])
    /\ Goto(t, "drop_hash")
    /\ UNCHANGED <<nodes_, node_hash_map_, no_lock_for_use_nodes_,
                   alpha, heartbeat, node, copy, raced>>

DropNodeHashMapSkipped(t) ==                    \* mutant: no erase
    /\ pc[t] = "drop_hash"
    /\ Goto(t, "snap_copy") /\ node' = [node EXCEPT ![t] = NullPtr]
    /\ UNCHANGED <<store, alpha, heartbeat, copy, raced>>

DropNodeHashMap(t) ==
    /\ pc[t] = "drop_hash"
    /\ node_hash_map_' = MapErase(node_hash_map_, hash64[node[t]])
    /\ Goto(t, "snap_copy") /\ node' = [node EXCEPT ![t] = NullPtr]
    /\ UNCHANGED <<nodes_, node_id_map_, no_lock_for_use_nodes_,
                   alpha, heartbeat, copy, raced>>

(***************************************************************************)
(* GetClosestAlphaNodes, called by FindClosestNodes.  A small table is     *)
(* returned whole.  Otherwise the ids of the first kKadParamAlpha objects  *)
(* are taken and then, still under nodes_mutex_, random objects behind     *)
(* them until enough different ids are found; a draw of an id that is      *)
(* already there is drawn again.                                           *)
(***************************************************************************)
FirstAlpha(objs) ==
    {first \in SUBSET objs :
        /\ Cardinality(first) = kKadParamAlpha
        /\ \A x \in first, y \in objs \ first :
               ~CloserToTarget(node_id[y], node_id[x], local_id)}

BeginGetClosestAlphaNodesAnySize(t) ==          \* mutant: a small table is not returned
    /\ pc[t] = "idle" /\ LockNodes
    /\ \E first \in FirstAlpha(nodes_) :
        /\ query_nodes' = [query_nodes EXCEPT ![t] = Ids(first)]
        /\ rest' = [rest EXCEPT ![t] = nodes_ \ first]
    /\ nodes_mutex_' = {t}
    /\ Goto(t, "alpha")
    /\ UNCHANGED <<store, heartbeat, node, copy, raced>>

BeginGetClosestAlphaNodes(t) ==
    /\ pc[t] = "idle" /\ LockNodes
    /\ Cardinality(nodes_) > kKadParamAlpha + kKadParamAlphaRandom
    /\ \E first \in FirstAlpha(nodes_) :
        /\ query_nodes' = [query_nodes EXCEPT ![t] = Ids(first)]
        /\ rest' = [rest EXCEPT ![t] = nodes_ \ first]
    /\ nodes_mutex_' = {t}
    /\ Goto(t, "alpha")
    /\ UNCHANGED <<store, heartbeat, node, copy, raced>>

EnoughAlphaNodes(t) ==
    Cardinality(query_nodes[t]) >= kKadParamAlpha + kKadParamAlphaRandom

(* One draw; one of an id that is already there changes nothing.           *)
RandomAlphaNode(t) ==
    /\ pc[t] = "alpha" /\ ~EnoughAlphaNodes(t)
    /\ \E o \in rest[t] :
          query_nodes' = [query_nodes EXCEPT ![t] = @ \cup {node_id[o]}]
    /\ UNCHANGED <<store, nodes_mutex_, rest, heartbeat, pc, node, copy, raced>>

EndGetClosestAlphaNodes(t) ==
    /\ pc[t] = "alpha" /\ EnoughAlphaNodes(t)
    /\ nodes_mutex_' = {}
    /\ query_nodes' = [query_nodes EXCEPT ![t] = {}]
    /\ rest' = [rest EXCEPT ![t] = {}]
    /\ Goto(t, "idle")
    /\ UNCHANGED <<store, heartbeat, node, copy, raced>>

-----------------------------------------------------------------------------
(* A call is made by the environment; a thread then runs it to its end.    *)
Call(t) == \/ BeginCanAddNode(t) \/ BeginAddNode(t) \/ NodeRefused(t)
           \/ OnHeartbeatFailed(t) \/ BeginGetClosestAlphaNodes(t)

Run(t) == \/ CanAddNodeBucket(t) \/ AddNodeCheck(t) \/ AddNodePush(t)
          \/ AddNodeIdMap(t) \/ AddNodeHashMap(t)
          \/ DropNodeNodes(t) \/ DropNodeIdMap(t) \/ DropNodeHashMap(t)
          \/ SnapshotCopy(t) \/ SnapshotAssign(t)
          \/ RandomAlphaNode(t) \/ EndGetClosestAlphaNodes(t)

Next == \E t \in Thread : Call(t) \/ Run(t)

Spec == Init /\ [][Next]_vars

(* A thread that is inside a call goes on; one that waits for nodes_mutex_ *)
(* gets it in the end; the random draws hit every object sooner or later.  *)
Fairness == \A t \in Thread : SF_vars(Run(t))

FairSpec == Spec /\ Fairness
-----------------------------------------------------------------------------
Labels == {"idle", "can_bucket", "add_check", "add_push", "add_id", "add_hash",
           "drop_nodes", "drop_id", "drop_hash", "snap_copy", "snap_assign", "alpha"}

HasNoNode == {"idle", "snap_copy", "snap_assign", "alpha"}

IsMapTo(m, keys, values) ==
    DOMAIN m \subseteq keys /\ m \in [DOMAIN m -> values]

(* Types of the store and of the threads' locals; a thread inside a call   *)
(* that works on a node has one.                                           *)
TypeOK ==
    /\ nodes_ \subseteq NodeInfoPtr
    /\ IsMapTo(node_id_map_, NodeId, NodeInfoPtr)
    /\ IsMapTo(node_hash_map_, Nat, NodeInfoPtr \cup {SelfPtr})
    /\ no_lock_for_use_nodes_ \in {"null", "current", "stale"}
    /\ nodes_mutex_ \subseteq Thread /\ heartbeat_mutex_ \subseteq Thread
    /\ pc \in [Thread -> Labels]
    /\ node \in [Thread -> NodeInfoPtr \cup {NullPtr}]
    /\ failed_nodes \in [Thread -> SUBSET NodeInfoPtr]
    /\ copy \in [Thread -> {"null", "current", "stale"}]
    /\ query_nodes \in [Thread -> SUBSET NodeId]
    /\ rest \in [Thread -> SUBSET NodeInfoPtr]
    /\ raced \subseteq NodeId
    /\ \A t \in Thread : pc[t] \notin HasNoNode => node[t] \in NodeInfoPtr

(* No k-bucket ever holds more than kKadParamK nodes, whatever handlers    *)
(* add and drop at the same time: NewNodeReplaceOldNode counts and         *)
(* push_back adds inside one critical section of nodes_mutex_.             *)
BucketBound ==
    \A b \in 0 .. kByteBits * kNodeIdSize :
        Cardinality(InBucket(nodes_, b)) <= kKadParamK

(* A peer is being added or dropped right now.                             *)
InFlight(id) ==
    \E t \in Thread : /\ pc[t] \in {"add_id", "drop_id"}
                      /\ node_id[node[t]] = id

(* Whatever threads handle whatever peers: outside the two windows where   *)
(* one call has updated nodes_ but not yet node_id_map_, the two agree on  *)
(* every peer for which no two calls ever overlapped.  It is in the map    *)
(* exactly when it is in nodes_, the map points to its object, and nodes_  *)
(* holds it once; an overlap on one peer does no harm to another.          *)
IndexesAgree ==
    \A id \in NodeId \ raced : ~InFlight(id) =>
        {o \in nodes_ : node_id[o] = id}
            = IF id \in DOMAIN node_id_map_ THEN {node_id_map_[id]} ELSE {}

(* The store, seen through nodes_, is a NodeSet: every AddNode and         *)
(* DropNode takes effect at once, in its critical section of nodes_mutex_, *)
(* and all its other steps, with whatever runs between them, are invisible.*)
(* A peer comes to be there twice only if two calls for it overlapped.     *)
NS == INSTANCE NodeSet WITH
    Object <- NodeInfoPtr, peer <- node_id, local <- local_id,
    bucket <- [o \in NodeInfoPtr |-> bucket_index(o)],
    capacity <- kKadParamK, known <- nodes_, contended <- raced

ImplementsNodeSet == NS!Spec

(* GetClosestAlphaNodes is caught in its loop: it wants more ids and every *)
(* object it can draw has one that it already knows.                       *)
Caught(t) ==
    pc[t] = "alpha" /\ ~EnoughAlphaNodes(t) /\ Ids(rest[t]) \subseteq query_nodes[t]

(* GetClosestAlphaNodes is only ever caught in the loop it runs under      *)
(* nodes_mutex_ while nodes_ holds a peer on which two calls overlapped.   *)
AlphaLoopCanEnd ==
    \A t \in Thread : Caught(t) => Ids(nodes_) \cap raced # {}

Quiet == \A t \in Thread : pc[t] = "idle"

(* The hash of a peer that no other peer and not the local node shares, as *)
(* the virtual nodes of a process do.                                      *)
OwnHash(o) ==
    /\ hash64[o] # local_hash64
    /\ \A n \in NodeInfoPtr : hash64[n] = hash64[o] <=> node_id[n] = node_id[o]

(* When no call is running and leaving raced peers aside, the hash map     *)
(* holds no node that has been dropped, even where several virtual nodes   *)
(* share a hash and with it an entry, and it holds every node of nodes_    *)
(* whose hash is its own.                                                  *)
HashMapAgrees ==
    Quiet =>
        /\ \A n \in Range(node_hash_map_) \ {SelfPtr} :
               node_id[n] \notin raced => n \in nodes_
        /\ \A o \in nodes_ : OwnHash(o) /\ node_id[o] \notin raced =>
               hash64[o] \in DOMAIN node_hash_map_ /\ node_hash_map_[hash64[o]] = o

(* Every call returns: no thread waits for ever for nodes_mutex_.          *)
CallsReturn == \A t \in Thread : pc[t] # "idle" ~> pc[t] = "idle"

=============================================================================
