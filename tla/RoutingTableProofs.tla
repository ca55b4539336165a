------------------------- MODULE RoutingTableProofs -------------------------
(***************************************************************************)
(* Theorems about RoutingTable for every set of threads, objects and ids.  *)
(***************************************************************************)
EXTENDS RoutingTable, FiniteSetTheorems, TLAPS

(* Insert and erase keep a map a map.                                      *)
LEMMA MapInsertType ==
    ASSUME NEW keys, NEW values, NEW m, IsMapTo(m, keys, values),
           NEW k \in keys, NEW v \in values
    PROVE  IsMapTo(MapInsert(m, k, v), keys, values)
BY DEF IsMapTo, MapInsert

(* Erasing a key from a map leaves a map of the same types.               *)
LEMMA MapEraseType ==
    ASSUME NEW keys, NEW values, NEW m, IsMapTo(m, keys, values), NEW k
    PROVE  IsMapTo(MapErase(m, k), keys, values)
BY DEF IsMapTo, MapErase, Restrict

(* NextFailedNode keeps the types of what it assigns.                      *)
LEMMA NextFailedNodeType ==
    ASSUME TypeOK, NEW t \in Thread, NEW failed \in SUBSET NodeInfoPtr,
           NextFailedNode(t, failed)
    PROVE  /\ heartbeat_mutex_' \subseteq Thread
           /\ pc' \in [Thread -> Labels]
           /\ node' \in [Thread -> NodeInfoPtr \cup {NullPtr}]
           /\ failed_nodes' \in [Thread -> SUBSET NodeInfoPtr]
           /\ \A s \in Thread :
                pc'[s] \notin HasNoNode => node'[s] \in NodeInfoPtr
<1> USE DEF TypeOK, Labels, HasNoNode, Goto, Return
<1>1. CASE failed = {}
  BY <1>1 DEF NextFailedNode
<1>2. CASE failed # {}
  <2>1. PICK o \in failed :
            /\ heartbeat_mutex_' = {t}
            /\ node' = [node EXCEPT ![t] = o]
            /\ failed_nodes' = [failed_nodes EXCEPT ![t] = failed \ {o}]
            /\ Goto(t, "drop_nodes")
    BY <1>2 DEF NextFailedNode
  <2> QED BY <2>1
<1> QED BY <1>1, <1>2

(* TypeOK is preserved by every step of every call of the node store.      *)
LEMMA TypeStep == TypeOK /\ [Next]_vars => TypeOK'
<1> SUFFICES ASSUME TypeOK, [Next]_vars PROVE TypeOK'
  OBVIOUS
<1> USE RoutingTableAssumption
<1>1. CASE UNCHANGED vars
  BY <1>1 DEF TypeOK, vars, store, alpha, heartbeat, IsMapTo
<1>2. ASSUME NEW t \in Thread, NEW o \in NodeInfoPtr, NEW label \in Labels,
             NewNodeInfo(t, o, label)
      PROVE  TypeOK'
  BY <1>2 DEF TypeOK, HasNoNode, NewNodeInfo, Goto, store, alpha, heartbeat, IsMapTo
<1>3. ASSUME NEW t \in Thread, OnHeartbeatFailed(t) PROVE TypeOK'
  <2>1. PICK o \in nodes_ :
            NextFailedNode(t, {n \in nodes_ : endpoint[n] = endpoint[o]})
    BY <1>3 DEF OnHeartbeatFailed
  <2>2. {n \in nodes_ : endpoint[n] = endpoint[o]} \in SUBSET NodeInfoPtr
    BY DEF TypeOK
  <2>3. UNCHANGED <<store, alpha, copy, raced>>
    BY <1>3 DEF OnHeartbeatFailed
  <2> QED BY <2>1, <2>2, <2>3, NextFailedNodeType DEF TypeOK, store, alpha, IsMapTo
<1>4. ASSUME NEW t \in Thread, BeginGetClosestAlphaNodes(t) PROVE TypeOK'
  BY <1>4 DEF TypeOK, HasNoNode, BeginGetClosestAlphaNodes, FirstAlpha, Ids, Goto, Labels,
              store, heartbeat, IsMapTo
<1>5. ASSUME NEW t \in Thread,
             CanAddNodeBucket(t) \/ AddNodeCheck(t)
      PROVE  TypeOK'
  BY <1>5 DEF TypeOK, HasNoNode, CanAddNodeBucket, AddNodeCheck,
              Goto, Return, Labels, store, alpha, heartbeat, IsMapTo
<1>6. ASSUME NEW t \in Thread, AddNodePush(t) PROVE TypeOK'
  BY <1>6 DEF TypeOK, HasNoNode, AddNodePush, OutdateCopies, Outdated, NoteOverlap,
              Goto, Return, Labels, alpha, heartbeat, IsMapTo
<1>7. ASSUME NEW t \in Thread, AddNodeIdMap(t) PROVE TypeOK'
  <2>1. node[t] \in NodeInfoPtr /\ node_id[node[t]] \in NodeId
    BY <1>7 DEF TypeOK, HasNoNode, AddNodeIdMap
  <2>2. IsMapTo(node_id_map_', NodeId, NodeInfoPtr)
    BY <1>7, <2>1, MapInsertType DEF TypeOK, AddNodeIdMap
  <2> QED BY <1>7, <2>1, <2>2 DEF TypeOK, HasNoNode, AddNodeIdMap, Goto, Labels,
              alpha, heartbeat, IsMapTo
<1>8. ASSUME NEW t \in Thread, AddNodeHashMap(t) PROVE TypeOK'
  <2>1. node[t] \in NodeInfoPtr /\ hash64[node[t]] \in Nat
    BY <1>8 DEF TypeOK, HasNoNode, AddNodeHashMap
  <2>2. IsMapTo(node_hash_map_', Nat, NodeInfoPtr \cup {SelfPtr})
    BY <1>8, <2>1, MapInsertType DEF TypeOK, AddNodeHashMap
  <2> QED BY <1>8, <2>1, <2>2 DEF TypeOK, HasNoNode, AddNodeHashMap, Goto, Labels,
              alpha, heartbeat, IsMapTo
<1>9. ASSUME NEW t \in Thread, DropNodeNodes(t) PROVE TypeOK'
  BY <1>9 DEF TypeOK, HasNoNode, DropNodeNodes, OutdateCopies, Outdated, NoteOverlap,
              Goto, Labels, alpha, heartbeat, IsMapTo
<1>10. ASSUME NEW t \in Thread, DropNodeIdMap(t) PROVE TypeOK'
  <2>1. IsMapTo(node_id_map_', NodeId, NodeInfoPtr)
    BY <1>10, MapEraseType DEF TypeOK, DropNodeIdMap
  <2> QED BY <1>10, <2>1 DEF TypeOK, HasNoNode, DropNodeIdMap, Goto, Labels,
              alpha, heartbeat, IsMapTo
<1>11. ASSUME NEW t \in Thread, DropNodeHashMap(t) PROVE TypeOK'
  <2>1. IsMapTo(node_hash_map_', Nat, NodeInfoPtr \cup {SelfPtr})
    BY <1>11, MapEraseType DEF TypeOK, DropNodeHashMap
  <2> QED BY <1>11, <2>1 DEF TypeOK, HasNoNode, DropNodeHashMap, Goto, Labels,
              alpha, heartbeat, IsMapTo
<1>12. ASSUME NEW t \in Thread, SnapshotCopy(t) PROVE TypeOK'
  BY <1>12 DEF TypeOK, HasNoNode, SnapshotCopy, Goto, Labels,
               store, alpha, heartbeat, IsMapTo
<1>13. ASSUME NEW t \in Thread, SnapshotAssign(t) PROVE TypeOK'
  <2>1. NextFailedNode(t, failed_nodes[t])
    BY <1>13 DEF SnapshotAssign
  <2>2. failed_nodes[t] \in SUBSET NodeInfoPtr
    BY DEF TypeOK
  <2> QED BY <1>13, <2>1, <2>2, NextFailedNodeType
          DEF TypeOK, SnapshotAssign, alpha, IsMapTo
<1>14. ASSUME NEW t \in Thread, RandomAlphaNode(t) \/ EndGetClosestAlphaNodes(t)
       PROVE  TypeOK'
  BY <1>14 DEF TypeOK, HasNoNode, RandomAlphaNode, EndGetClosestAlphaNodes, Goto, Labels,
               store, heartbeat, IsMapTo
<1> QED
  BY <1>1, <1>2, <1>3, <1>4, <1>5, <1>6, <1>7, <1>8, <1>9, <1>10, <1>11, <1>12,
     <1>13, <1>14 DEF Next, Call, Run, BeginCanAddNode, BeginAddNode,
     NodeRefused, Labels

(* Every state of the node store and of its threads is well typed: no      *)
(* interleaving of AddNode, DropNode and the snapshot steps leaves a map   *)
(* with a foreign key or value, or a thread inside a call without a node.  *)
THEOREM TypeCorrect == Spec => []TypeOK
<1>1. Init => TypeOK
  BY RoutingTableAssumption DEF Init, TypeOK, HasNoNode, Labels, IsMapTo
<1> QED BY <1>1, TypeStep, PTL DEF Spec

-----------------------------------------------------------------------------
(* The nodes of a bucket are finitely many.                                *)
LEMMA InBucketFinite ==
    ASSUME NEW objs \in SUBSET NodeInfoPtr, NEW b
    PROVE  IsFiniteSet(InBucket(objs, b)) /\ Cardinality(InBucket(objs, b)) \in Nat
<1>1. InBucket(objs, b) \in SUBSET NodeInfoPtr
  BY DEF InBucket
<1>2. IsFiniteSet(InBucket(objs, b))
  BY <1>1, FS_Subset, RoutingTableAssumption
<1> QED BY <1>2, FS_CardinalityType

(* Dropping objects does not fill a bucket.                                *)
LEMMA InBucketShrinks ==
    ASSUME NEW objs \in SUBSET NodeInfoPtr, NEW fewer \in SUBSET objs, NEW b
    PROVE  Cardinality(InBucket(fewer, b)) <= Cardinality(InBucket(objs, b))
<1>1. InBucket(fewer, b) \in SUBSET InBucket(objs, b)
  BY DEF InBucket
<1> QED BY <1>1, InBucketFinite, FS_Subset

(* No interleaving of AddNode and DropNode overfills a k-bucket: the count *)
(* of NewNodeReplaceOldNode is still right when push_back runs.            *)
THEOREM BucketsNeverOverflow == Spec => []BucketBound
<1>1. Init => BucketBound
  <2> SUFFICES ASSUME Init, NEW b \in 0 .. kByteBits * kNodeIdSize
               PROVE  Cardinality(InBucket(nodes_, b)) <= kKadParamK
    BY DEF BucketBound
  <2>1. InBucket(nodes_, b) = {}
    BY DEF InBucket, Init
  <2>2. Cardinality(InBucket(nodes_, b)) = 0
    BY <2>1, FS_EmptySet
  <2> QED BY <2>2, RoutingTableAssumption
<1>2. TypeOK /\ BucketBound /\ [Next]_vars => BucketBound'
  <2> SUFFICES ASSUME TypeOK, BucketBound, [Next]_vars PROVE BucketBound'
    OBVIOUS
  <2>1. CASE UNCHANGED nodes_
    BY <2>1 DEF BucketBound, InBucket
  <2>2. ASSUME NEW t \in Thread, AddNodePush(t), nodes_' # nodes_
        PROVE  BucketBound'
    <3>1. /\ nodes_' = nodes_ \cup {node[t]}
          /\ NewNodeReplaceOldNode(node[t])
          /\ node[t] \in NodeInfoPtr /\ nodes_ \in SUBSET NodeInfoPtr
      BY <2>2 DEF AddNodePush, TypeOK, HasNoNode
    <3> SUFFICES ASSUME NEW b \in 0 .. kByteBits * kNodeIdSize
                 PROVE  Cardinality(InBucket(nodes_', b)) <= kKadParamK
      BY DEF BucketBound, InBucket
    <3>2. CASE bucket_index(node[t]) = b
      <4>1. InBucket(nodes_', b) = InBucket(nodes_, b) \cup {node[t]}
        BY <3>1, <3>2 DEF InBucket
      <4>2. /\ IsFiniteSet(InBucket(nodes_, b))
            /\ Cardinality(InBucket(nodes_, b)) \in Nat
        BY <3>1, InBucketFinite
      <4>3. Cardinality(InBucket(nodes_, b)) < kKadParamK
        BY <3>1, <3>2 DEF NewNodeReplaceOldNode
      <4>4. Cardinality(InBucket(nodes_', b))
              = IF node[t] \in InBucket(nodes_, b)
                THEN Cardinality(InBucket(nodes_, b))
                ELSE Cardinality(InBucket(nodes_, b)) + 1
        BY <4>1, <4>2, FS_AddElement
      <4> HIDE DEF InBucket
      <4> QED BY <4>2, <4>3, <4>4, RoutingTableAssumption
    <3>3. CASE bucket_index(node[t]) # b
      <4>1. InBucket(nodes_', b) = InBucket(nodes_, b)
        BY <3>1, <3>3 DEF InBucket
      <4> QED BY <4>1 DEF BucketBound
    <3> QED BY <3>2, <3>3
  <2>3. ASSUME NEW t \in Thread, DropNodeNodes(t) PROVE BucketBound'
    <3>1. nodes_ \in SUBSET NodeInfoPtr /\ nodes_' \in SUBSET nodes_
      BY <2>3 DEF DropNodeNodes, TypeOK
    <3> SUFFICES ASSUME NEW b \in 0 .. kByteBits * kNodeIdSize
                 PROVE  Cardinality(InBucket(nodes_', b)) <= kKadParamK
      BY DEF BucketBound, InBucket
    <3>2. Cardinality(InBucket(nodes_, b)) <= kKadParamK
      BY DEF BucketBound
    <3>3. /\ Cardinality(InBucket(nodes_', b)) <= Cardinality(InBucket(nodes_, b))
          /\ Cardinality(InBucket(nodes_', b)) \in Nat
          /\ Cardinality(InBucket(nodes_, b)) \in Nat
      BY <3>1, InBucketShrinks, InBucketFinite
    <3> QED BY <3>2, <3>3, RoutingTableAssumption
  <2>4. ASSUME NEW t \in Thread, Call(t) PROVE UNCHANGED nodes_
    BY <2>4 DEF Call, BeginCanAddNode, BeginAddNode, NodeRefused, NewNodeInfo,
                OnHeartbeatFailed, BeginGetClosestAlphaNodes, store, vars
  <2>5. ASSUME NEW t \in Thread, Run(t), ~AddNodePush(t), ~DropNodeNodes(t)
        PROVE  UNCHANGED nodes_
    BY <2>5 DEF Run, CanAddNodeBucket, AddNodeCheck,
                AddNodeIdMap, AddNodeHashMap, DropNodeIdMap, DropNodeHashMap,
                SnapshotCopy, SnapshotAssign, RandomAlphaNode,
                EndGetClosestAlphaNodes, store
  <2> QED BY <2>1, <2>2, <2>3, <2>4, <2>5 DEF Next, vars, store
<1> QED BY <1>1, <1>2, TypeCorrect, PTL DEF Spec

-----------------------------------------------------------------------------
(***************************************************************************)
(* Agreement of nodes_ and node_id_map_.  IndexesAgree says nothing about  *)
(* a peer whose add or drop is half done; IndexInv adds what holds in the  *)
(* two windows, and that a peer for which two threads are in a window at   *)
(* once is in raced.                                                       *)
(***************************************************************************)
Same(objs, id) == {o \in objs : node_id[o] = id}

InMap(m, id) == IF id \in DOMAIN m THEN {m[id]} ELSE {}

Alone ==
    \A s, t \in Thread :
        /\ s # t /\ pc[s] \in Updating /\ pc[t] \in Updating
        /\ node_id[node[s]] = node_id[node[t]]
        => node_id[node[s]] \in raced

Windows ==
    \A t \in Thread : node_id[node[t]] \notin raced =>
        /\ pc[t] = "add_id" =>
              /\ Same(nodes_, node_id[node[t]]) = {node[t]}
              /\ node_id[node[t]] \notin DOMAIN node_id_map_
        /\ pc[t] = "drop_id" => Same(nodes_, node_id[node[t]]) = {}

IndexInv == Alone /\ Windows /\ IndexesAgree

(* AddNodePush with room in the bucket and no entry of the peer.           *)
PushNode(t) ==
    AddNodePush(t) /\ NewNodeReplaceOldNode(node[t]) /\ ~HasNode(node[t])

(* A step that leaves the three indexes alone and moves no thread into,    *)
(* within or out of a window.                                              *)
Untouched ==
    /\ UNCHANGED <<nodes_, node_id_map_, node_hash_map_, raced>>
    /\ \A s \in Thread :
          IF pc[s] \in Updating
          THEN pc'[s] = pc[s] /\ node'[s] = node[s]
          ELSE pc'[s] \notin Updating

(* All steps are such, but for the six that write to an index.             *)
StoreStep(t) ==
    \/ PushNode(t) \/ AddNodeIdMap(t) \/ AddNodeHashMap(t)
    \/ DropNodeNodes(t) \/ DropNodeIdMap(t) \/ DropNodeHashMap(t)

(* Every step writes to an index or leaves all of them and the windows.    *)
LEMMA OtherStepsUntouched ==
    ASSUME TypeOK, [Next]_vars, \A t \in Thread : ~StoreStep(t)
    PROVE  Untouched
<1> USE DEF Untouched, Updating, TypeOK, Goto, Return
<1>1. CASE UNCHANGED vars
  BY <1>1 DEF vars, store
<1>2. ASSUME NEW t \in Thread, pc[t] \notin Updating, NEW failed,
             NextFailedNode(t, failed),
             UNCHANGED <<nodes_, node_id_map_, node_hash_map_, raced>>
      PROVE  Untouched
  <2>1. CASE failed = {}
    BY <1>2, <2>1 DEF NextFailedNode
  <2>2. CASE failed # {}
    <3>1. PICK o \in failed : /\ node' = [node EXCEPT ![t] = o]
                              /\ Goto(t, "drop_nodes")
      BY <1>2, <2>2 DEF NextFailedNode
    <3> QED BY <1>2, <3>1
  <2> QED BY <2>1, <2>2
<1>3. ASSUME NEW t \in Thread, Call(t) PROVE Untouched
  <2>1. CASE BeginCanAddNode(t) \/ BeginAddNode(t)
    BY <2>1 DEF BeginCanAddNode, BeginAddNode, NewNodeInfo, store
  <2>2. CASE OnHeartbeatFailed(t)
    <3>1. PICK o \in nodes_ :
              NextFailedNode(t, {n \in nodes_ : endpoint[n] = endpoint[o]})
      BY <2>2 DEF OnHeartbeatFailed
    <3> QED BY <1>2, <2>2, <3>1 DEF OnHeartbeatFailed, store
  <2>3. CASE BeginGetClosestAlphaNodes(t)
    BY <2>3 DEF BeginGetClosestAlphaNodes, store
  <2> QED BY <1>1, <1>3, <2>1, <2>2, <2>3 DEF Call, NodeRefused
<1>4. ASSUME NEW t \in Thread, Run(t) PROVE Untouched
  <2>1. CASE SnapshotAssign(t)
    BY <2>1, <1>2 DEF SnapshotAssign
  <2>2. CASE CanAddNodeBucket(t) \/ AddNodeCheck(t)
    BY <2>2 DEF CanAddNodeBucket, AddNodeCheck, store
  <2>3. CASE AddNodePush(t) /\ ~PushNode(t)
    BY <2>3 DEF AddNodePush, PushNode
  <2>4. CASE SnapshotCopy(t) \/ RandomAlphaNode(t) \/ EndGetClosestAlphaNodes(t)
    BY <2>4 DEF SnapshotCopy, RandomAlphaNode, EndGetClosestAlphaNodes, store
  <2> QED BY <1>4, <2>1, <2>2, <2>3, <2>4 DEF Run, StoreStep
<1> QED BY <1>1, <1>3, <1>4 DEF Next

(* Such a step keeps IndexInv.                                             *)
LEMMA UntouchedKeepsIndexInv ==
    ASSUME IndexInv, Untouched PROVE IndexInv'
<1> USE DEF Untouched, Updating
<1>1. Alone'
  BY DEF IndexInv, Alone
<1>2. Windows'
  BY DEF IndexInv, Windows, Same
<1>3. \A id \in NodeId : InFlight(id)' <=> InFlight(id)
  BY DEF InFlight
<1>4. IndexesAgree'
  BY <1>3 DEF IndexInv, IndexesAgree
<1> QED BY <1>1, <1>2, <1>4 DEF IndexInv

(* A step that writes to an index: what it does to pc, node and raced, and *)
(* that the peers for which it meets another thread in a window are raced. *)
LEMMA StoreStepShape ==
    ASSUME TypeOK, Alone, NEW t \in Thread, StoreStep(t), NEW id, id = node_id[node[t]]
    PROVE  /\ node[t] \in NodeInfoPtr /\ id \in NodeId
           /\ \A s \in Thread \ {t} : pc'[s] = pc[s] /\ node'[s] = node[s]
           /\ raced \subseteq raced' /\ raced' \subseteq raced \cup {id}
           /\ pc'[t] \in Updating => node'[t] = node[t]
           /\ id \notin raced' =>
                 \A s \in Thread \ {t} : pc[s] \in Updating => node_id[node[s]] # id
           /\ nodes_ \subseteq NodeInfoPtr
<1> USE DEF TypeOK, HasNoNode, Goto
<1>1. CASE PushNode(t)
  BY <1>1, RoutingTableAssumption
     DEF PushNode, AddNodePush, NoteOverlap, Overlaps
<1>2. CASE DropNodeNodes(t)
  BY <1>2, RoutingTableAssumption DEF DropNodeNodes, NoteOverlap, Overlaps
<1>3. CASE AddNodeIdMap(t) \/ DropNodeIdMap(t)
  BY <1>3, RoutingTableAssumption
     DEF AddNodeIdMap, DropNodeIdMap, Alone, Updating
<1>4. CASE AddNodeHashMap(t) \/ DropNodeHashMap(t)
  BY <1>4, RoutingTableAssumption
     DEF AddNodeHashMap, DropNodeHashMap, Alone, Updating
<1> QED BY <1>1, <1>2, <1>3, <1>4 DEF StoreStep

(* Alone is inductive: whoever opens a window for a peer that is in a      *)
(* window already notes the overlap.                                       *)
LEMMA AloneStep ==
    ASSUME TypeOK, Alone, NEW t \in Thread, StoreStep(t) PROVE Alone'
<1>1. PICK id : id = node_id[node[t]]
  OBVIOUS
<1>2. /\ \A s \in Thread \ {t} : pc'[s] = pc[s] /\ node'[s] = node[s]
      /\ raced \subseteq raced'
      /\ pc'[t] \in Updating => node'[t] = node[t]
      /\ id \notin raced' =>
            \A s \in Thread \ {t} : pc[s] \in Updating => node_id[node[s]] # id
  BY <1>1, StoreStepShape
<1> SUFFICES ASSUME NEW r \in Thread, NEW s \in Thread, r # s,
                    pc'[r] \in Updating, pc'[s] \in Updating,
                    node_id[node'[r]] = node_id[node'[s]]
             PROVE  node_id[node'[r]] \in raced'
  BY DEF Alone, Updating
<1>3. CASE r # t /\ s # t
  BY <1>2, <1>3 DEF Alone
<1>4. CASE r = t
  BY <1>1, <1>2, <1>4
<1>5. CASE s = t
  BY <1>1, <1>2, <1>5
<1> QED BY <1>3, <1>4, <1>5

(* What a step on one peer leaves alone: the entries of all other peers.   *)
LEMMA OtherPeersUntouched ==
    ASSUME TypeOK, Alone, NEW t \in Thread, StoreStep(t), NEW id, id = node_id[node[t]]
    PROVE  /\ \A x \in NodeId \ {id} : Same(nodes_', x) = Same(nodes_, x)
           /\ \A x \in NodeId \ {id} : x \in DOMAIN node_id_map_' <=> x \in DOMAIN node_id_map_
           /\ \A x \in DOMAIN node_id_map_ \ {id} : node_id_map_'[x] = node_id_map_[x]
           /\ \A x \in NodeId \ {id} : InFlight(x)' <=> InFlight(x)
<1>1. /\ node[t] \in NodeInfoPtr /\ nodes_ \subseteq NodeInfoPtr
      /\ \A s \in Thread \ {t} : pc'[s] = pc[s] /\ node'[s] = node[s]
      /\ pc'[t] \in Updating => node'[t] = node[t]
  BY StoreStepShape
<1>2. /\ \A x \in NodeId \ {id} : Same(nodes_', x) = Same(nodes_, x)
      /\ \A x \in NodeId \ {id} : x \in DOMAIN node_id_map_' <=> x \in DOMAIN node_id_map_
      /\ \A x \in DOMAIN node_id_map_ \ {id} : node_id_map_'[x] = node_id_map_[x]
  <2>1. CASE PushNode(t)
    BY <2>1, <1>1 DEF PushNode, AddNodePush, Same
  <2>2. CASE AddNodeIdMap(t)
    BY <2>2, <1>1 DEF AddNodeIdMap, Same, MapInsert
  <2>3. CASE DropNodeNodes(t)
    BY <2>3, <1>1 DEF DropNodeNodes, Same
  <2>4. CASE DropNodeIdMap(t)
    BY <2>4, <1>1 DEF DropNodeIdMap, Same, MapErase, Restrict
  <2>5. CASE AddNodeHashMap(t) \/ DropNodeHashMap(t)
    BY <2>5 DEF AddNodeHashMap, DropNodeHashMap, Same
  <2> QED BY <2>1, <2>2, <2>3, <2>4, <2>5 DEF StoreStep
<1>3. \A x \in NodeId \ {id} : InFlight(x)' <=> InFlight(x)
  BY <1>1 DEF InFlight, Updating
<1> QED BY <1>2, <1>3

(* A step on one peer for which it met no other thread: what the peer's    *)
(* entries and the step's own window are afterwards.                       *)
LEMMA PeerStep ==
    ASSUME TypeOK, IndexInv, NEW t \in Thread, StoreStep(t),
           NEW id, id = node_id[node[t]], id \notin raced'
    PROVE  /\ pc'[t] = "add_id" => Same(nodes_', id) = {node[t]} /\ id \notin DOMAIN node_id_map_'
           /\ pc'[t] = "drop_id" => Same(nodes_', id) = {}
           /\ ~InFlight(id)' => Same(nodes_', id) = InMap(node_id_map_', id)
<1>1. /\ node[t] \in NodeInfoPtr /\ nodes_ \subseteq NodeInfoPtr /\ id \in NodeId
      /\ id \notin raced
      /\ \A s \in Thread \ {t} : pc[s] \in Updating => node_id[node[s]] # id
      /\ \A s \in Thread \ {t} : pc'[s] = pc[s] /\ node'[s] = node[s]
  BY StoreStepShape DEF IndexInv
<1>2. pc[t] \notin {"add_id", "drop_id"} => Same(nodes_, id) = InMap(node_id_map_, id)
  BY <1>1 DEF IndexInv, IndexesAgree, InFlight, Same, InMap, Updating
<1>3. CASE PushNode(t)
  <2>1. /\ nodes_' = nodes_ \cup {node[t]} /\ node_id_map_' = node_id_map_
        /\ id \notin DOMAIN node_id_map_ /\ pc[t] = "add_push"
        /\ pc' = [pc EXCEPT ![t] = "add_id"] /\ node' = node
    BY <1>3 DEF PushNode, AddNodePush, Goto, HasNode
  <2>2. Same(nodes_', id) = {node[t]}
    BY <1>2, <2>1 DEF Same, InMap
  <2>3. InFlight(id)' /\ pc'[t] = "add_id"
    BY <2>1 DEF InFlight, TypeOK
  <2> QED BY <2>1, <2>2, <2>3
<1>4. CASE AddNodeIdMap(t)
  <2>1. Same(nodes_, id) = {node[t]} /\ id \notin DOMAIN node_id_map_
    BY <1>1, <1>4 DEF AddNodeIdMap, IndexInv, Windows
  <2>2. /\ id \in DOMAIN node_id_map_' /\ node_id_map_'[id] = node[t]
        /\ Same(nodes_', id) = Same(nodes_, id) /\ pc'[t] = "add_hash"
    BY <1>4, <2>1 DEF AddNodeIdMap, MapInsert, Same, Goto, TypeOK
  <2> QED BY <2>1, <2>2 DEF InMap
<1>5. CASE DropNodeNodes(t)
  <2>1. /\ node' = node /\ pc' = [pc EXCEPT ![t] = "drop_id"] /\ pc[t] = "drop_nodes"
    BY <1>5 DEF DropNodeNodes, Goto
  <2>2. InFlight(id)' /\ pc'[t] = "drop_id"
    BY <2>1 DEF InFlight, TypeOK
  <2>3. Same(nodes_', id) = {}
    BY <1>5, <2>1, <1>2 DEF DropNodeNodes, Same, InMap
  <2> QED BY <2>2, <2>3
<1>6. CASE DropNodeIdMap(t)
  <2>1. /\ Same(nodes_', id) = Same(nodes_, id) /\ Same(nodes_, id) = {}
        /\ id \notin DOMAIN node_id_map_' /\ pc'[t] = "drop_hash"
    BY <1>1, <1>6 DEF DropNodeIdMap, IndexInv, Windows, Same, MapErase, Restrict, Goto, TypeOK
  <2> QED BY <2>1 DEF InMap
<1>7. CASE AddNodeHashMap(t) \/ DropNodeHashMap(t)
  <2>1. /\ nodes_' = nodes_ /\ node_id_map_' = node_id_map_
        /\ pc[t] \in {"add_hash", "drop_hash"} /\ pc'[t] = "snap_copy"
    BY <1>7 DEF AddNodeHashMap, DropNodeHashMap, Goto, TypeOK
  <2> QED BY <1>2, <2>1
<1> QED BY <1>3, <1>4, <1>5, <1>6, <1>7 DEF StoreStep

(* The steps that write to an index keep IndexInv.                         *)
LEMMA StoreStepKeepsIndexInv ==
    ASSUME TypeOK, IndexInv, NEW t \in Thread, StoreStep(t) PROVE IndexInv'
<1>1. PICK id : id = node_id[node[t]]
  OBVIOUS
<1>2. /\ node[t] \in NodeInfoPtr /\ id \in NodeId
      /\ \A s \in Thread \ {t} : pc'[s] = pc[s] /\ node'[s] = node[s]
      /\ raced \subseteq raced'
      /\ pc'[t] \in Updating => node'[t] = node[t]
      /\ id \notin raced' =>
            \A s \in Thread \ {t} : pc[s] \in Updating => node_id[node[s]] # id
  BY <1>1, StoreStepShape DEF IndexInv
<1>3. Alone'
  BY AloneStep DEF IndexInv
<1>4. /\ \A x \in NodeId \ {id} : Same(nodes_', x) = Same(nodes_, x)
      /\ \A x \in NodeId \ {id} : x \in DOMAIN node_id_map_' <=> x \in DOMAIN node_id_map_
      /\ \A x \in DOMAIN node_id_map_ \ {id} : node_id_map_'[x] = node_id_map_[x]
      /\ \A x \in NodeId \ {id} : InFlight(x)' <=> InFlight(x)
  BY <1>1, OtherPeersUntouched DEF IndexInv
<1>5. id \notin raced' =>
          /\ pc'[t] = "add_id" => Same(nodes_', id) = {node[t]} /\ id \notin DOMAIN node_id_map_'
          /\ pc'[t] = "drop_id" => Same(nodes_', id) = {}
          /\ ~InFlight(id)' => Same(nodes_', id) = InMap(node_id_map_', id)
  BY <1>1, PeerStep
<1>6. Windows'
  <2> SUFFICES ASSUME NEW s \in Thread, node_id[node'[s]] \notin raced',
                      pc'[s] \in {"add_id", "drop_id"}
               PROVE  /\ pc'[s] = "add_id" =>
                            /\ Same(nodes_', node_id[node'[s]]) = {node'[s]}
                            /\ node_id[node'[s]] \notin DOMAIN node_id_map_'
                      /\ pc'[s] = "drop_id" => Same(nodes_', node_id[node'[s]]) = {}
    BY DEF Windows, Same
  <2>1. CASE s = t
    BY <1>1, <1>2, <1>5, <2>1 DEF Updating
  <2>2. CASE s # t
    <3>1. pc[s] = pc'[s] /\ node[s] = node'[s] /\ node_id[node[s]] \notin raced
      BY <1>2, <2>2
    <3>2. node_id[node[s]] \in NodeId
      BY <3>1, RoutingTableAssumption DEF TypeOK, HasNoNode
    <3>3. node_id[node[s]] # id
      BY <1>2, <2>2, <3>1 DEF Updating
    <3> QED BY <1>4, <3>1, <3>2, <3>3 DEF IndexInv, Windows
  <2> QED BY <2>1, <2>2
<1>7. IndexesAgree'
  <2> SUFFICES ASSUME NEW x \in NodeId, x \notin raced', ~InFlight(x)'
               PROVE  Same(nodes_', x) = InMap(node_id_map_', x)
    BY DEF IndexesAgree, Same, InMap
  <2>1. CASE x = id
    BY <1>5, <2>1
  <2>2. CASE x # id
    <3>1. Same(nodes_, x) = InMap(node_id_map_, x)
      BY <1>2, <1>4, <2>2 DEF IndexInv, IndexesAgree, Same, InMap
    <3> QED BY <1>4, <2>2, <3>1 DEF InMap
  <2> QED BY <2>1, <2>2
<1> QED BY <1>3, <1>6, <1>7 DEF IndexInv

(* IndexInv is inductive.                                                  *)
LEMMA IndexInvHolds == Spec => []IndexInv
<1>1. Init => IndexInv
  BY DEF Init, IndexInv, Alone, Windows, IndexesAgree, Updating
<1>2. TypeOK /\ IndexInv /\ [Next]_vars => IndexInv'
  <2> SUFFICES ASSUME TypeOK, IndexInv, [Next]_vars PROVE IndexInv'
    OBVIOUS
  <2>1. CASE \A t \in Thread : ~StoreStep(t)
    BY <2>1, OtherStepsUntouched, UntouchedKeepsIndexInv
  <2>2. ASSUME NEW t \in Thread, StoreStep(t) PROVE IndexInv'
    BY <2>2, StoreStepKeepsIndexInv
  <2> QED BY <2>1, <2>2
<1> QED BY <1>1, <1>2, TypeCorrect, PTL DEF Spec

(* Whatever handlers, heartbeat failures and queries run at the same time, *)
(* nodes_ and node_id_map_ agree on every peer that is not between         *)
(* AddNode's or DropNode's two critical sections, unless two calls for     *)
(* this very peer overlapped: such an overlap is the only way to a peer    *)
(* that is stored twice, or that HasNode finds and nodes_ does not hold.   *)
THEOREM IndexesAgreeUnlessRaced == Spec => []IndexesAgree
<1>1. IndexInv => IndexesAgree
  BY DEF IndexInv
<1> QED BY <1>1, IndexInvHolds, PTL

-----------------------------------------------------------------------------
(***************************************************************************)
(* The refinement: a step of the store is a step of NodeSet or leaves      *)
(* nodes_ and raced alone.                                                 *)
(***************************************************************************)

(* The local node never gets as far as push_back.                          *)
NeverPushesSelf ==
    \A t \in Thread : pc[t] = "add_push" => node_id[node[t]] # local_id

(* Only the checks of AddNode lead to push_back.                           *)
LEMMA NeverPushesSelfStep ==
    TypeOK /\ NeverPushesSelf /\ [Next]_vars => NeverPushesSelf'
<1> SUFFICES ASSUME TypeOK, NeverPushesSelf, [Next]_vars PROVE NeverPushesSelf'
  OBVIOUS
<1> USE DEF NeverPushesSelf, TypeOK, Goto, Return
<1>1. CASE UNCHANGED vars
  BY <1>1 DEF vars
<1>2. ASSUME NEW t \in Thread, NEW failed, NextFailedNode(t, failed)
      PROVE  NeverPushesSelf'
  <2>1. CASE failed = {}
    BY <1>2, <2>1 DEF NextFailedNode
  <2>2. CASE failed # {}
    <3>1. PICK o \in failed : /\ node' = [node EXCEPT ![t] = o]
                              /\ Goto(t, "drop_nodes")
      BY <1>2, <2>2 DEF NextFailedNode
    <3> QED BY <3>1
  <2> QED BY <2>1, <2>2
<1>3. ASSUME NEW t \in Thread, Call(t) PROVE NeverPushesSelf'
  <2>1. CASE BeginCanAddNode(t) \/ BeginAddNode(t)
    BY <2>1 DEF BeginCanAddNode, BeginAddNode, NewNodeInfo, Addable
  <2>2. CASE OnHeartbeatFailed(t)
    BY <2>2, <1>2 DEF OnHeartbeatFailed
  <2>3. CASE BeginGetClosestAlphaNodes(t)
    BY <2>3 DEF BeginGetClosestAlphaNodes
  <2> QED BY <1>1, <1>3, <2>1, <2>2, <2>3 DEF Call, NodeRefused
<1>4. ASSUME NEW t \in Thread, Run(t) PROVE NeverPushesSelf'
  <2>1. CASE SnapshotAssign(t)
    BY <2>1, <1>2 DEF SnapshotAssign
  <2>2. CASE CanAddNodeBucket(t) \/ AddNodeCheck(t)
    BY <2>2 DEF CanAddNodeBucket, AddNodeCheck, Addable
  <2>3. CASE AddNodePush(t) \/ AddNodeIdMap(t) \/ AddNodeHashMap(t)
    BY <2>3 DEF AddNodePush, AddNodeIdMap, AddNodeHashMap
  <2>4. CASE DropNodeNodes(t) \/ DropNodeIdMap(t) \/ DropNodeHashMap(t)
    BY <2>4 DEF DropNodeNodes, DropNodeIdMap, DropNodeHashMap
  <2>5. CASE SnapshotCopy(t) \/ RandomAlphaNode(t) \/ EndGetClosestAlphaNodes(t)
    BY <2>5 DEF SnapshotCopy, RandomAlphaNode, EndGetClosestAlphaNodes
  <2> QED BY <1>4, <2>1, <2>2, <2>3, <2>4, <2>5 DEF Run
<1> QED BY <1>1, <1>3, <1>4 DEF Next

(* A push_back adds one object, in the way Add of NodeSet does.            *)
LEMMA PushIsAdd ==
    ASSUME TypeOK, IndexInv, NeverPushesSelf, NEW t \in Thread, PushNode(t)
    PROVE  [NS!Next]_<<nodes_, raced>>
<1>1. PICK id : id = node_id[node[t]]
  OBVIOUS
<1>2. /\ node[t] \in NodeInfoPtr /\ id \in NodeId /\ nodes_ \subseteq NodeInfoPtr
      /\ raced \subseteq raced' /\ raced' \subseteq raced \cup {id}
      /\ id \notin raced' =>
            \A s \in Thread \ {t} : pc[s] \in Updating => node_id[node[s]] # id
  BY <1>1, StoreStepShape DEF IndexInv, StoreStep
<1>3. /\ pc[t] = "add_push" /\ id # local_id /\ nodes_' = nodes_ \cup {node[t]}
      /\ id \notin DOMAIN node_id_map_
  BY <1>1 DEF PushNode, AddNodePush, NeverPushesSelf, HasNode
<1>4. id \in raced' \/ \A n \in nodes_ : node_id[n] # id
  <2>1. CASE id \notin raced'
    <3>1. ~InFlight(id) /\ id \notin raced
      BY <1>2, <1>3, <2>1 DEF InFlight, Updating
    <3> QED BY <1>2, <1>3, <3>1 DEF IndexInv, IndexesAgree
  <2> QED BY <2>1
<1>5. {n \in nodes_ : [o \in NodeInfoPtr |-> bucket_index(o)][n]
                          = [o \in NodeInfoPtr |-> bucket_index(o)][node[t]]}
          = InBucket(nodes_, bucket_index(node[t]))
  BY <1>2 DEF InBucket
<1>6. NS!Cardinality(InBucket(nodes_, bucket_index(node[t])))
          = Cardinality(InBucket(nodes_, bucket_index(node[t])))
  BY DEF NS!Cardinality, Cardinality
<1>7. NS!Add(node[t])
  BY <1>1, <1>2, <1>3, <1>4, <1>5, <1>6 DEF NS!Add, NewNodeReplaceOldNode, PushNode
<1>8. NS!Contend(node[t]) \/ UNCHANGED raced
  BY <1>1, <1>2 DEF NS!Contend
<1> QED BY <1>2, <1>7, <1>8 DEF NS!Next

(* DropNodeNodes drops at most one object.                                 *)
LEMMA DropIsDrop ==
    ASSUME TypeOK, IndexInv, NEW t \in Thread, DropNodeNodes(t)
    PROVE  [NS!Next]_<<nodes_, raced>>
<1>1. /\ node[t] \in NodeInfoPtr /\ nodes_ \subseteq NodeInfoPtr
      /\ raced \subseteq raced' /\ raced' \subseteq raced \cup {node_id[node[t]]}
  BY StoreStepShape DEF IndexInv, StoreStep
<1>2. CASE UNCHANGED nodes_
  BY <1>1, <1>2 DEF NS!Next, NS!Contend
<1>3. CASE nodes_' # nodes_
  <2>1. PICK o \in nodes_ : nodes_' = nodes_ \ {o} /\ node_id[o] = node_id[node[t]]
    BY <1>3 DEF DropNodeNodes
  <2>2. NS!Contend(o) \/ UNCHANGED raced
    BY <1>1, <2>1 DEF NS!Contend
  <2> QED BY <1>1, <2>1, <2>2 DEF NS!Next, NS!Drop
<1> QED BY <1>2, <1>3

(* The store implements its abstract specification: every behaviour of     *)
(* AddNode, DropNode and OnHeartbeatFailed on any number of threads is,    *)
(* for one who sees nodes_ only, a sequence of atomic additions and        *)
(* removals of single objects, and a peer is added a second time only      *)
(* after two calls for it have overlapped.                                 *)
THEOREM StoreImplementsNodeSet == Spec => ImplementsNodeSet
<1>1. Init => NS!Init /\ NeverPushesSelf
  BY DEF Init, NS!Init, NeverPushesSelf
<1>2. TypeOK /\ IndexInv /\ NeverPushesSelf /\ [Next]_vars => [NS!Next]_<<nodes_, raced>>
  <2> SUFFICES ASSUME TypeOK, IndexInv, NeverPushesSelf, [Next]_vars
               PROVE  [NS!Next]_<<nodes_, raced>>
    OBVIOUS
  <2>1. CASE \A t \in Thread : ~StoreStep(t)
    BY <2>1, OtherStepsUntouched DEF Untouched
  <2>2. ASSUME NEW t \in Thread, PushNode(t) PROVE [NS!Next]_<<nodes_, raced>>
    BY <2>2, PushIsAdd
  <2>3. ASSUME NEW t \in Thread, DropNodeNodes(t) PROVE [NS!Next]_<<nodes_, raced>>
    BY <2>3, DropIsDrop
  <2>4. ASSUME NEW t \in Thread, \/ AddNodeIdMap(t) \/ DropNodeIdMap(t)
                                 \/ AddNodeHashMap(t) \/ DropNodeHashMap(t)
        PROVE  UNCHANGED <<nodes_, raced>>
    BY <2>4 DEF AddNodeIdMap, DropNodeIdMap, AddNodeHashMap, DropNodeHashMap
  <2> QED BY <2>1, <2>2, <2>3, <2>4 DEF StoreStep
<1> QED BY <1>1, <1>2, TypeCorrect, IndexInvHolds, NeverPushesSelfStep, PTL
        DEF Spec, ImplementsNodeSet, NS!Spec

-----------------------------------------------------------------------------
(***************************************************************************)
(* GetClosestAlphaNodes.  While it loops it holds nodes_mutex_ and nodes_  *)
(* stands still; the ids it has and the ids it can still draw are the ids  *)
(* of nodes_.  Without raced peers these are as many as the objects.       *)
(***************************************************************************)
DistinctIds == \A n, o \in nodes_ : node_id[n] = node_id[o] => n = o

AlphaInv ==
    \A t \in Thread : pc[t] = "alpha" =>
        /\ nodes_mutex_ = {t}
        /\ Ids(rest[t]) \cup query_nodes[t] = Ids(nodes_)
        /\ Cardinality(nodes_) > kKadParamAlpha + kKadParamAlphaRandom

(* Even inside the windows of AddNode and DropNode a peer that is not      *)
(* raced is stored once.                                                   *)
LEMMA UnracedAreDistinct ==
    ASSUME TypeOK, IndexInv, NEW n \in nodes_, NEW o \in nodes_,
           node_id[n] = node_id[o], node_id[n] \notin raced
    PROVE  n = o
<1>1. /\ n \in Same(nodes_, node_id[n]) /\ o \in Same(nodes_, node_id[n])
      /\ node_id[n] \in NodeId
  BY RoutingTableAssumption DEF Same, TypeOK
<1>2. CASE InFlight(node_id[n])
  BY <1>1, <1>2 DEF InFlight, IndexInv, Windows
<1>3. CASE ~InFlight(node_id[n])
  BY <1>1, <1>3 DEF IndexInv, IndexesAgree, Same
<1> QED BY <1>2, <1>3

(* Objects of different ids have as many ids as they are.                  *)
LEMMA IdsCardinality ==
    ASSUME TypeOK, DistinctIds
    PROVE  Cardinality(Ids(nodes_)) = Cardinality(nodes_)
<1>1. IsFiniteSet(nodes_)
  BY FS_Subset, RoutingTableAssumption DEF TypeOK
<1>2. PICK f : f = [o \in nodes_ |-> node_id[o]]
  OBVIOUS
<1>3. f \in Bijection(nodes_, Ids(nodes_))
  BY <1>2 DEF Bijection, Injection, Surjection, IsInjective, Ids, DistinctIds
<1>4. ExistsBijection(nodes_, Ids(nodes_))
  BY <1>3 DEF ExistsBijection
<1> QED BY <1>1, <1>4, FS_Bijection

(* The loop begins with all ids of nodes_ and keeps everybody else out.    *)
LEMMA AlphaInvStep ==
    ASSUME TypeOK, AlphaInv, [Next]_vars PROVE AlphaInv'
<1> USE DEF TypeOK, Goto, Return
<1>1. ASSUME UNCHANGED <<alpha, nodes_>>,
             \A t \in Thread : pc'[t] = "alpha" => pc[t] = "alpha"
      PROVE  AlphaInv'
  BY <1>1 DEF AlphaInv, alpha, Ids
<1>2. CASE UNCHANGED vars
  BY <1>1, <1>2 DEF vars, store
<1>3. ASSUME NEW t \in Thread, BeginGetClosestAlphaNodes(t) PROVE AlphaInv'
  <2>1. PICK first \in FirstAlpha(nodes_) :
            /\ query_nodes' = [query_nodes EXCEPT ![t] = Ids(first)]
            /\ rest' = [rest EXCEPT ![t] = nodes_ \ first]
    BY <1>3 DEF BeginGetClosestAlphaNodes
  <2>2. /\ pc' = [pc EXCEPT ![t] = "alpha"] /\ nodes_' = nodes_
        /\ nodes_mutex_ = {} /\ nodes_mutex_' = {t}
        /\ Cardinality(nodes_) > kKadParamAlpha + kKadParamAlphaRandom
    BY <1>3 DEF BeginGetClosestAlphaNodes, LockNodes, store
  <2>3. Ids(rest'[t]) \cup query_nodes'[t] = Ids(nodes_)
    BY <2>1 DEF Ids, FirstAlpha
  <2>4. \A s \in Thread \ {t} : pc'[s] # "alpha"
    BY <2>2 DEF AlphaInv
  <2> SUFFICES ASSUME NEW s \in Thread, pc'[s] = "alpha"
               PROVE  /\ nodes_mutex_' = {s}
                      /\ Ids(rest'[s]) \cup query_nodes'[s] = Ids(nodes_')
                      /\ Cardinality(nodes_') > kKadParamAlpha + kKadParamAlphaRandom
    BY DEF AlphaInv, Ids
  <2> QED BY <2>2, <2>3, <2>4
<1>4. ASSUME NEW t \in Thread, RandomAlphaNode(t) PROVE AlphaInv'
  <2>1. PICK o \in rest[t] :
            query_nodes' = [query_nodes EXCEPT ![t] = @ \cup {node_id[o]}]
    BY <1>4 DEF RandomAlphaNode
  <2>2. pc' = pc /\ rest' = rest /\ nodes_' = nodes_ /\ nodes_mutex_' = nodes_mutex_
    BY <1>4 DEF RandomAlphaNode, store
  <2> SUFFICES ASSUME NEW s \in Thread, pc'[s] = "alpha"
               PROVE  /\ nodes_mutex_' = {s}
                      /\ Ids(rest'[s]) \cup query_nodes'[s] = Ids(nodes_')
                      /\ Cardinality(nodes_') > kKadParamAlpha + kKadParamAlphaRandom
    BY DEF AlphaInv, Ids
  <2>3. Ids(rest'[s]) \cup query_nodes'[s] = Ids(rest[s]) \cup query_nodes[s]
    BY <2>1, <2>2 DEF Ids
  <2> QED BY <2>2, <2>3 DEF AlphaInv
<1>5. ASSUME NEW t \in Thread, EndGetClosestAlphaNodes(t) PROVE AlphaInv'
  <2>1. \A s \in Thread : pc'[s] # "alpha"
    BY <1>5 DEF EndGetClosestAlphaNodes, AlphaInv
  <2> QED BY <2>1 DEF AlphaInv
<1>6. ASSUME NEW t \in Thread, AddNodePush(t) \/ DropNodeNodes(t) PROVE AlphaInv'
  <2>1. \A s \in Thread : pc'[s] # "alpha"
    BY <1>6 DEF AddNodePush, DropNodeNodes, AlphaInv, LockNodes
  <2> QED BY <2>1 DEF AlphaInv
<1>7. ASSUME NEW t \in Thread, NEW failed, NextFailedNode(t, failed),
             UNCHANGED <<alpha, nodes_>>
      PROVE  AlphaInv'
  <2>1. \A s \in Thread : pc'[s] = "alpha" => pc[s] = "alpha"
    BY <1>7 DEF NextFailedNode
  <2> QED BY <1>1, <1>7, <2>1
<1>8. ASSUME NEW t \in Thread, OnHeartbeatFailed(t) \/ SnapshotAssign(t)
      PROVE  AlphaInv'
  BY <1>7, <1>8 DEF OnHeartbeatFailed, SnapshotAssign, store
<1>9. ASSUME NEW t \in Thread, BeginCanAddNode(t) \/ BeginAddNode(t)
      PROVE  AlphaInv'
  BY <1>1, <1>9 DEF BeginCanAddNode, BeginAddNode, NewNodeInfo, store
<1>10. ASSUME NEW t \in Thread,
              \/ CanAddNodeBucket(t) \/ AddNodeCheck(t) \/ SnapshotCopy(t)
              \/ AddNodeIdMap(t) \/ AddNodeHashMap(t)
              \/ DropNodeIdMap(t) \/ DropNodeHashMap(t)
       PROVE  AlphaInv'
  <2>1. /\ UNCHANGED <<alpha, nodes_>>
        /\ \A s \in Thread : pc'[s] = "alpha" => pc[s] = "alpha"
    BY <1>10 DEF CanAddNodeBucket, AddNodeCheck, AddNodeIdMap, AddNodeHashMap,
                 DropNodeIdMap, DropNodeHashMap, SnapshotCopy, store
  <2> QED BY <1>1, <2>1
<1> QED BY <1>2, <1>3, <1>4, <1>5, <1>6, <1>8, <1>9, <1>10
        DEF Next, Call, Run, NodeRefused

(* The loop that GetClosestAlphaNodes runs under nodes_mutex_ always finds *)
(* another id to draw, however the table changed before it began, unless   *)
(* nodes_ holds a peer for which two calls overlapped.                     *)
THEOREM AlphaLoopEndsUnlessRaced == Spec => []AlphaLoopCanEnd
<1>1. Init => AlphaInv
  BY DEF Init, AlphaInv
<1>2. TypeOK /\ AlphaInv /\ [Next]_vars => AlphaInv'
  BY AlphaInvStep
<1>3. TypeOK /\ IndexInv /\ AlphaInv => AlphaLoopCanEnd
  <2> SUFFICES ASSUME TypeOK, IndexInv, AlphaInv, NEW t \in Thread, Caught(t),
                      Ids(nodes_) \cap raced = {}
               PROVE  FALSE
    BY DEF AlphaLoopCanEnd
  <2>1. DistinctIds
    BY UnracedAreDistinct DEF DistinctIds, Ids
  <2>2. Cardinality(Ids(nodes_)) = Cardinality(nodes_)
    BY <2>1, IdsCardinality
  <2>3. query_nodes[t] = Ids(nodes_)
    BY DEF Caught, AlphaInv
  <2>4. Cardinality(nodes_) > kKadParamAlpha + kKadParamAlphaRandom
    BY DEF Caught, AlphaInv
  <2>5. Cardinality(nodes_) \in Nat
    BY FS_Subset, FS_CardinalityType, RoutingTableAssumption DEF TypeOK
  <2>6. ~(Cardinality(nodes_) >= kKadParamAlpha + kKadParamAlphaRandom)
    BY <2>2, <2>3 DEF Caught, EnoughAlphaNodes
  <2> QED BY <2>4, <2>5, <2>6, RoutingTableAssumption
<1> QED BY <1>1, <1>2, <1>3, TypeCorrect, IndexInvHolds, PTL DEF Spec

-----------------------------------------------------------------------------
(***************************************************************************)
(* The hash map.  HashMapAgrees speaks of quiet states; HashInv says what  *)
(* holds between the steps of AddNode and DropNode.  HashOfPeer: hash64 is *)
(* the digest of the peer's xid, so all NodeInfo of a peer have one hash,  *)
(* which different peers may share.                                        *)
(***************************************************************************)
HashOfPeer == \A n, o \in NodeInfoPtr : node_id[n] = node_id[o] => hash64[n] = hash64[o]

Adding == {"add_id", "add_hash"}
Dropping == {"drop_id", "drop_hash"}

BeingAdded(o) == \E t \in Thread : pc[t] \in Adding /\ node[t] = o
BeingDropped(id) == \E t \in Thread : pc[t] \in Dropping /\ node_id[node[t]] = id

(* An entry is under the hash of its node; the local node keeps its own.   *)
HashKeys ==
    \A k \in DOMAIN node_hash_map_ :
        IF node_hash_map_[k] = SelfPtr THEN k = local_hash64
                                       ELSE hash64[node_hash_map_[k]] = k

(* What is in the hash map is in nodes_ or on its way out.                 *)
HashEntries ==
    \A k \in DOMAIN node_hash_map_ :
        /\ node_hash_map_[k] # SelfPtr
        /\ node_id[node_hash_map_[k]] \notin raced
        => \/ node_hash_map_[k] \in nodes_
           \/ BeingDropped(node_id[node_hash_map_[k]])

(* What is in nodes_ and has a hash of its own is in the hash map or on    *)
(* its way in.                                                             *)
HashesKept ==
    \A o \in nodes_ : OwnHash(o) /\ node_id[o] \notin raced =>
        \/ hash64[o] \in DOMAIN node_hash_map_ /\ node_hash_map_[hash64[o]] = o
        \/ BeingAdded(o)

(* Windows up to the last update: a node being added is in nodes_, and of  *)
(* a peer being dropped there is none.                                     *)
HashWindows ==
    \A t \in Thread : node_id[node[t]] \notin raced =>
        /\ pc[t] \in Adding => node[t] \in nodes_
        /\ pc[t] \in Dropping => Same(nodes_, node_id[node[t]]) = {}

HashInv == HashKeys /\ HashEntries /\ HashesKept /\ HashWindows

(* A step that touches no index keeps HashInv.                             *)
LEMMA UntouchedKeepsHashInv ==
    ASSUME TypeOK, HashInv, Untouched PROVE HashInv'
<1> USE DEF Untouched, Updating, Adding, Dropping
<1>1. \A o \in NodeInfoPtr : BeingAdded(o) => BeingAdded(o)'
  BY DEF BeingAdded
<1>2. \A id \in NodeId : BeingDropped(id) => BeingDropped(id)'
  BY DEF BeingDropped
<1>3. HashKeys'
  BY DEF HashInv, HashKeys
<1>4. HashEntries'
  <2> SUFFICES ASSUME NEW k \in DOMAIN node_hash_map_, node_hash_map_[k] # SelfPtr,
                      node_id[node_hash_map_[k]] \notin raced
               PROVE  \/ node_hash_map_[k] \in nodes_
                      \/ BeingDropped(node_id[node_hash_map_[k]])'
    BY DEF HashEntries
  <2>1. node_id[node_hash_map_[k]] \in NodeId
    BY RoutingTableAssumption DEF TypeOK, IsMapTo
  <2> QED BY <1>2, <2>1 DEF HashInv, HashEntries
<1>5. HashesKept'
  BY <1>1 DEF HashInv, HashesKept, TypeOK
<1>6. HashWindows'
  BY DEF HashInv, HashWindows, Same
<1> QED BY <1>3, <1>4, <1>5, <1>6 DEF HashInv

(* Keys and nodes match after every write to the hash map.                 *)
LEMMA HashKeysStep ==
    ASSUME TypeOK, HashKeys, NEW t \in Thread, StoreStep(t) PROVE HashKeys'
<1> USE DEF HashKeys
<1>1. CASE AddNodeHashMap(t)
  <2>1. node[t] \in NodeInfoPtr /\ node[t] # SelfPtr
    BY <1>1, RoutingTableAssumption DEF AddNodeHashMap, TypeOK, HasNoNode
  <2> QED BY <1>1, <2>1 DEF AddNodeHashMap, MapInsert
<1>2. CASE DropNodeHashMap(t)
  BY <1>2 DEF DropNodeHashMap, MapErase, Restrict
<1>3. CASE PushNode(t) \/ AddNodeIdMap(t) \/ DropNodeNodes(t) \/ DropNodeIdMap(t)
  BY <1>3 DEF PushNode, AddNodePush, AddNodeIdMap, DropNodeNodes, DropNodeIdMap
<1> QED BY <1>1, <1>2, <1>3 DEF StoreStep

(* The windows: whoever adds or drops a peer meanwhile makes it raced.     *)
LEMMA HashWindowsStep ==
    ASSUME TypeOK, IndexInv, HashWindows, NEW t \in Thread, StoreStep(t)
    PROVE  HashWindows'
<1>1. PICK id : id = node_id[node[t]]
  OBVIOUS
<1>2. /\ node[t] \in NodeInfoPtr /\ id \in NodeId
      /\ \A s \in Thread \ {t} : pc'[s] = pc[s] /\ node'[s] = node[s]
      /\ raced \subseteq raced'
      /\ pc'[t] \in Updating => node'[t] = node[t]
      /\ id \notin raced' =>
            \A s \in Thread \ {t} : pc[s] \in Updating => node_id[node[s]] # id
      /\ nodes_ \subseteq NodeInfoPtr
  BY <1>1, StoreStepShape DEF IndexInv
<1>3. \A x \in NodeId \ {id} : Same(nodes_', x) = Same(nodes_, x)
  BY <1>1, OtherPeersUntouched DEF IndexInv
<1> SUFFICES ASSUME NEW s \in Thread, node_id[node'[s]] \notin raced',
                    pc'[s] \in Adding \cup Dropping
             PROVE  /\ pc'[s] \in Adding => node'[s] \in nodes_'
                    /\ pc'[s] \in Dropping => Same(nodes_', node_id[node'[s]]) = {}
  BY DEF HashWindows, Same, Adding, Dropping
<1>4. CASE s # t
  <2>1. /\ pc'[s] = pc[s] /\ node'[s] = node[s] /\ node[s] \in NodeInfoPtr
        /\ node_id[node[s]] \in NodeId /\ node_id[node[s]] # id
        /\ node_id[node[s]] \notin raced
    BY <1>1, <1>2, <1>4, RoutingTableAssumption
       DEF Adding, Dropping, Updating, TypeOK, HasNoNode
  <2>2. Same(nodes_', node_id[node[s]]) = Same(nodes_, node_id[node[s]])
    BY <1>3, <2>1
  <2> QED BY <2>1, <2>2 DEF HashWindows, Same
<1>5. CASE s = t
  <2>1. node'[t] = node[t] /\ id \notin raced' /\ id \notin raced
    BY <1>1, <1>2, <1>5 DEF Adding, Dropping, Updating
  <2>2. CASE PushNode(t)
    BY <1>5, <2>1, <2>2 DEF PushNode, AddNodePush, Goto, TypeOK, Dropping
  <2>3. CASE AddNodeIdMap(t)
    BY <1>1, <1>5, <2>1, <2>3
       DEF AddNodeIdMap, Goto, TypeOK, HashWindows, Adding, Dropping
  <2>4. CASE DropNodeNodes(t)
    <3>1. pc'[t] = "drop_id"
      BY <2>4 DEF DropNodeNodes, Goto, TypeOK
    <3>2. Same(nodes_', id) = {}
      BY <1>1, <1>2, <2>1, <3>1, <2>4, PeerStep DEF StoreStep
    <3> QED BY <1>1, <1>5, <2>1, <3>1, <3>2 DEF Adding
  <2>5. CASE DropNodeIdMap(t)
    BY <1>1, <1>5, <2>1, <2>5
       DEF DropNodeIdMap, Goto, TypeOK, HashWindows, Adding, Dropping, Same
  <2>6. CASE AddNodeHashMap(t) \/ DropNodeHashMap(t)
    BY <1>5, <2>6 DEF AddNodeHashMap, DropNodeHashMap, Goto, TypeOK, Adding, Dropping
  <2> QED BY <2>2, <2>3, <2>4, <2>5, <2>6 DEF StoreStep
<1> QED BY <1>4, <1>5

(* An entry outlives its node in nodes_ only until DropNode comes to the   *)
(* hash map, and then it is found under the peer's hash.                   *)
LEMMA HashEntriesStep ==
    ASSUME HashOfPeer, TypeOK, IndexInv, HashInv, NEW t \in Thread, StoreStep(t)
    PROVE  HashEntries'
<1>1. PICK id : id = node_id[node[t]]
  OBVIOUS
<1>2. /\ node[t] \in NodeInfoPtr /\ id \in NodeId
      /\ \A s \in Thread \ {t} : pc'[s] = pc[s] /\ node'[s] = node[s]
      /\ raced \subseteq raced' /\ nodes_ \subseteq NodeInfoPtr
  BY <1>1, StoreStepShape DEF IndexInv
<1>3. \A x \in NodeId \ {id} : Same(nodes_', x) = Same(nodes_, x)
  BY <1>1, OtherPeersUntouched DEF IndexInv
<1> SUFFICES ASSUME NEW k \in DOMAIN node_hash_map_', NEW n, n = node_hash_map_'[k],
                    n # SelfPtr, node_id[n] \notin raced'
             PROVE  n \in nodes_' \/ BeingDropped(node_id[n])'
  BY DEF HashEntries
<1>4. CASE AddNodeHashMap(t) /\ k \notin DOMAIN node_hash_map_
  <2>1. n = node[t] /\ nodes_' = nodes_ /\ pc[t] = "add_hash" /\ raced' = raced
    BY <1>4 DEF AddNodeHashMap, MapInsert
  <2> QED BY <2>1 DEF HashInv, HashWindows, Adding
<1>5. CASE ~(AddNodeHashMap(t) /\ k \notin DOMAIN node_hash_map_)
  <2>1. k \in DOMAIN node_hash_map_ /\ n = node_hash_map_[k]
    <3>1. CASE AddNodeHashMap(t)
      BY <1>5, <3>1 DEF AddNodeHashMap, MapInsert
    <3>2. CASE DropNodeHashMap(t)
      BY <3>2 DEF DropNodeHashMap, MapErase, Restrict
    <3>3. CASE PushNode(t) \/ AddNodeIdMap(t) \/ DropNodeNodes(t) \/ DropNodeIdMap(t)
      BY <3>3 DEF PushNode, AddNodePush, AddNodeIdMap, DropNodeNodes, DropNodeIdMap
    <3> QED BY <3>1, <3>2, <3>3 DEF StoreStep
  <2>2. n \in NodeInfoPtr /\ node_id[n] \in NodeId /\ hash64[n] = k
    BY <2>1, RoutingTableAssumption DEF TypeOK, IsMapTo, HashInv, HashKeys
  <2>3. n \in nodes_ \/ BeingDropped(node_id[n])
    BY <1>2, <2>1 DEF HashInv, HashEntries
  <2>4. CASE node_id[n] # id
    <3>1. n \in nodes_ => n \in nodes_'
      BY <1>3, <2>2, <2>4 DEF Same
    <3>2. BeingDropped(node_id[n]) => BeingDropped(node_id[n])'
      BY <1>1, <1>2, <2>4 DEF BeingDropped
    <3> QED BY <2>3, <3>1, <3>2
  <2>5. CASE node_id[n] = id /\ ~BeingDropped(id)'
    <3>1. CASE DropNodeNodes(t) \/ DropNodeIdMap(t)
      BY <1>1, <2>5, <3>1
         DEF BeingDropped, Dropping, DropNodeNodes, DropNodeIdMap, Goto, TypeOK
    <3>2. CASE DropNodeHashMap(t)
      <4>1. k # hash64[node[t]]
        BY <3>2, <2>1 DEF DropNodeHashMap, MapErase, Restrict
      <4> QED BY <1>1, <1>2, <2>2, <2>5, <4>1 DEF HashOfPeer
    <3>3. CASE PushNode(t) \/ AddNodeIdMap(t) \/ AddNodeHashMap(t)
      <4>1. nodes_ \subseteq nodes_' /\ pc[t] \notin Dropping
        BY <3>3 DEF PushNode, AddNodePush, AddNodeIdMap, AddNodeHashMap, Dropping
      <4>2. ~BeingDropped(id)
        BY <1>2, <2>5, <4>1 DEF BeingDropped
      <4> QED BY <2>3, <2>5, <4>1, <4>2
    <3> QED BY <3>1, <3>2, <3>3 DEF StoreStep
  <2> QED BY <2>4, <2>5
<1> QED BY <1>4, <1>5

(* A node in nodes_ whose hash is its own keeps its entry: AddNode finds   *)
(* the key free or taken by this very object, and only DropNode of this    *)
(* peer erases it.                                                         *)
LEMMA HashesKeptStep ==
    ASSUME TypeOK, IndexInv, HashInv, NEW t \in Thread, StoreStep(t)
    PROVE  HashesKept'
<1>1. PICK id : id = node_id[node[t]]
  OBVIOUS
<1>2. /\ node[t] \in NodeInfoPtr /\ id \in NodeId
      /\ \A s \in Thread \ {t} : pc'[s] = pc[s] /\ node'[s] = node[s]
      /\ raced \subseteq raced' /\ nodes_ \subseteq NodeInfoPtr
      /\ pc'[t] \in Updating => node'[t] = node[t]
      /\ id \notin raced' =>
            \A s \in Thread \ {t} : pc[s] \in Updating => node_id[node[s]] # id
  BY <1>1, StoreStepShape DEF IndexInv
<1> SUFFICES ASSUME NEW o \in nodes_', OwnHash(o), node_id[o] \notin raced',
                    ~BeingAdded(o)'
             PROVE  hash64[o] \in DOMAIN node_hash_map_' /\ node_hash_map_'[hash64[o]] = o
  BY DEF HashesKept
<1>3. CASE PushNode(t)
  <2>1. o # node[t]
    BY <1>3 DEF PushNode, AddNodePush, Goto, TypeOK, BeingAdded, Adding
  <2>2. o \in nodes_ /\ node_hash_map_' = node_hash_map_ /\ pc[t] \notin Adding
    BY <1>3, <2>1 DEF PushNode, AddNodePush, Adding
  <2>3. ~BeingAdded(o)
    BY <1>2, <2>2 DEF BeingAdded
  <2> QED BY <1>2, <2>2, <2>3 DEF HashInv, HashesKept
<1>4. CASE AddNodeIdMap(t) \/ DropNodeNodes(t) \/ DropNodeIdMap(t)
  <2>1. /\ o \in nodes_ /\ node_hash_map_' = node_hash_map_
        /\ pc[t] \in Adding => pc'[t] \in Adding
        /\ pc'[t] \in Updating
    BY <1>4 DEF AddNodeIdMap, DropNodeNodes, DropNodeIdMap, Goto, TypeOK, Adding, Updating
  <2>2. ~BeingAdded(o)
    BY <1>2, <2>1 DEF BeingAdded
  <2> QED BY <1>2, <2>1, <2>2 DEF HashInv, HashesKept
<1>5. CASE DropNodeHashMap(t)
  <2>1. /\ o \in nodes_ /\ o \in NodeInfoPtr /\ raced' = raced /\ pc[t] = "drop_hash"
        /\ node_hash_map_' = MapErase(node_hash_map_, hash64[node[t]])
    BY <1>2, <1>5 DEF DropNodeHashMap
  <2>2. ~BeingAdded(o)
    BY <1>2, <2>1 DEF BeingAdded, Adding
  <2>3. hash64[o] \in DOMAIN node_hash_map_ /\ node_hash_map_[hash64[o]] = o
    BY <2>1, <2>2 DEF HashInv, HashesKept
  <2>4. node_id[o] # id
    BY <1>1, <2>1 DEF HashInv, HashWindows, Dropping, Same
  <2>5. hash64[o] # hash64[node[t]]
    BY <1>1, <1>2, <2>4 DEF OwnHash
  <2> QED BY <2>1, <2>3, <2>5 DEF MapErase, Restrict
<1>6. CASE AddNodeHashMap(t)
  <2>1. /\ o \in nodes_ /\ o \in NodeInfoPtr /\ raced' = raced /\ pc[t] = "add_hash"
        /\ node_hash_map_' = MapInsert(node_hash_map_, hash64[node[t]], node[t])
    BY <1>2, <1>6 DEF AddNodeHashMap
  <2>2. CASE o # node[t]
    <3>1. ~BeingAdded(o)
      BY <1>2, <2>2 DEF BeingAdded
    <3>2. hash64[o] \in DOMAIN node_hash_map_ /\ node_hash_map_[hash64[o]] = o
      BY <2>1, <3>1 DEF HashInv, HashesKept
    <3> QED BY <2>1, <3>2 DEF MapInsert
  <2>3. CASE o = node[t] /\ hash64[o] \notin DOMAIN node_hash_map_
    BY <2>1, <2>3 DEF MapInsert
  <2>4. CASE o = node[t] /\ hash64[o] \in DOMAIN node_hash_map_
    <3>1. PICK e : e = node_hash_map_[hash64[o]]
      OBVIOUS
    <3>2. e # SelfPtr /\ e \in NodeInfoPtr /\ hash64[e] = hash64[o]
      BY <2>4, <3>1 DEF HashInv, HashKeys, OwnHash, TypeOK, IsMapTo
    <3>3. node_id[e] = id /\ node_id[o] = id
      BY <1>1, <2>4, <3>2 DEF OwnHash
    <3>4. ~BeingDropped(id)
      BY <1>1, <1>2, <2>1, <3>3 DEF BeingDropped, Dropping, Updating
    <3>5. e \in nodes_
      BY <2>1, <2>4, <3>1, <3>2, <3>3, <3>4 DEF HashInv, HashEntries
    <3>6. e = o
      BY <2>1, <3>3, <3>5, UnracedAreDistinct
    <3> QED BY <2>1, <2>4, <3>1, <3>6 DEF MapInsert
  <2> QED BY <2>2, <2>3, <2>4
<1> QED BY <1>3, <1>4, <1>5, <1>6 DEF StoreStep

(* When no call is running, node_hash_map_ has no node that DropNode took  *)
(* out of nodes_, and it has every node whose hash no other peer and not   *)
(* the local node shares, unless two calls for that peer overlapped:       *)
(* virtual nodes that share a key do no harm to others.                    *)
THEOREM HashMapAgreesUnlessRaced == ASSUME HashOfPeer PROVE Spec => []HashMapAgrees
<1>1. Init => HashInv
  BY RoutingTableAssumption
     DEF Init, HashInv, HashKeys, HashEntries, HashesKept, HashWindows, Adding, Dropping
<1>2. TypeOK /\ IndexInv /\ HashInv /\ [Next]_vars => HashInv'
  <2> SUFFICES ASSUME TypeOK, IndexInv, HashInv, [Next]_vars PROVE HashInv'
    OBVIOUS
  <2>1. CASE \A t \in Thread : ~StoreStep(t)
    BY <2>1, OtherStepsUntouched, UntouchedKeepsHashInv
  <2>2. ASSUME NEW t \in Thread, StoreStep(t) PROVE HashInv'
    BY <2>2, HashKeysStep, HashEntriesStep, HashesKeptStep, HashWindowsStep DEF HashInv
  <2> QED BY <2>1, <2>2
<1>3. HashInv => HashMapAgrees
  <2> SUFFICES ASSUME HashInv, Quiet PROVE HashMapAgrees
    BY DEF HashMapAgrees
  <2>1. \A id : ~BeingDropped(id) /\ ~BeingAdded(id)
    BY DEF Quiet, BeingDropped, BeingAdded, Dropping, Adding
  <2>2. ASSUME NEW n \in Range(node_hash_map_) \ {SelfPtr}, node_id[n] \notin raced
        PROVE  n \in nodes_
    <3>1. PICK k \in DOMAIN node_hash_map_ : n = node_hash_map_[k]
      BY DEF Range
    <3> QED BY <2>1, <2>2, <3>1 DEF HashInv, HashEntries
  <2>3. ASSUME NEW o \in nodes_, OwnHash(o), node_id[o] \notin raced
        PROVE  hash64[o] \in DOMAIN node_hash_map_ /\ node_hash_map_[hash64[o]] = o
    BY <2>1, <2>3 DEF HashInv, HashesKept
  <2> QED BY <2>2, <2>3 DEF HashMapAgrees
<1> QED BY <1>1, <1>2, <1>3, TypeCorrect, IndexInvHolds, PTL DEF Spec
=============================================================================
