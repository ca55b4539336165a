---------------------------- MODULE JoinProofs ----------------------------
(***************************************************************************)
(* Joining and rejoining for any peers, any number of handler threads,     *)
(* handshakes and heartbeat failures, and any interleaving of the two      *)
(* joining threads with the handlers, the drops and UnInit.                *)
(***************************************************************************)
EXTENDS Join, FiniteSetTheorems, TLAPS

(***************************************************************************)
(* Types.  That only accepted peers are in the map is not inductive: the   *)
(* map gets what AddNode has pushed in an earlier step.                    *)
(***************************************************************************)
PushedAreAccepted ==
    \A h \in Handler : /\ handler[h] = "id" => node_ptr[h] \cap Rejected = {}
                       /\ \A p, q \in node_ptr[h] : p = q

TypeInv == TypeOK /\ PushedAreAccepted

(* A thread goes to a label with endpoints that are peers.                 *)
LEMMA JoinerTypes ==
    ASSUME TypeInv, NEW j \in Joiner, JoinerStep(j)
    PROVE  TypeInv'
<1> USE JoinAssumption DEF flags, dropper, store, joiners, handlers, history, Known
<1>1. CASE MultiJoin(j) \/ MultiJoinWait(j)
  BY <1>1 DEF TypeInv, TypeOK, PushedAreAccepted, MultiJoin, MultiJoinWait, ReturnOrSend, Goto
<1>2. ASSUME NEW reached \in SUBSET boot_endpoints[j], Bootstrap(j, reached) PROVE TypeInv'
  BY <1>2 DEF TypeInv, TypeOK, PushedAreAccepted, Bootstrap, Goto
<1>3. CASE RejoinCheck
  <2>1. joined_' \in BOOLEAN
    BY <1>3 DEF RejoinCheck
  <2> QED BY <1>3, <2>1 DEF TypeInv, TypeOK, PushedAreAccepted, RejoinCheck, Goto, Joiner
<1>4. CASE RejoinStart
  BY <1>4 DEF TypeInv, TypeOK, PushedAreAccepted, RejoinStart, Goto, Joiner
<1> QED BY <1>1, <1>2, <1>3, <1>4 DEF JoinerStep

(* A handler works on the peer of its message, which AddNode accepts or    *)
(* refuses.                                                                *)
LEMMA HandlerTypes ==
    ASSUME TypeInv, NEW h \in Handler, NEW p \in Peer,
           \/ AddNodePush(h, p) \/ AddNodeIdMap(h, p) \/ PushBootstrapNode(h, p) \/ SetJoin(h, p)
           \/ HandleBootstrapJoinResponse(h, p) \/ HandleHandshake(h, p)
    PROVE  TypeInv'
<1> USE JoinAssumption DEF flags, dropper, store, joiners, handlers, history, Known,
        Receive, Continue, Return
<1>1. CASE AddNodePush(h, p)
  <2>1. /\ nodes_' \in [Peer -> Nat] /\ Known' \cap Rejected = {}
    BY <1>1 DEF TypeInv, TypeOK, AddNodePush
  <2>2. /\ handler' \in [Handler -> {"idle", "add", "id", "added", "failed", "set"}]
        /\ UNCHANGED <<node_ptr, via>>
    BY <1>1 DEF TypeInv, TypeOK, AddNodePush
  <2>3. PushedAreAccepted'
    <3>0. \A g \in Handler : \A q, r \in node_ptr[g] : q = r
      BY DEF TypeInv, PushedAreAccepted
    <3>1. SUFFICES ASSUME NEW g \in Handler, handler'[g] = "id"
                   PROVE  node_ptr[g] \cap Rejected = {}
      BY <2>2, <3>0, Zenon DEF PushedAreAccepted
    <3>2. CASE g = h
      <4>1. p \in node_ptr[h] /\ p \notin Rejected
        BY <1>1, <3>1, <3>2 DEF TypeInv, TypeOK, AddNodePush
      <4>2. \A q \in node_ptr[h] : q = p
        BY <3>0, <4>1
      <4> QED BY <3>2, <4>1, <4>2
    <3>3. CASE g # h
      BY <1>1, <3>1, <3>3 DEF TypeInv, TypeOK, PushedAreAccepted, AddNodePush
    <3> QED BY <3>2, <3>3
  <2> QED BY <1>1, <2>1, <2>2, <2>3 DEF TypeInv, TypeOK, AddNodePush
<1>2. CASE AddNodeIdMap(h, p)
  BY <1>2 DEF TypeInv, TypeOK, PushedAreAccepted, AddNodeIdMap
<1>3. CASE PushBootstrapNode(h, p)
  BY <1>3 DEF TypeInv, TypeOK, PushedAreAccepted, PushBootstrapNode
<1>4. CASE SetJoin(h, p)
  <2>1. Cardinality({p}) = 1
    BY FS_Singleton
  <2>2. unaided' \in BOOLEAN
    BY <1>4 DEF SetJoin
  <2> QED BY <1>4, <2>1, <2>2 DEF TypeInv, TypeOK, PushedAreAccepted, SetJoin
<1>5. CASE HandleBootstrapJoinResponse(h, p)
  BY <1>5 DEF TypeInv, TypeOK, PushedAreAccepted, HandleBootstrapJoinResponse
<1>6. CASE HandleHandshake(h, p)
  BY <1>6 DEF TypeInv, TypeOK, PushedAreAccepted, HandleHandshake
<1> QED BY <1>1, <1>2, <1>3, <1>4, <1>5, <1>6

(* The rest: drops, the endpoint cache and UnInit.                         *)
LEMMA OtherTypes ==
    ASSUME TypeInv,
           \/ DumpPublicEndpoints \/ UnInit \/ UNCHANGED vars
           \/ \E p \in Peer : OnHeartbeatFailed(p) \/ DropNodeNodes(p) \/ DropNodeIdMap(p)
    PROVE  TypeInv'
<1> USE JoinAssumption DEF flags, dropper, store, joiners, handlers, history, Known
<1>1. CASE DumpPublicEndpoints \/ UnInit
  BY <1>1 DEF TypeInv, TypeOK, PushedAreAccepted, DumpPublicEndpoints, UnInit
<1>2. CASE UNCHANGED vars
  BY <1>2 DEF TypeInv, TypeOK, PushedAreAccepted, vars
<1>3. ASSUME NEW p \in Peer, OnHeartbeatFailed(p) PROVE TypeInv'
  BY <1>3 DEF TypeInv, TypeOK, PushedAreAccepted, OnHeartbeatFailed
<1>4. ASSUME NEW p \in Peer, DropNodeNodes(p) PROVE TypeInv'
  <2>1. nodes_' \in [Peer -> Nat] /\ Known' \subseteq Known
    BY <1>4 DEF TypeInv, TypeOK, DropNodeNodes
  <2>2. Known' \cap Rejected = {}
    BY <2>1 DEF TypeInv, TypeOK
  <2> QED BY <1>4, <2>1, <2>2 DEF TypeInv, TypeOK, PushedAreAccepted, DropNodeNodes
<1>5. ASSUME NEW p \in Peer, DropNodeIdMap(p) PROVE TypeInv'
  <2>1. drops \in Nat /\ drops > 0
    BY <1>5 DEF TypeInv, TypeOK, DropNodeIdMap
  <2>2. drops' \in Nat /\ (failed_nodes' # {} => drops' > 0)
    BY <1>5, <2>1 DEF DropNodeIdMap
  <2> QED BY <1>5, <2>2 DEF TypeInv, TypeOK, PushedAreAccepted, DropNodeIdMap
<1> QED BY <1>1, <1>2, <1>3, <1>4, <1>5

(* TypeInv is inductive.                                                   *)
LEMMA TypeInvHolds == Spec => []TypeInv
<1>1. Init => TypeInv
  <2> SUFFICES ASSUME Init PROVE TypeInv
    OBVIOUS
  <2>1. Cardinality(bootstrap_ip_) = 0
    BY FS_EmptySet DEF Init
  <2>2. pc \in [Joiner -> {"idle", "rejoin", "join", "send", "wait"}]
    BY DEF Init
  <2>3. boot_endpoints \in [Joiner -> SUBSET Peer]
    BY JoinAssumption DEF Init
  <2>4. {joined_, after_join_, destroy_, erased, unaided} \subseteq BOOLEAN
    BY DEF Init
  <2>5. /\ handler \in [Handler -> {"idle", "add", "id", "added", "failed", "set"}]
        /\ node_ptr \in [Handler -> SUBSET Peer]
        /\ via \in [Handler -> {"response", "handshake"}] /\ PushedAreAccepted
    BY DEF Init, PushedAreAccepted
  <2>6. handshakes \in 0 .. MaxHandshakes /\ failures \in 0 .. MaxFailures
    BY JoinAssumption DEF Init
  <2>7. /\ nodes_ \in [Peer -> Nat] /\ Known = {}
    BY DEF Init, Known
  <2>8. /\ node_id_map_ = {} /\ failed_nodes = {} /\ drops = 0 /\ bootstrap_nodes_ = {}
        /\ bootstrap_ip_ = {} /\ public_endpoints_ = {} /\ requests = {}
    BY DEF Init
  <2> QED BY <2>1, <2>2, <2>3, <2>4, <2>5, <2>6, <2>7, <2>8 DEF TypeInv, TypeOK
<1>2. TypeInv /\ [Next]_vars => TypeInv'
  BY JoinerTypes, HandlerTypes, OtherTypes DEF Next, HandlerStep, DropStep
<1> QED BY <1>1, <1>2, PTL DEF Spec

(* For any peers and threads: flags, tables and threads keep their types;  *)
(* a peer that AddNode refuses never enters the vector or the map, and     *)
(* SetJoin keeps one bootstrap node.                                       *)
THEOREM TypeCorrect == Spec => []TypeOK
<1>1. TypeInv => TypeOK
  BY DEF TypeInv
<1> QED BY <1>1, TypeInvHolds, PTL

-----------------------------------------------------------------------------
(***************************************************************************)
(* RejoinKnowsSomebody.  Rejoin runs after a join only; a join that was    *)
(* not unaided was set when a bootstrap node had been pushed.              *)
(***************************************************************************)
SomebodyKnown == bootstrap_nodes_ # {} \/ unaided

JoinsLeaveTraces ==
    /\ \A h \in Handler : handler[h] = "set" => bootstrap_nodes_ # {}
    /\ joined_ => after_join_
    /\ after_join_ => SomebodyKnown
    /\ pc["timer"] # "idle" => after_join_

RejoinInv == JoinsLeaveTraces /\ RejoinKnowsSomebody

(* bootstrap_nodes_ only grows, and only SetJoin joins.                    *)
LEMMA RejoinStep ==
    ASSUME TypeOK, RejoinInv, [Next]_vars
    PROVE  RejoinInv'
<1> USE JoinAssumption DEF RejoinInv, JoinsLeaveTraces, SomebodyKnown, RejoinKnowsSomebody,
        TypeOK, flags, dropper, store, joiners, handlers, history, Joiner,
        Receive, Continue, Return
<1>1. CASE UNCHANGED vars
  BY <1>1 DEF vars
<1>2. ASSUME NEW j \in Joiner, MultiJoin(j) \/ MultiJoinWait(j) PROVE RejoinInv'
  BY <1>2 DEF MultiJoin, MultiJoinWait, ReturnOrSend, Goto
<1>3. ASSUME NEW j \in Joiner, NEW reached \in SUBSET boot_endpoints[j], Bootstrap(j, reached)
      PROVE  RejoinInv'
  BY <1>3 DEF Bootstrap, Goto
<1>4. CASE RejoinCheck
  BY <1>4 DEF RejoinCheck, Goto
<1>5. CASE RejoinStart
  BY <1>5 DEF RejoinStart, Goto
<1>6. CASE DumpPublicEndpoints \/ UnInit
  BY <1>6 DEF DumpPublicEndpoints, UnInit
<1>7. ASSUME NEW h \in Handler, NEW p \in Peer, AddNodePush(h, p) \/ AddNodeIdMap(h, p)
      PROVE  RejoinInv'
  BY <1>7 DEF AddNodePush, AddNodeIdMap
<1>8. ASSUME NEW h \in Handler, NEW p \in Peer, PushBootstrapNode(h, p) PROVE RejoinInv'
  BY <1>8 DEF PushBootstrapNode
<1>9. ASSUME NEW h \in Handler, NEW p \in Peer, SetJoin(h, p) PROVE RejoinInv'
  <2>1. SomebodyKnown'
    BY <1>9 DEF SetJoin
  <2> QED BY <1>9, <2>1 DEF SetJoin
<1>10. ASSUME NEW h \in Handler, NEW p \in Peer,
              HandleBootstrapJoinResponse(h, p) \/ HandleHandshake(h, p)
       PROVE  RejoinInv'
  BY <1>10 DEF HandleBootstrapJoinResponse, HandleHandshake
<1>11. ASSUME NEW p \in Peer, OnHeartbeatFailed(p) \/ DropNodeNodes(p) \/ DropNodeIdMap(p)
       PROVE  RejoinInv'
  BY <1>11 DEF OnHeartbeatFailed, DropNodeNodes, DropNodeIdMap
<1> QED BY <1>1, <1>2, <1>3, <1>4, <1>5, <1>6, <1>7, <1>8, <1>9, <1>10, <1>11
        DEF Next, JoinerStep, HandlerStep, DropStep

(* Unless a handshake has joined the node before any bootstrap node had    *)
(* answered, Rejoin never starts its MultiJoin without an endpoint, also   *)
(* when the endpoint cache has not been filled yet.                        *)
THEOREM RejoinHasWhomToAsk == Spec => []RejoinKnowsSomebody
<1>1. Init => RejoinInv
  BY DEF Init, RejoinInv, JoinsLeaveTraces, SomebodyKnown, RejoinKnowsSomebody, Joiner
<1>2. TypeOK /\ RejoinInv /\ [Next]_vars => RejoinInv'
  BY RejoinStep
<1>3. RejoinInv => RejoinKnowsSomebody
  BY DEF RejoinInv
<1> QED BY <1>1, <1>2, <1>3, TypeCorrect, PTL DEF Spec

-----------------------------------------------------------------------------
(* For any peers, threads and number of failures: a connected node stays   *)
(* connected while OnHeartbeatFailed drops nobody; Rejoin does not take    *)
(* the join of a node back that has a peer.                                *)
THEOREM ConnectedStays == Spec => OnlyFailuresDisconnect
<1>1. TypeOK /\ [Next]_vars => [Connected /\ failed_nodes = {} => Connected']_vars
  <2> SUFFICES ASSUME TypeOK, [Next]_vars, Connected, failed_nodes = {} PROVE Connected'
    OBVIOUS
  <2> USE DEF Connected, flags, dropper, store, joiners, handlers, history, Known
  <2>1. CASE UNCHANGED vars
    BY <2>1 DEF vars
  <2>2. ASSUME NEW j \in Joiner, JoinerStep(j) PROVE Connected'
    BY <2>2 DEF JoinerStep, MultiJoin, Bootstrap, MultiJoinWait, RejoinCheck, RejoinStart
  <2>3. CASE DumpPublicEndpoints \/ UnInit
    BY <2>3 DEF DumpPublicEndpoints, UnInit
  <2>4. ASSUME NEW h \in Handler, NEW p \in Peer, AddNodePush(h, p) PROVE Connected'
    <3>1. Known \subseteq Known' /\ joined_' = joined_
      BY <2>4 DEF AddNodePush, TypeOK
    <3> QED BY <3>1
  <2>5. ASSUME NEW h \in Handler, NEW p \in Peer,
               \/ AddNodeIdMap(h, p) \/ PushBootstrapNode(h, p) \/ SetJoin(h, p)
               \/ HandleBootstrapJoinResponse(h, p) \/ HandleHandshake(h, p)
        PROVE  Connected'
    BY <2>5 DEF AddNodeIdMap, PushBootstrapNode, SetJoin, HandleBootstrapJoinResponse,
                HandleHandshake
  <2>6. ASSUME NEW p \in Peer, OnHeartbeatFailed(p) PROVE Connected'
    BY <2>6 DEF OnHeartbeatFailed
  <2>7. ASSUME NEW p \in Peer, DropNodeNodes(p) \/ DropNodeIdMap(p) PROVE FALSE
    BY <2>7 DEF DropNodeNodes, DropNodeIdMap
  <2> QED BY <2>1, <2>2, <2>3, <2>4, <2>5, <2>6, <2>7 DEF Next, HandlerStep, DropStep
<1> QED BY <1>1, TypeCorrect, PTL DEF Spec, OnlyFailuresDisconnect
=============================================================================
