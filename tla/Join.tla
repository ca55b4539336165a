-------------------------------- MODULE Join --------------------------------
(***************************************************************************)
(* Joining the network and joining it again (src/routing_table.cc):        *)
(* MultiJoin asks bootstrap nodes until one of their answers sets joined_; *)
(* the timer's Rejoin notices that the table has run empty and starts over *)
(* from the endpoints that BootstrapCacheHelper has collected.             *)
(* Two threads may be inside MultiJoin, the application's and the timer's; *)
(* answers, handshakes and heartbeat failures arrive on other threads.     *)
(*                                                                         *)
(* Of the node store nodes_ and node_id_map_ are kept, which AddNode and   *)
(* DropNode update one after the other, under different locks, on any      *)
(* thread; two AddNode of one peer may both push it.  The network may lose *)
(* a request or its answer.  The waiting times of MultiJoin (4 to 128      *)
(* seconds) are left to the interleaving.                                  *)
(***************************************************************************)
EXTENDS Naturals, FiniteSets

CONSTANTS
    Peer,
    Handler,      \* the threads that handle messages
    Config,       \* boot_endpoints of the application's MultiJoin
    Public,       \* peers with a public endpoint
    Rejected,     \* peers that AddNode refuses: nat type unknown, bucket full
    Virtual,      \* peers with the addresses of the local process
    MaxHandshakes, MaxFailures    \* bounds on handshakes and heartbeat failures

ASSUME JoinAssumption ==
    /\ Config \subseteq Peer /\ Public \subseteq Peer
    /\ Rejected \subseteq Peer /\ Virtual \subseteq Peer
    /\ {MaxHandshakes, MaxFailures} \subseteq Nat

VARIABLES
    joined_, after_join_,
    destroy_,                  \* set by UnInit
    nodes_,                    \* nodes_[p]: how often p is in the vector
    node_id_map_,              \* peers in the map
    failed_nodes,              \* {} or the peer that OnHeartbeatFailed drops
    drops,                     \* calls of DropNode it has left
    erased,                    \* is the current one between vector and map?
    bootstrap_nodes_,
    bootstrap_ip_,             \* {} or the peer that SetJoin remembered
    public_endpoints_,         \* of BootstrapCacheHelper
    pc,                        \* threads in MultiJoin: "idle", "rejoin", "join", "send", "wait"
    boot_endpoints,            \* argument of each thread's MultiJoin
    requests,                  \* peers with a BootstrapJoinRequest that they will answer
    handler,                   \* handler[h]: where thread h is in its message
    node_ptr,                  \* node_ptr[h]: {} or the sender of the message
    via,                       \* via[h]: the message, "response" or "handshake"
    handshakes, failures,      \* so far
    unaided                    \* a handshake has joined the node while bootstrap_nodes_ was empty

Joiner == {"app", "timer"}

flags == <<joined_, after_join_, bootstrap_ip_, destroy_>>
dropper == <<failed_nodes, drops, erased>>
store == <<nodes_, node_id_map_, dropper>>
joiners == <<pc, boot_endpoints, requests>>
handlers == <<handler, node_ptr, via, bootstrap_nodes_>>
history == <<handshakes, failures, unaided>>
vars == <<flags, store, joiners, handlers, public_endpoints_, history>>

Init ==
    /\ joined_ = FALSE /\ after_join_ = FALSE /\ destroy_ = FALSE
    /\ nodes_ = [p \in Peer |-> 0] /\ node_id_map_ = {}
    /\ failed_nodes = {} /\ drops = 0 /\ erased = FALSE
    /\ bootstrap_nodes_ = {} /\ bootstrap_ip_ = {} /\ public_endpoints_ = {}
    /\ pc = [j \in Joiner |-> IF j = "app" THEN "join" ELSE "idle"]
    /\ boot_endpoints = [j \in Joiner |-> IF j = "app" THEN Config ELSE {}]
    /\ requests = {}
    /\ handler = [h \in Handler |-> "idle"]
    /\ node_ptr = [h \in Handler |-> {}]
    /\ via = [h \in Handler |-> "response"]
    /\ handshakes = 0 /\ failures = 0 /\ unaided = FALSE

Known == {p \in Peer : nodes_[p] > 0}
Entries == UNION {{p} \X (1 .. nodes_[p]) : p \in Peer}

Goto(j, label) == pc' = [pc EXCEPT ![j] = label]

ReturnOrSend(j) ==
    /\ Goto(j, IF joined_ THEN "idle" ELSE "send")
    /\ boot_endpoints' = IF joined_ THEN [boot_endpoints EXCEPT ![j] = {}] ELSE boot_endpoints

(***************************************************************************)
(* MultiJoin and Rejoin.                                                   *)
(***************************************************************************)
MultiJoin(j) ==
    /\ pc[j] = "join" /\ ReturnOrSend(j)
    /\ UNCHANGED <<flags, store, requests, handlers, public_endpoints_, history>>

(* A request to every endpoint; reached are those whose answer will come.  *)
Bootstrap(j, reached) ==
    /\ pc[j] = "send" /\ Goto(j, "wait")
    /\ requests' = requests \cup reached
    /\ UNCHANGED <<flags, store, boot_endpoints, handlers, public_endpoints_, history>>

MultiJoinWaitBlind(j) ==                        \* mutant: joined_ is not looked at
    /\ pc[j] = "wait" /\ Goto(j, "send")
    /\ UNCHANGED <<flags, store, boot_endpoints, requests, handlers, public_endpoints_, history>>

(* bootstrap_cond_.wait_for: joined_, or the time is over.                 *)
MultiJoinWait(j) ==
    /\ pc[j] = "wait" /\ ReturnOrSend(j)
    /\ UNCHANGED <<flags, store, requests, handlers, public_endpoints_, history>>

RejoinCheckSome ==                              \* mutant: one virtual node is enough
    /\ pc["timer"] = "idle" /\ after_join_ /\ ~destroy_
    /\ joined_' = (joined_ /\ ~(Known = {} \/ Known \cap Virtual # {}))
    /\ Goto("timer", "rejoin")
    /\ UNCHANGED <<after_join_, bootstrap_ip_, destroy_, store, boot_endpoints, requests, handlers,
                   public_endpoints_, history>>

(* Rejoin under nodes_mutex_: is nobody there but virtual nodes of our own,*)
(* of which there are at most five?                                        *)
RejoinCheck ==
    /\ pc["timer"] = "idle" /\ after_join_ /\ ~destroy_
    /\ joined_' = (joined_ /\ ~(Cardinality(Entries) <= 5 /\ Known \subseteq Virtual))
    /\ Goto("timer", "rejoin")
    /\ UNCHANGED <<after_join_, bootstrap_ip_, destroy_, store, boot_endpoints, requests, handlers,
                   public_endpoints_, history>>

RejoinStart ==
    /\ pc["timer"] = "rejoin"
    /\ IF joined_
       THEN Goto("timer", "idle") /\ UNCHANGED boot_endpoints
       ELSE /\ boot_endpoints' = [boot_endpoints EXCEPT !["timer"] =
                                    public_endpoints_ \cup bootstrap_nodes_]
            /\ Goto("timer", "join")
    /\ UNCHANGED <<flags, store, requests, handlers, public_endpoints_, history>>

(***************************************************************************)
(* Handlers.  Answers come late or never; handshake responses come when    *)
(* they like.  Both call AddNode; only a join response needs its success.  *)
(***************************************************************************)
Receive(h, p, message) ==
    /\ handler[h] = "idle"
    /\ handler' = [handler EXCEPT ![h] = "add"]
    /\ node_ptr' = [node_ptr EXCEPT ![h] = {p}]
    /\ via' = [via EXCEPT ![h] = message]

Continue(h, label) == handler' = [handler EXCEPT ![h] = label] /\ UNCHANGED <<node_ptr, via>>

Return(h) ==
    /\ handler' = [handler EXCEPT ![h] = "idle"]
    /\ node_ptr' = [node_ptr EXCEPT ![h] = {}]
    /\ via' = [via EXCEPT ![h] = "response"]

HandleBootstrapJoinResponse(h, p) ==
    /\ p \in requests /\ requests' = requests \ {p}
    /\ Receive(h, p, "response")
    /\ UNCHANGED <<flags, store, pc, boot_endpoints, bootstrap_nodes_, public_endpoints_, history>>

HandleHandshake(h, p) ==
    /\ handshakes < MaxHandshakes /\ handshakes' = handshakes + 1
    /\ Receive(h, p, "handshake")
    /\ UNCHANGED <<flags, store, joiners, bootstrap_nodes_, public_endpoints_, failures, unaided>>

AddNodePushUnchecked(h, p) ==                   \* mutant: every node is accepted
    /\ handler[h] = "add" /\ p \in node_ptr[h]
    /\ IF p \in node_id_map_
       THEN Continue(h, "added") /\ UNCHANGED nodes_
       ELSE Continue(h, "id") /\ nodes_' = [nodes_ EXCEPT ![p] = @ + 1]
    /\ UNCHANGED <<flags, node_id_map_, dropper, joiners, bootstrap_nodes_, public_endpoints_, history>>

(* AddNode, up to push_back: kKadFailed, kKadNodeHasAdded or go on.        *)
AddNodePush(h, p) ==
    /\ handler[h] = "add" /\ p \in node_ptr[h]
    /\ \/ p \in Rejected /\ Continue(h, "failed") /\ UNCHANGED nodes_
       \/ p \notin Rejected /\ p \in node_id_map_ /\ Continue(h, "added") /\ UNCHANGED nodes_
       \/ /\ p \notin Rejected /\ p \notin node_id_map_ /\ Continue(h, "id")
          /\ nodes_' = [nodes_ EXCEPT ![p] = @ + 1]
    /\ UNCHANGED <<flags, node_id_map_, dropper, joiners, bootstrap_nodes_, public_endpoints_, history>>

AddNodeIdMap(h, p) ==
    /\ handler[h] = "id" /\ p \in node_ptr[h]
    /\ node_id_map_' = node_id_map_ \cup {p}
    /\ Continue(h, "added")
    /\ UNCHANGED <<flags, nodes_, dropper, joiners, bootstrap_nodes_, public_endpoints_, history>>

PushBootstrapNodeLate(h, p) ==                  \* mutant: the push is in the error branch
    /\ via[h] = "response" /\ handler[h] \in {"added", "failed"} /\ p \in node_ptr[h]
    /\ IF handler[h] = "added"
       THEN Continue(h, "set") /\ UNCHANGED bootstrap_nodes_
       ELSE Return(h) /\ bootstrap_nodes_' = bootstrap_nodes_ \cup {p}
    /\ UNCHANGED <<flags, store, joiners, public_endpoints_, history>>

(* After AddNode: remember the bootstrap node, and return if it failed.    *)
PushBootstrapNode(h, p) ==
    /\ via[h] = "response" /\ handler[h] \in {"added", "failed"} /\ p \in node_ptr[h]
    /\ bootstrap_nodes_' = bootstrap_nodes_ \cup {p}
    /\ IF handler[h] = "added" THEN Continue(h, "set") ELSE Return(h)
    /\ UNCHANGED <<flags, store, joiners, public_endpoints_, history>>

SetJoin(h, p) ==
    /\ \/ handler[h] = "set"
       \/ via[h] = "handshake" /\ handler[h] \in {"added", "failed"}
    /\ p \in node_ptr[h]
    /\ joined_' = TRUE /\ after_join_' = TRUE
    /\ bootstrap_ip_' = IF joined_ THEN bootstrap_ip_ ELSE {p}
    /\ unaided' = (unaided \/ (via[h] = "handshake" /\ ~joined_ /\ bootstrap_nodes_ = {}))
    /\ Return(h)
    /\ UNCHANGED <<destroy_, store, joiners, bootstrap_nodes_, public_endpoints_, handshakes, failures>>

(***************************************************************************)
(* OnHeartbeatFailed, called under the mutex of HeartbeatManager: DropNode *)
(* in two steps for every entry of the peer that it has found.             *)
(***************************************************************************)
OnHeartbeatFailed(p) ==
    /\ failures < MaxFailures /\ failures' = failures + 1
    /\ failed_nodes = {} /\ p \in Known
    /\ failed_nodes' = {p} /\ drops' = nodes_[p]
    /\ UNCHANGED <<flags, nodes_, node_id_map_, erased, joiners, handlers, public_endpoints_,
                   handshakes, unaided>>

DropNodeNodes(p) ==
    /\ p \in failed_nodes /\ ~erased /\ erased' = TRUE
    /\ nodes_' = [nodes_ EXCEPT ![p] = IF @ = 0 THEN 0 ELSE @ - 1]
    /\ UNCHANGED <<flags, node_id_map_, failed_nodes, drops, joiners, handlers,
                   public_endpoints_, history>>

DropNodeIdMap(p) ==
    /\ p \in failed_nodes /\ erased /\ erased' = FALSE
    /\ node_id_map_' = node_id_map_ \ {p}
    /\ drops' = drops - 1
    /\ failed_nodes' = IF drops = 1 THEN {} ELSE failed_nodes
    /\ UNCHANGED <<flags, nodes_, joiners, handlers, public_endpoints_, history>>

(***************************************************************************)
(* BootstrapCacheHelper: every minute, the public nodes of the table and   *)
(* the bootstrap node.                                                     *)
(***************************************************************************)
DumpPublicEndpoints ==
    /\ ~destroy_
    /\ public_endpoints_' = (Known \cap Public) \cup bootstrap_ip_
    /\ UNCHANGED <<flags, store, joiners, handlers, history>>

(* The timers end; a MultiJoin that runs does not look at destroy_.        *)
UnInit ==
    /\ ~destroy_ /\ destroy_' = TRUE
    /\ UNCHANGED <<joined_, after_join_, bootstrap_ip_, store, joiners, handlers,
                   public_endpoints_, history>>

-----------------------------------------------------------------------------
JoinerStep(j) == \/ MultiJoin(j) \/ MultiJoinWait(j)
                 \/ \E reached \in SUBSET boot_endpoints[j] : Bootstrap(j, reached)
                 \/ j = "timer" /\ (RejoinCheck \/ RejoinStart)

HandlerStep(h) ==
    \E p \in Peer : \/ AddNodePush(h, p) \/ AddNodeIdMap(h, p)
                    \/ PushBootstrapNode(h, p) \/ SetJoin(h, p)

DropStep == \E p \in Peer : DropNodeNodes(p) \/ DropNodeIdMap(p)

Next ==
    \/ \E j \in Joiner : JoinerStep(j)
    \/ DumpPublicEndpoints \/ UnInit \/ DropStep
    \/ \E p \in Peer : OnHeartbeatFailed(p)
    \/ \E h \in Handler : \/ HandlerStep(h)
                          \/ \E p \in Peer : HandleBootstrapJoinResponse(h, p) \/ HandleHandshake(h, p)

Spec == Init /\ [][Next]_vars

(* The application's thread and the handlers run, every answer of its      *)
(* bootstrap nodes that arrives is handled, and of the rounds of its       *)
(* MultiJoin, should it go on for ever, some reach all endpoints.          *)
AppFairness ==
    /\ WF_vars(JoinerStep("app")) /\ SF_vars(Bootstrap("app", boot_endpoints["app"]))
    /\ \A h \in Handler : WF_vars(HandlerStep(h))
    /\ \A p \in Config : SF_vars(\E h \in Handler : HandleBootstrapJoinResponse(h, p))

AppFairSpec == Spec /\ AppFairness

(* And so do the timers, the heartbeat and Rejoin's MultiJoin.             *)
FairSpec ==
    /\ AppFairSpec
    /\ WF_vars(JoinerStep("timer")) /\ SF_vars(Bootstrap("timer", boot_endpoints["timer"]))
    /\ WF_vars(DumpPublicEndpoints) /\ WF_vars(DropStep)
    /\ \A p \in Peer \ Config : SF_vars(\E h \in Handler : HandleBootstrapJoinResponse(h, p))
-----------------------------------------------------------------------------
(* Types of the flags, of the node store and of the threads.               *)
TypeOK ==
    /\ {joined_, after_join_, destroy_, erased, unaided} \subseteq BOOLEAN
    /\ nodes_ \in [Peer -> Nat] /\ Known \cap Rejected = {}
    /\ node_id_map_ \subseteq Peer \ Rejected
    /\ failed_nodes \subseteq Peer /\ drops \in Nat /\ (failed_nodes # {} => drops > 0)
    /\ bootstrap_nodes_ \subseteq Peer /\ requests \subseteq Peer
    /\ bootstrap_ip_ \subseteq Peer /\ Cardinality(bootstrap_ip_) <= 1
    /\ public_endpoints_ \subseteq Peer
    /\ pc \in [Joiner -> {"idle", "rejoin", "join", "send", "wait"}]
    /\ boot_endpoints \in [Joiner -> SUBSET Peer]
    /\ handler \in [Handler -> {"idle", "add", "id", "added", "failed", "set"}]
    /\ node_ptr \in [Handler -> SUBSET Peer]
    /\ via \in [Handler -> {"response", "handshake"}]
    /\ handshakes \in 0 .. MaxHandshakes /\ failures \in 0 .. MaxFailures

(* Rejoin never calls MultiJoin, which would not come back, without an     *)
(* endpoint to ask, unless a handshake has joined the node before any      *)
(* bootstrap node had answered: a join response leaves its sender in       *)
(* bootstrap_nodes_ before it sets joined_, whatever AddNode says.         *)
RejoinKnowsSomebody ==
    pc["timer"] \in {"join", "send", "wait"} =>
        boot_endpoints["timer"] # {} \/ unaided

(* The application's MultiJoin comes back with a node that has joined,     *)
(* even if Rejoin undoes the join at once, peers fail or UnInit ends the   *)
(* timers meanwhile; only a Rejoin that undoes one join after the other    *)
(* could make it miss them all.                                            *)
MultiJoinReturns ==
    <>[][joined_']_joined_ => ((pc["app"] # "idle") ~> (pc["app"] = "idle"))

(* Connected: joined, and knowing a peer in another process.               *)
Connected == joined_ /\ ~(Known \subseteq Virtual)

(* Only a peer whose heartbeats fail can end it: neither Rejoin's check,   *)
(* which may run between any two steps of a join, nor a handler that       *)
(* AddNode has refused takes it back.                                      *)
OnlyFailuresDisconnect == [][Connected /\ failed_nodes = {} => Connected']_vars

(* Once peers stop failing, the node ends up connected and stays so,       *)
(* unless UnInit is called: Rejoin repairs whatever the failures have left *)
(* behind.                                                                 *)
EventuallyConnected == []~destroy_ => <>[]Connected
=============================================================================
