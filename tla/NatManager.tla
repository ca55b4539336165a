----------------------------- MODULE NatManager -----------------------------
(***************************************************************************)
(* NatManager (src/nat_manager.cc): finds out the type of the NAT that the *)
(* local node sits behind by asking bootstrap nodes.  Four threads share   *)
(* it: the one in Start (which waits in MultiNatDetect), the one in Stop,  *)
(* the message thread ThreadProc, and the timer thread.  mutex_ is held    *)
(* for longer than one step only by Stop, which joins the message thread   *)
(* under it and then stops the NatHandshakeManager.  The network may lose  *)
(* messages: whether an answer arrives is a choice.  SetNatType is called  *)
(* by programs that know their NAT type, at any time.                      *)
(***************************************************************************)
EXTENDS Naturals, Sequences, FiniteSets

CONSTANTS
    Boot,            \* boot_endpoints, and the endpoints that write to us
    FirstNode,       \* Start's first_node argument
    QueueLimit       \* 1000 in the code

ASSUME NatAssumption ==
    /\ QueueLimit \in Nat
    /\ FirstNode \in BOOLEAN

VARIABLES
    started_, stopped_, nat_type_,
    mutex_,          \* "free", or "stop" while Stop holds it
    queue_,          \* message_queue_: pairs of message type and sender
    worker,          \* message thread: "none", "loop", "get", "handle", "done"
    msg,             \* the message it handles
    thread_destroy_,
    timer_,          \* "off", "armed", or "firing": in OnTimerNatDetectTimeout
    starter,         \* thread in Start: "idle", "check", "send", "wait", "finish", "crashed"
    left,            \* endpoints MultiNatDetect still has to finish with
    stopper,         \* thread in Stop: "idle", "join", "tail", "hung"
    nat_transport_,  \* is the pointer set?
    requested,       \* endpoints that were sent a NatDetectRequest
    peers_           \* NatHandshakeManager: endpoints being detected

lifecycle == <<started_, stopped_, nat_transport_>>
thread == <<worker, msg, thread_destroy_>>
callers == <<starter, left, stopper, requested>>
vars == <<lifecycle, nat_type_, mutex_, queue_, thread, timer_, callers, peers_>>

Unknown == "unknown"
NatTypes == {Unknown, "public", "cone_normal", "cone_abnormal"}

(* The response of a bootstrap node says "public", or leaves the type open.*)
Types == {"request", "response_public", "response_open",
          "handshake2node", "handshake2boot", "finish"}
Message == [type : Types, from : Boot]

Free == mutex_ = "free"

Init ==
    /\ started_ = FALSE /\ stopped_ = FALSE /\ nat_transport_ = FALSE
    /\ nat_type_ = "public"
    /\ mutex_ = "free" /\ queue_ = <<>>
    /\ worker = "none" /\ msg = {} /\ thread_destroy_ = FALSE
    /\ timer_ = "off"
    /\ starter = "idle" /\ left = {} /\ stopper = "idle" /\ requested = {}
    /\ peers_ = {}

(* Without mutex_, and without waking MultiNatDetect.                      *)
SetNatType(n) ==
    /\ nat_type_' = n
    /\ UNCHANGED <<lifecycle, mutex_, queue_, thread, timer_, callers, peers_>>

SetNatTypeAndNotifyLast(n) ==                   \* mutant: the last verdict wins
    Free /\ nat_type_' = n

(* SetNatTypeAndNotify: under mutex_, the first verdict wins.              *)
SetNatTypeAndNotify(n) ==
    /\ Free
    /\ nat_type_' = IF nat_type_ = Unknown THEN n ELSE nat_type_

(***************************************************************************)
(* Start and MultiNatDetect.                                               *)
(***************************************************************************)
Start ==
    /\ starter = "idle" /\ Free /\ ~started_
    /\ started_' = TRUE /\ nat_transport_' = TRUE
    /\ nat_type_' = IF FirstNode THEN "public" ELSE Unknown
    /\ queue_' = <<>> /\ peers_' = {}
    /\ worker' = "loop" /\ thread_destroy_' = FALSE
    /\ starter' = "check"
    /\ UNCHANGED <<stopped_, mutex_, msg, timer_, left, stopper, requested>>

DetectCheck ==
    /\ starter = "check" /\ Free
    /\ starter' = IF nat_type_ # Unknown \/ Boot = {} THEN "idle" ELSE "send"
    /\ UNCHANGED <<lifecycle, nat_type_, mutex_, queue_, thread, timer_,
                   left, stopper, requested, peers_>>

(* SendNatDetectRequest to every endpoint, through nat_transport_.         *)
DetectSend ==
    /\ starter = "send" /\ nat_transport_
    /\ requested' = Boot /\ starter' = "wait"
    /\ UNCHANGED <<lifecycle, nat_type_, mutex_, queue_, thread, timer_,
                   left, stopper, peers_>>

DetectWakeEarly ==                              \* mutant: wait without a predicate
    /\ starter = "wait" /\ Free
    /\ left' = Boot /\ starter' = "finish"
    /\ UNCHANGED <<lifecycle, nat_type_, mutex_, queue_, thread, timer_,
                   stopper, requested, peers_>>

(* cond_.wait_for comes back, with mutex_, when the type is known ...      *)
DetectWake ==
    /\ starter = "wait" /\ Free /\ nat_type_ # Unknown
    /\ left' = Boot /\ starter' = "finish"
    /\ UNCHANGED <<lifecycle, nat_type_, mutex_, queue_, thread, timer_,
                   stopper, requested, peers_>>

DetectGiveUpNever ==                            \* mutant: wait without a timeout
    FALSE /\ UNCHANGED vars

(* ... or after 3 seconds; Start returns true all the same.                *)
DetectGiveUp ==
    /\ starter = "wait" /\ Free /\ nat_type_ = Unknown
    /\ starter' = "idle"
    /\ UNCHANGED <<lifecycle, nat_type_, mutex_, queue_, thread, timer_,
                   left, stopper, requested, peers_>>

(* SendNatDetectFinish and RemoveDetection, one endpoint after the other.  *)
DetectFinish ==
    /\ starter = "finish" /\ nat_transport_
    /\ \E b \in left :
        /\ left' = left \ {b}
        /\ peers_' = peers_ \ {b}
        /\ starter' = IF left = {b} THEN "idle" ELSE "finish"
    /\ UNCHANGED <<lifecycle, nat_type_, mutex_, queue_, thread, timer_,
                   stopper, requested>>

(* Stop has cleared nat_transport_ meanwhile: the null pointer is used, and*)
(* the process ends (what the other threads do after that is of no         *)
(* account).                                                               *)
DetectCrash ==
    /\ starter \in {"send", "finish"} /\ ~nat_transport_
    /\ starter' = "crashed"
    /\ UNCHANGED <<lifecycle, nat_type_, mutex_, queue_, thread, timer_,
                   left, stopper, requested, peers_>>

(***************************************************************************)
(* The message queue and ThreadProc.  Answers come from endpoints that     *)
(* were asked; requests from any endpoint.  A full queue drops the new     *)
(* message.                                                                *)
(***************************************************************************)
PushMessage(m) ==
    /\ m.type \in {"response_public", "response_open", "handshake2node"} =>
          m.from \in requested
    /\ Len(queue_) <= QueueLimit
    /\ queue_' = Append(queue_, m)
    /\ UNCHANGED <<lifecycle, nat_type_, mutex_, thread, timer_, callers, peers_>>

(* while (!thread_destroy_)                                                *)
ThreadLoop ==
    /\ worker = "loop"
    /\ worker' = IF thread_destroy_ THEN "done" ELSE "get"
    /\ UNCHANGED <<lifecycle, nat_type_, mutex_, queue_, msg, thread_destroy_,
                   timer_, callers, peers_>>

GetMessageUnchecked ==                          \* mutant: result not checked
    /\ worker = "get" /\ worker' = "handle"
    /\ msg' = IF queue_ = <<>> THEN {} ELSE {Head(queue_)}
    /\ queue_' = IF queue_ = <<>> THEN queue_ ELSE Tail(queue_)
    /\ UNCHANGED <<lifecycle, nat_type_, mutex_, thread_destroy_, timer_, callers, peers_>>

(* GetMessage waits 500 ms for a message, whatever happens to              *)
(* thread_destroy_ meanwhile; without one the thread goes round again.     *)
GetMessage ==
    /\ worker = "get"
    /\ \/ /\ queue_ # <<>> /\ worker' = "handle"
          /\ msg' = {Head(queue_)} /\ queue_' = Tail(queue_)
       \/ /\ queue_ = <<>> /\ worker' = "loop"
          /\ UNCHANGED <<msg, queue_>>
    /\ UNCHANGED <<lifecycle, nat_type_, mutex_, thread_destroy_, timer_, callers, peers_>>

Handled == worker' = "loop" /\ msg' = {} /\ UNCHANGED thread_destroy_

Handling(m) == worker = "handle" /\ msg = {m}

(* A peer asks: answer it and, if it may be behind a NAT, detect it.       *)
HandleNatDetectRequest(m) ==
    /\ Handling(m) /\ m.type = "request"
    /\ peers_' \in {peers_, peers_ \cup {m.from}}
    /\ Handled
    /\ UNCHANGED <<lifecycle, nat_type_, mutex_, queue_, timer_, callers>>

HandleNatDetectResponse(m) ==
    /\ Handling(m)
    /\ \/ /\ m.type = "response_public"
          /\ SetNatTypeAndNotify("public")
          /\ UNCHANGED <<timer_, peers_>>
       \/ /\ m.type = "response_open"
          /\ peers_' = peers_ \cup {m.from}
          /\ timer_' = IF timer_ = "firing" THEN timer_ ELSE "armed"
          /\ UNCHANGED nat_type_
       \/ /\ m.type \in {"response_public", "response_open"}   \* does not parse
          /\ UNCHANGED <<nat_type_, timer_, peers_>>
    /\ Handled
    /\ UNCHANGED <<lifecycle, mutex_, queue_, callers>>

HandleNatDetectHandshake2Node(m) ==
    /\ Handling(m) /\ m.type = "handshake2node"
    /\ SetNatTypeAndNotify("cone_normal")
    /\ Handled
    /\ UNCHANGED <<lifecycle, mutex_, queue_, timer_, callers, peers_>>

HandleNatDetectHandshake2Boot(m) ==
    /\ Handling(m) /\ m.type = "handshake2boot"
    /\ Handled
    /\ UNCHANGED <<lifecycle, nat_type_, mutex_, queue_, timer_, callers, peers_>>

HandleNatDetectFinish(m) ==
    /\ Handling(m) /\ m.type = "finish"
    /\ peers_' = peers_ \ {m.from}
    /\ Handled
    /\ UNCHANGED <<lifecycle, nat_type_, mutex_, queue_, timer_, callers>>

(***************************************************************************)
(* The timers: 1.5 seconds after an open answer the NAT counts as          *)
(* abnormal; NatHandshakeManager's own timer gives a detection up after    *)
(* its 40 handshakes.                                                      *)
(***************************************************************************)
TimerFires ==
    /\ timer_ = "armed" /\ timer_' = "firing"
    /\ UNCHANGED <<lifecycle, nat_type_, mutex_, queue_, thread, callers, peers_>>

OnTimerNatDetectTimeoutIdle ==                  \* mutant: no verdict
    /\ timer_ = "firing" /\ timer_' = "off"
    /\ UNCHANGED <<lifecycle, nat_type_, mutex_, queue_, thread, callers, peers_>>

OnTimerNatDetectTimeout ==
    /\ timer_ = "firing" /\ timer_' = "off"
    /\ SetNatTypeAndNotify("cone_abnormal")
    /\ UNCHANGED <<lifecycle, mutex_, queue_, thread, callers, peers_>>

DetectionEnds(b) ==
    /\ b \in peers_ /\ peers_' = peers_ \ {b}
    /\ UNCHANGED <<lifecycle, nat_type_, mutex_, queue_, thread, timer_, callers>>

(***************************************************************************)
(* Stop: everything under mutex_, the join of the message thread included. *)
(***************************************************************************)
Stop ==
    /\ stopper = "idle" /\ Free /\ started_
    /\ mutex_' = "stop" /\ stopper' = "join"
    /\ timer_' = IF timer_ = "armed" THEN "off" ELSE timer_
    /\ thread_destroy_' = (worker # "none")
    /\ UNCHANGED <<lifecycle, nat_type_, queue_, worker, msg,
                   starter, left, requested, peers_>>

ThreadJoinDetached ==                           \* mutant: detach instead of join
    /\ stopper = "join" /\ stopper' = "tail"
    /\ UNCHANGED <<lifecycle, nat_type_, mutex_, queue_, thread,
                   timer_, starter, left, requested, peers_>>

ThreadJoin ==
    /\ stopper = "join" /\ worker \in {"done", "none"}
    /\ worker' = "none" /\ stopper' = "tail"
    /\ UNCHANGED <<lifecycle, nat_type_, mutex_, queue_, msg, thread_destroy_,
                   timer_, starter, left, requested, peers_>>

StopTail ==
    /\ stopper = "tail" /\ stopper' = "idle"
    /\ nat_transport_' = FALSE /\ stopped_' = TRUE
    /\ mutex_' = "free"
    /\ UNCHANGED <<started_, nat_type_, queue_, thread, timer_,
                   starter, left, requested, peers_>>

(* The first Stop may never return from nat_handshake_manager_->Stop(),    *)
(* which waits under its own mutex for a timer that may want that mutex    *)
(* (module NatHandshakeManager); a later one finds that manager stopped.   *)
StopHangs ==
    /\ stopper = "tail" /\ ~stopped_ /\ stopper' = "hung"
    /\ UNCHANGED <<lifecycle, nat_type_, mutex_, queue_, thread, timer_,
                   starter, left, requested, peers_>>

-----------------------------------------------------------------------------
StarterStep == \/ DetectCheck \/ DetectSend \/ DetectWake \/ DetectGiveUp
               \/ DetectFinish \/ DetectCrash

Handle(m) == \/ HandleNatDetectRequest(m) \/ HandleNatDetectResponse(m)
             \/ HandleNatDetectHandshake2Node(m)
             \/ HandleNatDetectHandshake2Boot(m) \/ HandleNatDetectFinish(m)

WorkerStep == ThreadLoop \/ GetMessage \/ \E m \in Message : Handle(m)

StopperStep == ThreadJoin \/ StopTail \/ StopHangs

TimerStep == TimerFires \/ OnTimerNatDetectTimeout

Next == \/ \E n \in NatTypes \ {Unknown} : SetNatType(n)
        \/ Start \/ StarterStep
        \/ \E m \in Message : PushMessage(m)
        \/ WorkerStep \/ TimerStep
        \/ \E b \in Boot : DetectionEnds(b)
        \/ Stop \/ StopperStep

Spec == Init /\ [][Next]_vars

(* Each thread goes on while it can; waiting for mutex_ is fair; the       *)
(* timers run.                                                             *)
Fairness == /\ SF_vars(StarterStep) /\ SF_vars(WorkerStep) /\ WF_vars(StopperStep)
            /\ SF_vars(TimerStep)
            /\ \A b \in Boot : WF_vars(DetectionEnds(b))

FairSpec == Spec /\ Fairness
-----------------------------------------------------------------------------
(* Types of the manager's fields and of its four threads; the message      *)
(* thread has a message exactly while it handles one; the queue holds at   *)
(* most one message more than the limit of PushMessage.                    *)
TypeOK ==
    /\ {started_, stopped_, nat_transport_, thread_destroy_} \subseteq BOOLEAN
    /\ nat_type_ \in NatTypes
    /\ mutex_ \in {"free", "stop"}
    /\ queue_ \in Seq(Message) /\ Len(queue_) <= QueueLimit + 1
    /\ worker \in {"none", "loop", "get", "handle", "done"}
    /\ msg \subseteq Message /\ (worker = "handle" <=> msg # {})
    /\ timer_ \in {"off", "armed", "firing"}
    /\ starter \in {"idle", "check", "send", "wait", "finish", "crashed"}
    /\ stopper \in {"idle", "join", "tail", "hung"}
    /\ left \subseteq Boot /\ requested \subseteq Boot /\ peers_ \subseteq Boot

(* The message thread never works without nat_transport_: Stop clears the  *)
(* pointer only after it has joined the thread.                            *)
WorkerHasTransport == worker = "handle" => nat_transport_

(* After Start, a detected NAT type is final: whichever of the answers,    *)
(* handshakes and the timeout comes first decides, the later ones change   *)
(* nothing.  Only SetNatType overrides it.                                 *)
VerdictIsFinal ==
    [][(started_ /\ nat_type_ # Unknown) =>
          \/ nat_type_' = nat_type_
          \/ \E n \in NatTypes \ {Unknown} : SetNatType(n)]_vars

(* MultiNatDetect never goes on to its finish messages without a verdict.  *)
FinishHasVerdict == starter = "finish" => nat_type_ # Unknown

(* Start comes back, unless the manager is stopped meanwhile: the wait for *)
(* a verdict is bounded, and the null pointer of DetectCrash and a mutex_  *)
(* that is never free again take a Stop.                                   *)
StartReturns ==
    (starter # "idle") ~> (starter = "idle" \/ stopper # "idle" \/ stopped_)

(* An open answer settles the type in the end, unless the manager is being *)
(* stopped: a handshake gets through, or the timer gives its verdict.      *)
OpenAnswerSettles ==
    (timer_ = "armed") ~> (nat_type_ # Unknown \/ stopper # "idle" \/ stopped_)

(* Stop comes back from joining its message thread.                        *)
StopReturns == (stopper = "join") ~> (stopper # "join")
=============================================================================
