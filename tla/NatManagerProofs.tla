--------------------------- MODULE NatManagerProofs ---------------------------
(***************************************************************************)
(* NatManager for every set of endpoints and every limit of the queue: the *)
(* four threads, whatever messages arrive and whenever Stop is called.     *)
(***************************************************************************)
EXTENDS NatManager, TLAPS

(***************************************************************************)
(* What the safety properties need to be inductive.  The message thread    *)
(* exists only between the two ends of nat_transport_'s life: Start sets   *)
(* the pointer when it creates the thread, and the tail of Stop, which     *)
(* clears it, runs after the join.  started_ is never reset, so no second  *)
(* thread is created.  Stop holds mutex_ all the while, so no Start runs   *)
(* beside it.                                                              *)
(***************************************************************************)
ThreadInLife ==
    /\ worker # "none" => nat_transport_ /\ started_
    /\ stopper = "tail" => worker = "none"
    /\ stopper # "idle" => mutex_ = "stop"

Inv == TypeOK /\ ThreadInLife /\ FinishHasVerdict

(* A verdict keeps the type of the field and never takes a verdict back.   *)
LEMMA VerdictType ==
    ASSUME TypeOK, NEW n \in NatTypes \ {Unknown}, SetNatTypeAndNotify(n)
    PROVE  nat_type_' \in NatTypes /\ nat_type_' # Unknown
                /\ (nat_type_ # Unknown => nat_type_' = nat_type_)
BY DEF TypeOK, SetNatTypeAndNotify

(* The verdicts that the handlers and the timer give are types of a NAT.   *)
LEMMA Verdicts == {"public", "cone_normal", "cone_abnormal"} \subseteq NatTypes \ {Unknown}
BY DEF NatTypes, Unknown

(* The manager as it is constructed.                                       *)
LEMMA InvInit == Init => Inv
<1> SUFFICES ASSUME Init PROVE Inv
  OBVIOUS
<1>1. nat_type_ \in NatTypes
  BY Verdicts DEF Init
<1>2. queue_ \in Seq(Message) /\ Len(queue_) <= QueueLimit + 1
  BY NatAssumption DEF Init
<1>3. {started_, stopped_, nat_transport_, thread_destroy_} \subseteq BOOLEAN
  BY DEF Init
<1>4. TypeOK
  BY <1>1, <1>2, <1>3 DEF Init, TypeOK
<1> QED BY <1>4 DEF Init, Inv, ThreadInLife, FinishHasVerdict

(* What a thread that handles a message may do to the verdict.             *)
LEMMA HandleStep ==
    ASSUME TypeOK, NEW m \in Message, Handle(m)
    PROVE  /\ worker = "handle" /\ worker' = "loop" /\ msg' = {}
           /\ UNCHANGED <<lifecycle, mutex_, queue_, thread_destroy_, callers>>
           /\ nat_type_' \in NatTypes /\ timer_' \in {"off", "armed", "firing"}
           /\ peers_' \subseteq Boot
           /\ nat_type_ # Unknown => nat_type_' = nat_type_
<1>0. m.from \in Boot /\ peers_ \subseteq Boot /\ nat_type_ \in NatTypes
      /\ timer_ \in {"off", "armed", "firing"}
  BY DEF TypeOK, Message
<1>1. CASE HandleNatDetectRequest(m)
  BY <1>0, <1>1 DEF HandleNatDetectRequest, Handling, Handled
<1>2. CASE HandleNatDetectResponse(m)
  BY <1>0, <1>2, VerdictType, Verdicts DEF HandleNatDetectResponse, Handling, Handled
<1>3. CASE HandleNatDetectHandshake2Node(m)
  BY <1>0, <1>3, VerdictType, Verdicts DEF HandleNatDetectHandshake2Node, Handling, Handled
<1>4. CASE HandleNatDetectHandshake2Boot(m)
  BY <1>0, <1>4 DEF HandleNatDetectHandshake2Boot, Handling, Handled
<1>5. CASE HandleNatDetectFinish(m)
  BY <1>0, <1>5 DEF HandleNatDetectFinish, Handling, Handled
<1> QED BY <1>1, <1>2, <1>3, <1>4, <1>5 DEF Handle

(* The thread in Start only moves on; it never touches the verdict.        *)
LEMMA StarterKeeps ==
    ASSUME TypeOK, StarterStep
    PROVE  /\ UNCHANGED <<lifecycle, nat_type_, mutex_, queue_, thread, timer_, stopper>>
           /\ starter # "idle"
           /\ starter' \in {"idle", "check", "send", "wait", "finish", "crashed"}
           /\ starter' = "finish" => starter = "finish" \/ nat_type_ # Unknown
           /\ left' \subseteq Boot /\ requested' \subseteq Boot /\ peers_' \subseteq Boot
<1> USE DEF TypeOK
<1>1. CASE DetectCheck
  BY <1>1 DEF DetectCheck
<1>2. CASE DetectSend
  BY <1>2 DEF DetectSend
<1>3. CASE DetectWake
  BY <1>3 DEF DetectWake
<1>4. CASE DetectGiveUp
  BY <1>4 DEF DetectGiveUp
<1>5. CASE DetectFinish
  BY <1>5 DEF DetectFinish
<1>6. CASE DetectCrash
  BY <1>6 DEF DetectCrash
<1> QED BY <1>1, <1>2, <1>3, <1>4, <1>5, <1>6 DEF StarterStep

(* Every step of the four threads preserves the invariant.                 *)
LEMMA InvStep == Inv /\ [Next]_vars => Inv'
<1> SUFFICES ASSUME Inv, [Next]_vars PROVE Inv'
  OBVIOUS
<1> USE NatAssumption
<1>0. TypeOK /\ ThreadInLife /\ FinishHasVerdict
  BY DEF Inv
<1> USE DEF Inv, ThreadInLife, FinishHasVerdict, lifecycle, thread, callers
<1>1. CASE UNCHANGED vars
  BY <1>0, <1>1 DEF vars, TypeOK
<1>2. ASSUME NEW n \in NatTypes \ {Unknown}, SetNatType(n) PROVE Inv'
  BY <1>0, <1>2 DEF SetNatType, TypeOK
<1>3. CASE Start
  <2>1. nat_type_' \in NatTypes
    BY <1>3, Verdicts DEF Start, NatTypes
  <2>2. queue_' \in Seq(Message) /\ Len(queue_') <= QueueLimit + 1
    BY <1>3 DEF Start
  <2>3. worker # "handle"
    BY <1>0, <1>3 DEF Start, TypeOK
  <2>4. TypeOK'
    BY <1>0, <1>3, <2>1, <2>2, <2>3 DEF Start, TypeOK
  <2> QED BY <1>0, <1>3, <2>4 DEF Start, Free
<1>4. CASE StarterStep
  BY <1>0, <1>4, StarterKeeps DEF TypeOK
<1>5. ASSUME NEW m \in Message, PushMessage(m) PROVE Inv'
  <2>1. queue_' \in Seq(Message) /\ Len(queue_') <= QueueLimit + 1
    BY <1>0, <1>5 DEF PushMessage, TypeOK
  <2> QED BY <1>0, <1>5, <2>1 DEF PushMessage, TypeOK
<1>6. CASE ThreadLoop
  BY <1>0, <1>6 DEF ThreadLoop, TypeOK
<1>7. CASE GetMessage
  <2>1. /\ queue_' \in Seq(Message) /\ Len(queue_') <= QueueLimit + 1
        /\ msg' \subseteq Message
    BY <1>0, <1>7 DEF GetMessage, TypeOK
  <2>2. worker' \in {"handle", "loop"} /\ (worker' = "handle" <=> msg' # {})
    BY <1>0, <1>7 DEF GetMessage, TypeOK
  <2> QED BY <1>0, <1>7, <2>1, <2>2 DEF GetMessage, TypeOK
<1>8. ASSUME NEW m \in Message, Handle(m) PROVE Inv'
  BY <1>0, <1>8, HandleStep DEF TypeOK
<1>9. CASE TimerFires
  BY <1>0, <1>9 DEF TimerFires, TypeOK
<1>10. CASE OnTimerNatDetectTimeout
  <2>1. nat_type_' \in NatTypes /\ nat_type_' # Unknown
    BY <1>0, <1>10, VerdictType, Verdicts DEF OnTimerNatDetectTimeout
  <2> QED BY <1>0, <1>10, <2>1 DEF OnTimerNatDetectTimeout, TypeOK
<1>11. ASSUME NEW b \in Boot, DetectionEnds(b) PROVE Inv'
  BY <1>0, <1>11 DEF DetectionEnds, TypeOK
<1>12. CASE Stop
  BY <1>0, <1>12 DEF Stop, TypeOK
<1>13. CASE ThreadJoin
  BY <1>0, <1>13 DEF ThreadJoin, TypeOK
<1>14. CASE StopTail
  BY <1>0, <1>14 DEF StopTail, TypeOK
<1>15. CASE StopHangs
  BY <1>0, <1>15 DEF StopHangs, TypeOK
<1> QED BY <1>1, <1>2, <1>3, <1>4, <1>5, <1>6, <1>7, <1>8, <1>9, <1>10, <1>11, <1>12,
           <1>13, <1>14, <1>15 DEF Next, WorkerStep, TimerStep, StopperStep

(* The fields and the threads keep their types: in particular the queue    *)
(* holds at most QueueLimit + 1 messages, and the message thread has a     *)
(* message exactly while it handles one.                                   *)
THEOREM TypeCorrect == Spec => []TypeOK
<1>1. Inv => TypeOK
  BY DEF Inv
<1> QED BY <1>1, InvInit, InvStep, PTL DEF Spec

(* For every queue and every set of endpoints: the message thread never    *)
(* handles a message without nat_transport_, whenever Stop is called.      *)
THEOREM HandlerHasTransport == Spec => []WorkerHasTransport
<1>1. Inv => WorkerHasTransport
  BY DEF Inv, ThreadInLife, WorkerHasTransport
<1> QED BY <1>1, InvInit, InvStep, PTL DEF Spec

(* MultiNatDetect goes on to its finish messages with a verdict only, and  *)
(* keeps it until the last of them is sent.                                *)
THEOREM FinishWithVerdict == Spec => []FinishHasVerdict
<1>1. Inv => FinishHasVerdict
  BY DEF Inv
<1> QED BY <1>1, InvInit, InvStep, PTL DEF Spec

(* The first verdict after Start is the last: of a public answer, a        *)
(* handshake and the timeout, whichever thread comes first decides.        *)
THEOREM FirstVerdictIsFinal == Spec => VerdictIsFinal
<1>1. Inv /\ [Next]_vars => 
          [(started_ /\ nat_type_ # Unknown) =>
             \/ nat_type_' = nat_type_
             \/ \E n \in NatTypes \ {Unknown} : SetNatType(n)]_vars
  <2> SUFFICES ASSUME Inv, [Next]_vars, started_, nat_type_ # Unknown,
                      ~ \E n \in NatTypes \ {Unknown} : SetNatType(n)
               PROVE  nat_type_' = nat_type_
    OBVIOUS
  <2>0. TypeOK
    BY DEF Inv
  <2>1. CASE UNCHANGED vars
    BY <2>1 DEF vars
  <2>2. CASE StarterStep
    BY <2>0, <2>2, StarterKeeps
  <2>3. ASSUME NEW m \in Message, Handle(m) PROVE nat_type_' = nat_type_
    BY <2>0, <2>3, HandleStep
  <2>4. CASE OnTimerNatDetectTimeout
    BY <2>0, <2>4, VerdictType, Verdicts DEF OnTimerNatDetectTimeout
  <2>5. CASE Start
    BY <2>5 DEF Start
  <2>6. CASE \/ \E m \in Message : PushMessage(m)
             \/ ThreadLoop \/ GetMessage \/ TimerFires
             \/ \E b \in Boot : DetectionEnds(b)
             \/ Stop \/ ThreadJoin \/ StopTail \/ StopHangs
    BY <2>6 DEF PushMessage, ThreadLoop, GetMessage, TimerFires, DetectionEnds, Stop,
                ThreadJoin, StopTail, StopHangs
  <2> QED BY <2>1, <2>2, <2>3, <2>4, <2>5, <2>6 DEF Next, WorkerStep, TimerStep, StopperStep
<1> QED BY <1>1, InvInit, InvStep, PTL DEF Spec, VerdictIsFinal
=============================================================================
