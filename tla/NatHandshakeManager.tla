------------------------ MODULE NatHandshakeManager ------------------------
(***************************************************************************)
(* NatHandshakeManager (src/nat_handshake_manager.cc): sends handshakes to *)
(* the peers in peers_, one per pass of the timer, kDetectCount of them    *)
(* after an initial delay.  A pass of DetectProc copies the map under      *)
(* mutex_ and then works on the copy without it, while the message thread  *)
(* of NatManager adds and removes detections.  The NatDetectStruct objects *)
(* are shared between map and copy.  Stop holds mutex_ while it waits for  *)
(* the timer's pass to end.                                                *)
(*                                                                         *)
(* base::TimerRepeated is external: one thread runs the passes, Join keeps *)
(* it from beginning another one and returns when the present one is over. *)
(***************************************************************************)
EXTENDS Integers, FiniteSets, Functions

CONSTANTS
    Key,             \* ip and port of a peer
    NatDetectStruct, \* detection objects
    kDetectCount,    \* handshakes of a detection: 40 in the code
    DelayCounts      \* delay_ms / kDetectionPeriod: 0 and 10 in the code

ASSUME NatHandshakeAssumption ==
    /\ kDetectCount \in Nat \ {0}
    /\ DelayCounts \subseteq Nat

VARIABLES
    started_,
    stopping,      \* Stop holds mutex_ and waits in timer_->Join()
    pass,          \* of the timer: "idle", "begin" before the copy, "loop" after it
    peers_,        \* std::map from key to object
    peers,         \* DetectProc's copy: what is left of it
    ending,        \* keys whose object DetectProc found used up, to be erased
    delay_count, detect_count,   \* fields of the objects
    late           \* handshakes sent to a key since it was removed

objects == <<delay_count, detect_count>>
control == <<started_, stopping, pass>>
vars == <<control, peers_, peers, ending, objects, late>>

Free == ~stopping                               \* mutex_ can be taken

EmptyMap == [k \in {} |-> 0]
Erase(m, k) == Restrict(m, DOMAIN m \ {k})
Assign(m, k, v) == [x \in DOMAIN m \cup {k} |-> IF x = k THEN v ELSE m[x]]

Init ==
    /\ started_ = FALSE /\ stopping = FALSE /\ pass = "idle"
    /\ peers_ = EmptyMap /\ peers = EmptyMap /\ ending = {}
    /\ delay_count = [o \in NatDetectStruct |-> 0]
    /\ detect_count = [o \in NatDetectStruct |-> 0]
    /\ late = [k \in Key |-> 0]

Start ==
    /\ Free /\ ~started_ /\ started_' = TRUE
    /\ peers_' = EmptyMap
    /\ UNCHANGED <<stopping, pass, peers, ending, objects, late>>

Stop ==
    /\ Free /\ started_ /\ stopping' = TRUE
    /\ UNCHANGED <<started_, pass, peers_, peers, ending, objects, late>>

StopJoinedWhenEmpty ==                          \* mutant: waits for the detections to end
    /\ stopping /\ pass = "idle" /\ peers_ = EmptyMap
    /\ started_' = FALSE /\ stopping' = FALSE
    /\ UNCHANGED <<pass, peers_, peers, ending, objects, late>>

StopJoined ==
    /\ stopping /\ pass = "idle"
    /\ started_' = FALSE /\ stopping' = FALSE
    /\ UNCHANGED <<pass, peers_, peers, ending, objects, late>>

(* A new object, which replaces an older one of the same key.              *)
AddDetection(k, o, delay) ==
    /\ Free /\ o \notin Range(peers_) \cup Range(peers)
    /\ delay_count' = [delay_count EXCEPT ![o] = delay]
    /\ detect_count' = [detect_count EXCEPT ![o] = kDetectCount]
    /\ peers_' = Assign(peers_, k, o)
    /\ late' = [late EXCEPT ![k] = 0]
    /\ UNCHANGED <<control, peers, ending>>

RemoveDetection(k) ==
    /\ Free
    /\ peers_' = Erase(peers_, k)
    /\ late' = [late EXCEPT ![k] = 0]
    /\ UNCHANGED <<control, peers, ending, objects>>

(***************************************************************************)
(* DetectProc: the copy, then one step per entry, then, under mutex_ again,*)
(* the erase of an entry whose object is used up.                          *)
(***************************************************************************)
TimerFires ==
    /\ started_ /\ ~stopping /\ pass = "idle" /\ pass' = "begin"
    /\ UNCHANGED <<started_, stopping, peers_, peers, ending, objects, late>>

DetectCopy ==
    /\ pass = "begin" /\ Free /\ pass' = "loop"
    /\ peers' = peers_
    /\ UNCHANGED <<started_, stopping, peers_, ending, objects, late>>

DetectDelayOffByOne(k) ==                       \* mutant: >= instead of >
    /\ ending = {} /\ k \in DOMAIN peers /\ delay_count[peers[k]] >= 0
    /\ delay_count' = [delay_count EXCEPT ![peers[k]] = @ - 1]
    /\ peers' = Erase(peers, k)
    /\ UNCHANGED <<control, peers_, ending, detect_count, late>>

DetectDelay(k) ==
    /\ ending = {} /\ k \in DOMAIN peers /\ delay_count[peers[k]] > 0
    /\ delay_count' = [delay_count EXCEPT ![peers[k]] = @ - 1]
    /\ peers' = Erase(peers, k)
    /\ UNCHANGED <<control, peers_, ending, detect_count, late>>

DoHandshakeAll(k) ==                            \* mutant: all handshakes in one pass
    /\ ending = {} /\ k \in DOMAIN peers /\ delay_count[peers[k]] <= 0
    /\ detect_count' = [detect_count EXCEPT ![peers[k]] = IF @ > 0 THEN @ - 1 ELSE @]
    /\ late' = [late EXCEPT ![k] =
            IF detect_count[peers[k]] > 0 /\ k \notin DOMAIN peers_ THEN @ + 1 ELSE @]
    /\ ending' = IF detect_count'[peers[k]] <= 0 THEN {k} ELSE {}
    /\ peers' = IF ending' = {} THEN peers ELSE Erase(peers, k)
    /\ UNCHANGED <<control, peers_, delay_count>>

DoHandshakeEndless(k) ==                        \* mutant: < 0 instead of <= 0
    /\ ending = {} /\ k \in DOMAIN peers /\ delay_count[peers[k]] <= 0
    /\ detect_count' = [detect_count EXCEPT ![peers[k]] = IF @ > 0 THEN @ - 1 ELSE @]
    /\ late' = [late EXCEPT ![k] =
            IF detect_count[peers[k]] > 0 /\ k \notin DOMAIN peers_ THEN @ + 1 ELSE @]
    /\ ending' = IF detect_count'[peers[k]] < 0 THEN {k} ELSE {}
    /\ peers' = Erase(peers, k)
    /\ UNCHANGED <<control, peers_, delay_count>>

DoHandshake(k) ==
    /\ ending = {} /\ k \in DOMAIN peers /\ delay_count[peers[k]] <= 0
    /\ detect_count' = [detect_count EXCEPT ![peers[k]] = IF @ > 0 THEN @ - 1 ELSE @]
    /\ late' = [late EXCEPT ![k] =
            IF detect_count[peers[k]] > 0 /\ k \notin DOMAIN peers_ THEN @ + 1 ELSE @]
    /\ ending' = IF detect_count'[peers[k]] <= 0 THEN {k} ELSE {}
    /\ peers' = Erase(peers, k)
    /\ UNCHANGED <<control, peers_, delay_count>>

DetectErase(k) ==
    /\ k \in ending /\ Free /\ ending' = {}
    /\ peers_' = Erase(peers_, k)
    /\ UNCHANGED <<control, peers, objects, late>>

DetectDone ==
    /\ pass = "loop" /\ peers = EmptyMap /\ ending = {} /\ pass' = "idle"
    /\ UNCHANGED <<started_, stopping, peers_, peers, ending, objects, late>>

DetectProc == TimerFires \/ DetectCopy \/ DetectDone
              \/ \E k \in Key : DetectDelay(k) \/ DoHandshake(k) \/ DetectErase(k)

Next ==
    \/ Start \/ Stop \/ StopJoined \/ DetectProc
    \/ \E k \in Key :
        \/ RemoveDetection(k)
        \/ \E o \in NatDetectStruct, delay \in DelayCounts : AddDetection(k, o, delay)

Spec == Init /\ [][Next]_vars

(* The timer's thread goes on with its pass, and begins another one; Join  *)
(* returns once it can.                                                    *)
FairSpec == Spec /\ WF_vars(DetectProc) /\ WF_vars(StopJoined)
-----------------------------------------------------------------------------
(* Types; an object in the map or in the copy still has its counts.        *)
TypeOK ==
    /\ started_ \in BOOLEAN /\ stopping \in BOOLEAN /\ pass \in {"idle", "begin", "loop"}
    /\ DOMAIN peers_ \subseteq Key /\ Range(peers_) \subseteq NatDetectStruct
    /\ DOMAIN peers \subseteq Key /\ Range(peers) \subseteq NatDetectStruct
    /\ ending \subseteq Key
    /\ delay_count \in [NatDetectStruct -> Nat]
    /\ detect_count \in [NatDetectStruct -> 0 .. kDetectCount]
    /\ late \in [Key -> Nat]

(* After RemoveDetection at most one more handshake goes out to the peer:  *)
(* the one of the pass that had copied the map before.                     *)
AtMostOneLate == \A k \in Key : late[k] <= 1

(* A detection ends: unless the manager is stopped, its object leaves the  *)
(* map, removed, replaced, or used up.                                     *)
DetectionsEnd ==
    \A o \in NatDetectStruct :
        o \in Range(peers_) ~> (o \notin Range(peers_) \/ ~started_ \/ stopping)

(* Stop comes back, whatever detections are left, or the pass it waits for *)
(* waits for mutex_, which Stop holds: at the copy of the map, or at the   *)
(* erase of an entry.  There is no third way to hang.                      *)
StopReturnsOrDeadlocks ==
    stopping ~> (~stopping \/ pass = "begin" \/ ending # {})
=============================================================================
