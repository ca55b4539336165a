---------------------- MODULE NatHandshakeManagerProofs ----------------------
(***************************************************************************)
(* NatHandshakeManager for every set of peers, every number of handshakes  *)
(* and every delay.                                                        *)
(***************************************************************************)
EXTENDS NatHandshakeManager, TLAPS

(***************************************************************************)
(* What AtMostOneLate needs to be inductive: a peer that got its late      *)
(* handshake is neither in the map nor in what is left of the copy, so no  *)
(* pass finds it again before AddDetection counts afresh.                  *)
(***************************************************************************)
LateIsGone ==
    \A k \in Key : late[k] >= 1 => late[k] = 1 /\ k \notin DOMAIN peers_ \cup DOMAIN peers

Inv == TypeOK /\ LateIsGone

(* Erasing a key of a std::map leaves the other keys and their objects.    *)
LEMMA EraseMap ==
    ASSUME NEW m, NEW k
    PROVE  /\ DOMAIN Erase(m, k) = DOMAIN m \ {k}
           /\ \A x \in DOMAIN m \ {k} : Erase(m, k)[x] = m[x]
           /\ Range(Erase(m, k)) \subseteq Range(m)
BY DEF Erase, Restrict, Range

(* Assigning to a key of a std::map adds the key and the object.           *)
LEMMA AssignMap ==
    ASSUME NEW m, NEW k, NEW v
    PROVE  /\ DOMAIN Assign(m, k, v) = DOMAIN m \cup {k}
           /\ Range(Assign(m, k, v)) \subseteq Range(m) \cup {v}
BY DEF Assign, Range

(* A map that was just cleared holds nothing.                              *)
LEMMA EmptyMapEmpty == DOMAIN EmptyMap = {} /\ Range(EmptyMap) = {}
BY DEF EmptyMap, Range

(* The manager starts with no peers and no handshake sent.                 *)
LEMMA InvInit == Init => Inv
<1> SUFFICES ASSUME Init PROVE Inv
  OBVIOUS
<1>1. /\ DOMAIN peers_ \subseteq Key /\ Range(peers_) \subseteq NatDetectStruct
      /\ DOMAIN peers \subseteq Key /\ Range(peers) \subseteq NatDetectStruct
  BY EmptyMapEmpty DEF Init
<1>2. /\ delay_count \in [NatDetectStruct -> Nat] /\ late \in [Key -> Nat]
      /\ detect_count \in [NatDetectStruct -> 0 .. kDetectCount]
  BY NatHandshakeAssumption DEF Init
<1>3. started_ \in BOOLEAN /\ stopping \in BOOLEAN /\ pass = "idle" /\ ending \subseteq Key
  BY DEF Init
<1>4. TypeOK
  BY <1>1, <1>2, <1>3 DEF TypeOK
<1>5. LateIsGone
  BY DEF Init, LateIsGone
<1> QED BY <1>4, <1>5 DEF Inv

(* Every step of the manager preserves the invariant.                      *)
LEMMA InvStep == Inv /\ [Next]_vars => Inv'
<1> SUFFICES ASSUME Inv, [Next]_vars PROVE Inv'
  OBVIOUS
<1> USE NatHandshakeAssumption DEF control
<1>0. TypeOK /\ LateIsGone
  BY DEF Inv
<1>1. CASE UNCHANGED vars
  BY <1>0, <1>1 DEF vars, objects, Inv, TypeOK, LateIsGone
<1>2. CASE Start
  BY <1>0, <1>2, EmptyMapEmpty DEF Start, objects, Inv, TypeOK, LateIsGone
<1>3. CASE Stop \/ StopJoined \/ TimerFires \/ DetectDone
  <2>1. /\ UNCHANGED <<peers_, peers, ending, objects, late>>
        /\ started_' \in BOOLEAN /\ stopping' \in BOOLEAN /\ pass' \in {"idle", "begin", "loop"}
    BY <1>0, <1>3 DEF Stop, StopJoined, TimerFires, DetectDone, TypeOK
  <2> QED BY <1>0, <2>1 DEF objects, Inv, TypeOK, LateIsGone
<1>4. CASE DetectCopy
  BY <1>0, <1>4 DEF DetectCopy, objects, Inv, TypeOK, LateIsGone
<1>5. ASSUME NEW k \in Key, DetectDelay(k) PROVE Inv'
  <2>1. peers[k] \in NatDetectStruct
    BY <1>0, <1>5 DEF DetectDelay, TypeOK, Range
  <2>2. DOMAIN peers' = DOMAIN peers \ {k} /\ Range(peers') \subseteq Range(peers)
    BY <1>5, EraseMap DEF DetectDelay
  <2>3. TypeOK'
    BY <1>0, <1>5, <2>1, <2>2 DEF DetectDelay, TypeOK
  <2>4. LateIsGone'
    BY <1>0, <1>5, <2>2 DEF DetectDelay, LateIsGone, TypeOK
  <2> QED BY <2>3, <2>4 DEF Inv
<1>6. ASSUME NEW k \in Key, DoHandshake(k) PROVE Inv'
  <2>1. peers[k] \in NatDetectStruct
    BY <1>0, <1>6 DEF DoHandshake, TypeOK, Range
  <2>2. TypeOK'
    <3>1. detect_count' \in [NatDetectStruct -> 0 .. kDetectCount]
      BY <1>0, <1>6, <2>1 DEF DoHandshake, TypeOK
    <3>2. late' \in [Key -> Nat]
      BY <1>0, <1>6 DEF DoHandshake, TypeOK
    <3>3. ending' \subseteq Key
      BY <1>6 DEF DoHandshake
    <3>4. DOMAIN peers' = DOMAIN peers \ {k} /\ Range(peers') \subseteq Range(peers)
      BY <1>6, EraseMap DEF DoHandshake
    <3> QED BY <1>0, <1>6, <3>1, <3>2, <3>3, <3>4 DEF DoHandshake, TypeOK
  <2>3. LateIsGone'
    <3> SUFFICES ASSUME NEW x \in Key, late'[x] >= 1
                 PROVE  late'[x] = 1 /\ x \notin DOMAIN peers_' \cup DOMAIN peers'
      BY DEF LateIsGone
    <3>1. DOMAIN peers' = DOMAIN peers \ {k} /\ peers_' = peers_
      BY <1>6, EraseMap DEF DoHandshake
    <3>2. CASE x = k
      <4>1. late[k] = 0
        BY <1>0, <1>6 DEF DoHandshake, LateIsGone, TypeOK
      <4> QED BY <1>0, <1>6, <3>1, <3>2, <4>1 DEF DoHandshake, TypeOK
    <3>3. CASE x # k
      BY <1>0, <1>6, <3>1, <3>3 DEF DoHandshake, LateIsGone, TypeOK
    <3> QED BY <3>2, <3>3
  <2> QED BY <2>2, <2>3 DEF Inv
<1>7. ASSUME NEW k \in Key, DetectErase(k) PROVE Inv'
  <2>1. DOMAIN peers_' = DOMAIN peers_ \ {k} /\ Range(peers_') \subseteq Range(peers_)
    BY <1>7, EraseMap DEF DetectErase
  <2>2. TypeOK'
    BY <1>0, <1>7, <2>1 DEF DetectErase, objects, TypeOK
  <2>3. LateIsGone'
    BY <1>0, <1>7, <2>1 DEF DetectErase, LateIsGone, TypeOK
  <2> QED BY <2>2, <2>3 DEF Inv
<1>8. ASSUME NEW k \in Key, RemoveDetection(k) PROVE Inv'
  <2>1. DOMAIN peers_' = DOMAIN peers_ \ {k} /\ Range(peers_') \subseteq Range(peers_)
    BY <1>8, EraseMap DEF RemoveDetection
  <2>2. TypeOK'
    BY <1>0, <1>8, <2>1 DEF RemoveDetection, objects, TypeOK
  <2>3. LateIsGone'
    BY <1>0, <1>8, <2>1 DEF RemoveDetection, LateIsGone, TypeOK
  <2> QED BY <2>2, <2>3 DEF Inv
<1>9. ASSUME NEW k \in Key, NEW o \in NatDetectStruct, NEW delay \in DelayCounts,
             AddDetection(k, o, delay)
      PROVE  Inv'
  <2>1. DOMAIN peers_' = DOMAIN peers_ \cup {k} /\ Range(peers_') \subseteq Range(peers_) \cup {o}
    BY <1>9, AssignMap DEF AddDetection
  <2>2. TypeOK'
    <3>1. /\ detect_count' \in [NatDetectStruct -> 0 .. kDetectCount]
          /\ delay_count' \in [NatDetectStruct -> Nat]
          /\ late' \in [Key -> Nat]
      BY <1>0, <1>9 DEF AddDetection, TypeOK
    <3> QED BY <1>0, <1>9, <2>1, <3>1 DEF AddDetection, TypeOK
  <2>3. LateIsGone'
    BY <1>0, <1>9, <2>1 DEF AddDetection, LateIsGone, TypeOK
  <2> QED BY <2>2, <2>3 DEF Inv
<1> QED BY <1>1, <1>2, <1>3, <1>4, <1>5, <1>6, <1>7, <1>8, <1>9 DEF Next, DetectProc

(* The fields of the manager and of its detections keep their types, and   *)
(* the counts of an object that map and copy share never leave their       *)
(* range, however AddDetection and a running pass interleave.              *)
THEOREM TypeCorrect == Spec => []TypeOK
<1>1. Inv => TypeOK
  BY DEF Inv
<1> QED BY <1>1, InvInit, InvStep, PTL DEF Spec

(* For every set of peers: after RemoveDetection, or Start, or the erase   *)
(* of a used up detection, at most one more handshake goes out to a peer   *)
(* before it is added again.                                               *)
THEOREM OneLateHandshake == Spec => []AtMostOneLate
<1>1. Inv => AtMostOneLate
  <2> SUFFICES ASSUME Inv, NEW k \in Key PROVE late[k] <= 1
    BY DEF AtMostOneLate
  <2> QED BY DEF Inv, LateIsGone, TypeOK
<1> QED BY <1>1, InvInit, InvStep, PTL DEF Spec
=============================================================================
