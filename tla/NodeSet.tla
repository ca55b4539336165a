------------------------------ MODULE NodeSet ------------------------------
(***************************************************************************)
(* What the node store of RoutingTable promises to its callers: a set of   *)
(* NodeInfo objects to which one object at a time is added, if its peer is *)
(* not the local node and has room in its k-bucket, and from which one     *)
(* object at a time is dropped.  A peer that is in the set is not added    *)
(* again, unless calls for this peer have overlapped (contended).          *)
(* RoutingTable keeps this promise with four containers, three mutexes and *)
(* several steps a call.                                                   *)
(***************************************************************************)
EXTENDS Naturals, FiniteSets

CONSTANTS Object,      \* what the set may hold
          peer,        \* peer[o]: the peer an object describes
          bucket,      \* bucket[o]: the k-bucket it belongs to
          local,       \* the local node
          capacity     \* of a bucket

VARIABLES known,       \* the set
          contended    \* peers for which calls have overlapped

Init == known = {} /\ contended = {}

Add(o) ==
    /\ peer[o] # local
    /\ peer[o] \in contended' \/ \A n \in known : peer[n] # peer[o]
    /\ Cardinality({n \in known : bucket[n] = bucket[o]}) < capacity
    /\ known' = known \cup {o}

Drop(o) == o \in known /\ known' = known \ {o}

(* A call for the peer of o begins while another has not ended.            *)
Contend(o) == contended' = contended \cup {peer[o]}

Next ==
    \E o \in Object :
        /\ Add(o) \/ Drop(o) \/ UNCHANGED known
        /\ Contend(o) \/ UNCHANGED contended

Spec == Init /\ [][Next]_<<known, contended>>
=============================================================================
