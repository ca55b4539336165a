------------------------------ MODULE MCKadId ------------------------------
(***************************************************************************)
(* Checks the metric of KadId against its arithmetic definition: an id is  *)
(* the number its bits spell and the distance of two ids is their bitwise  *)
(* exclusive or.  Every state is one choice of a local id, two other ids   *)
(* and then of a small routing table.                                      *)
(***************************************************************************)
EXTENDS KadId, FiniteSetsExt, Bitwise

CONSTANT MaxTable          \* bound on the size of the table

VARIABLES local, a, b, table

vars == <<local, a, b, table>>

RECURSIVE BitsValue(_, _)
BitsValue(id, n) ==
    IF n = 0 THEN 0
    ELSE 2 * BitsValue(id, n - 1)
         + id[(n - 1) \div kByteBits][(n - 1) % kByteBits]

Value(id) == BitsValue(id, kNodeIdSize * kByteBits)
Distance(x, y) == Value(x) ^^ Value(y)

Init == /\ local \in NodeId /\ a \in NodeId /\ b \in NodeId
        /\ table = {}

(* Fill the table with any ids; the table never holds the local id.  Its   *)
(* target is a, so one b will do.                                          *)
Fill == /\ table = {} /\ b = a
        /\ \E n \in 1 .. MaxTable : table' \in kSubset(n, NodeId \ {local})
        /\ UNCHANGED <<local, a, b>>

Next == Fill

Spec == Init /\ [][Next]_vars

(* The byte loop of CloserToTarget orders ids by the numeric value of the  *)
(* XOR distance to the target.                                             *)
CloserIsXorDistance ==
    CloserToTarget(a, b, local) <=> Distance(a, local) < Distance(b, local)

(* SetNodeBucket puts ids into the same bucket exactly when their XOR      *)
(* distances to the local id have the same length in bits, and into the    *)
(* higher bucket when theirs is longer; the local id has a bucket of its   *)
(* own below all others.  How the buckets are numbered is left open.       *)
BucketsAreDistanceLengths ==
    LET length(id) == CHOOSE n \in 0 .. kNodeIdSize * kByteBits :
                          /\ Distance(id, local) < 2 ^ n
                          /\ n > 0 => 2 ^ (n - 1) <= Distance(id, local)
    IN  SetNodeBucket(local, a) <= SetNodeBucket(local, b) <=> length(a) <= length(b)

(* GetClosestNode sorts, cuts the table at RoutingMaxNodesSize_ and scans. *)
(* What it returns is at the least distance of all nodes of the table that *)
(* are not excluded, those behind the cut included; and it returns nullptr *)
(* only if all nodes are excluded, or so many that they fill the cut.      *)
ClosestIsMinimal ==
    \A x \in SUBSET table :
        LET c == GetClosestNode(local, table, a, x)
        IN  IF c = NoNode
            THEN x = table \/ Cardinality(x) >= RoutingMaxNodesSize_
            ELSE /\ c \in table \ x
                 /\ \A y \in table \ x : Distance(c, a) <= Distance(y, a)

(* ClosestToTarget says yes exactly when no node of the table that is not  *)
(* excluded is strictly nearer to the target than the local node, as long  *)
(* as fewer nodes are excluded than GetClosestNode looks at.               *)
ClosestToTargetIsExact ==
    \A x \in {z \in SUBSET table : Cardinality(z) < RoutingMaxNodesSize_} :
        (a # local /\ table # {}) =>
            (ClosestToTarget(local, table, a, x)
                <=> \A y \in table \ x : Distance(local, a) < Distance(y, a))
=============================================================================
