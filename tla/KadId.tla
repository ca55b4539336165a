------------------------------- MODULE KadId -------------------------------
(***************************************************************************)
(* Node ids and the XOR metric of RoutingTable (src/routing_table.cc).     *)
(*                                                                         *)
(* A node id is a std::string of kNodeIdSize bytes.  Here it is a function *)
(* from byte index to byte, and a byte is a function from bit index to bit *)
(* whose bit 0 is the most significant one (the code reads                 *)
(* bitset[7U - bit_index]).  kByteBits is 8 in the code; it is a parameter *)
(* so that small instances keep several bytes of several bits.             *)
(***************************************************************************)
EXTENDS Integers, FiniteSets

CONSTANTS kNodeIdSize,             \* bytes of a node id
          kByteBits,               \* bits of a byte
          RoutingMaxNodesSize_     \* the most nodes GetClosestNode looks at

ASSUME KadIdAssumption == /\ kNodeIdSize \in Nat \ {0}
                          /\ kByteBits \in Nat \ {0}
                          /\ RoutingMaxNodesSize_ \in Nat

kSelfBucketIndex == 0

ByteIndex == 0 .. kNodeIdSize - 1
BitIndex == 0 .. kByteBits - 1
Byte == [BitIndex -> {0, 1}]
NodeId == [ByteIndex -> Byte]

(***************************************************************************)
(* The bytewise operations the code uses: ^ on two bytes, and < on two     *)
(* unsigned chars, decided by the most significant bit in which they       *)
(* differ.                                                                 *)
(***************************************************************************)
XorByte(a, b) == [k \in BitIndex |-> (a[k] + b[k]) % 2]

ByteLess(a, b) ==
    \E k \in BitIndex : /\ a[k] < b[k]
                        /\ \A j \in BitIndex : j < k => a[j] = b[j]

CloserToTargetLastByte(id1, id2, target) ==     \* mutant: bytes from the back
    \E i \in ByteIndex :
        /\ ByteLess(XorByte(id1[i], target[i]), XorByte(id2[i], target[i]))
        /\ \A j \in ByteIndex :
               j > i => XorByte(id1[j], target[j]) = XorByte(id2[j], target[j])

(***************************************************************************)
(* CloserToTarget: the first byte in which the two distances differ        *)
(* decides; equal distances give FALSE.                                    *)
(***************************************************************************)
CloserToTarget(id1, id2, target) ==
    \E i \in ByteIndex :
        /\ ByteLess(XorByte(id1[i], target[i]), XorByte(id2[i], target[i]))
        /\ \A j \in ByteIndex :
               j < i => XorByte(id1[j], target[j]) = XorByte(id2[j], target[j])

(***************************************************************************)
(* SetNodeBucket: the bucket index it stores in the node.  The code also   *)
(* returns kKadFailed exactly when it stores kSelfBucketIndex.             *)
(***************************************************************************)
IsFirstDifference(a, b, i) ==
    a[i] # b[i] /\ \A j \in DOMAIN a : j < i => a[j] = b[j]

SetNodeBucketFromBack(local, id) ==             \* mutant: bitset[bit_index]
    IF local = id
    THEN kSelfBucketIndex
    ELSE LET i == CHOOSE i \in ByteIndex : IsFirstDifference(local, id, i)
             k == CHOOSE k \in BitIndex : local[i][k] # id[i][k]
                        /\ \A j \in BitIndex : j > k => local[i][j] = id[i][j]
         IN  kByteBits * (kNodeIdSize - i) - k

SetNodeBucket(local, id) ==
    IF local = id
    THEN kSelfBucketIndex
    ELSE LET i == CHOOSE i \in ByteIndex : IsFirstDifference(local, id, i)
             k == CHOOSE k \in BitIndex : IsFirstDifference(local[i], id[i], k)
         IN  kByteBits * (kNodeIdSize - i) - k

(***************************************************************************)
(* GetClosestNodes: SortNodesByTargetXid brings the number nodes nearest   *)
(* to the target to the front of nodes_ (partial_sort), and those are      *)
(* returned, nearest first.  The ids of a table are distinct, so the place *)
(* of an id is the number of ids before it.                                *)
(***************************************************************************)
Rank(ids, target, id) == Cardinality({x \in ids : CloserToTarget(x, id, target)})

GetClosestNodesReversed(ids, target, number) == \* mutant: lhs and rhs swapped in the sort
    [i \in {k \in 1 .. Cardinality(ids) : k <= number} |->
        CHOOSE id \in ids : Cardinality({x \in ids : CloserToTarget(id, x, target)}) = i - 1]

GetClosestNodes(ids, target, number) ==
    [i \in {k \in 1 .. Cardinality(ids) : k <= number} |->
        CHOOSE id \in ids : Rank(ids, target, id) = i - 1]

(***************************************************************************)
(* The scan of GetClosestNode and of RecursiveSend: the first of the       *)
(* sorted nodes that is wanted.  NoNode is the code's nullptr.             *)
(***************************************************************************)
NoNode == [i \in {} |-> 0]

FirstOf(nodes, wanted) ==
    LET found == {i \in DOMAIN nodes : nodes[i] \in wanted}
    IN  IF found = {} THEN NoNode
        ELSE nodes[CHOOSE i \in found : \A j \in found : i <= j]

GetClosestNode(local, ids, target, exclude) ==
    FirstOf(GetClosestNodes(ids, target, RoutingMaxNodesSize_), (ids \ {local}) \ exclude)

ClosestToTargetSwapped(local, ids, target, exclude) ==   \* mutant: arguments swapped
    LET closest_node == GetClosestNode(local, ids, target, exclude)
    IN  closest_node = NoNode \/ CloserToTarget(closest_node, local, target)

(***************************************************************************)
(* ClosestToTarget with an exclude set, for a valid target other than the  *)
(* local id and a table that is not empty: does the local node believe it  *)
(* is the closest one?                                                     *)
(***************************************************************************)
ClosestToTarget(local, ids, target, exclude) ==
    LET closest_node == GetClosestNode(local, ids, target, exclude)
    IN  \/ closest_node = NoNode
        \/ SetNodeBucket(local, closest_node) = kSelfBucketIndex
        \/ CloserToTarget(local, closest_node, target)
=============================================================================
