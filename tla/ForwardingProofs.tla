-------------------------- MODULE ForwardingProofs --------------------------
(***************************************************************************)
(* The metric of KadId, and forwarding, which it steers.                   *)
(*                                                                         *)
(* First the metric, for ids of any size: CloserToTarget is a strict weak  *)
(* order that separates distinct ids.  std::sort and std::partial_sort are *)
(* called with it on the routing table and need exactly that; with it the  *)
(* nearest node of a table exists, so that what GetClosestNode returns is  *)
(* determined.                                                             *)
(***************************************************************************)
EXTENDS Forwarding, FiniteSetTheorems, WellFoundedInduction, TLAPS

(* A non-empty set of naturals has a least element.                        *)
LEMMA LeastNatural ==
    ASSUME NEW S \in SUBSET Nat, S # {}
    PROVE  \E n \in S : \A m \in S : n <= m
<1> DEFINE R == {ss \in Nat \X Nat : ss[1] < ss[2]}
<1>1. IsWellFoundedOn(R, Nat)
  BY NatLessThanWellFounded DEF OpToRel
<1>2. PICK n \in S : \A m \in S : <<m, n>> \notin R
  BY <1>1, WFMin
<1>3. \A m \in S : ~(m < n)
  BY <1>2
<1> QED BY <1>3

(* Two different functions on an initial segment of the naturals have a    *)
(* first difference.                                                       *)
LEMMA FirstDifference ==
    ASSUME NEW n \in Nat, NEW T, NEW f \in [0 .. n - 1 -> T],
           NEW g \in [0 .. n - 1 -> T], f # g
    PROVE  \E i \in 0 .. n - 1 : IsFirstDifference(f, g, i)
<1> DEFINE D == {i \in 0 .. n - 1 : f[i] # g[i]}
<1>1. D \in SUBSET Nat /\ D # {}
  OBVIOUS
<1>2. PICK i \in D : \A m \in D : i <= m
  BY <1>1, LeastNatural
<1>3. \A j \in 0 .. n - 1 : j < i => f[j] = g[j]
  BY <1>2
<1> QED BY <1>2, <1>3 DEF IsFirstDifference

-----------------------------------------------------------------------------
(* XOR of two bytes is a byte.                                             *)
LEMMA XorByteType ==
    ASSUME NEW a \in Byte, NEW b \in Byte
    PROVE  XorByte(a, b) \in Byte
BY KadIdAssumption DEF XorByte, Byte

(* XOR with the byte of the target loses nothing.                          *)
LEMMA XorByteInjective ==
    ASSUME NEW a \in Byte, NEW b \in Byte, NEW t \in Byte,
           XorByte(a, t) = XorByte(b, t)
    PROVE  a = b
<1>1. ASSUME NEW k \in BitIndex PROVE a[k] = b[k]
  <2>1. (a[k] + t[k]) % 2 = (b[k] + t[k]) % 2
    BY DEF XorByte
  <2>2. a[k] \in {0, 1} /\ b[k] \in {0, 1} /\ t[k] \in {0, 1}
    BY DEF Byte
  <2> QED BY <2>1, <2>2
<1> QED BY <1>1 DEF Byte

(* < on bytes is a strict total order.                                     *)
LEMMA ByteLessOrder ==
    ASSUME NEW a \in Byte, NEW b \in Byte, NEW c \in Byte
    PROVE  /\ ~ByteLess(a, a)
           /\ ByteLess(a, b) /\ ByteLess(b, c) => ByteLess(a, c)
           /\ a # b => ByteLess(a, b) \/ ByteLess(b, a)
<1> USE KadIdAssumption
<1>1. ~ByteLess(a, a)
  BY DEF ByteLess, Byte
<1>2. ASSUME ByteLess(a, b), ByteLess(b, c) PROVE ByteLess(a, c)
  <2>1. PICK k \in BitIndex : a[k] < b[k] /\ \A j \in BitIndex : j < k => a[j] = b[j]
    BY <1>2 DEF ByteLess
  <2>2. PICK m \in BitIndex : b[m] < c[m] /\ \A j \in BitIndex : j < m => b[j] = c[j]
    BY <1>2 DEF ByteLess
  <2>3. /\ a[k] \in {0, 1} /\ b[k] \in {0, 1} /\ c[k] \in {0, 1}
        /\ a[m] \in {0, 1} /\ b[m] \in {0, 1} /\ c[m] \in {0, 1}
    BY DEF Byte
  <2>4. k \in Int /\ m \in Int
    BY DEF BitIndex
  <2>5. CASE k < m
    BY <2>1, <2>2, <2>3, <2>4, <2>5 DEF ByteLess, BitIndex
  <2>6. CASE k >= m
    BY <2>1, <2>2, <2>3, <2>4, <2>6 DEF ByteLess, BitIndex
  <2> QED BY <2>4, <2>5, <2>6
<1>3. ASSUME a # b PROVE ByteLess(a, b) \/ ByteLess(b, a)
  <2>1. PICK k \in BitIndex : IsFirstDifference(a, b, k)
    BY <1>3, FirstDifference DEF Byte, BitIndex
  <2>2. a[k] \in {0, 1} /\ b[k] \in {0, 1} /\ a[k] # b[k]
    BY <2>1 DEF Byte, IsFirstDifference
  <2>3. \A j \in BitIndex : j < k => a[j] = b[j]
    BY <2>1 DEF IsFirstDifference, Byte
  <2> QED BY <2>2, <2>3 DEF ByteLess
<1> QED BY <1>1, <1>2, <1>3

-----------------------------------------------------------------------------
(***************************************************************************)
(* CloserToTarget, the comparison that every sort of the routing table     *)
(* uses, never holds of an id and itself, is transitive, and decides       *)
(* between any two different ids, whatever the target: a strict total      *)
(* order, hence the strict weak order that std::sort requires.             *)
(***************************************************************************)
THEOREM CloserIsStrictOrder ==
    ASSUME NEW x \in NodeId, NEW y \in NodeId, NEW z \in NodeId, NEW target \in NodeId
    PROVE  /\ ~CloserToTarget(x, x, target)
           /\ CloserToTarget(x, y, target) /\ CloserToTarget(y, z, target)
                 => CloserToTarget(x, z, target)
           /\ x # y => CloserToTarget(x, y, target) \/ CloserToTarget(y, x, target)
<1> USE KadIdAssumption
<1> DEFINE dist(id) == [i \in ByteIndex |-> XorByte(id[i], target[i])]
<1>1. ASSUME NEW id \in NodeId PROVE dist(id) \in [ByteIndex -> Byte]
  BY XorByteType DEF NodeId
<1>2. ASSUME NEW a \in NodeId, NEW b \in NodeId
      PROVE  CloserToTarget(a, b, target) <=>
                \E i \in ByteIndex :
                    /\ ByteLess(dist(a)[i], dist(b)[i])
                    /\ \A j \in ByteIndex : j < i => dist(a)[j] = dist(b)[j]
  BY DEF CloserToTarget
<1>3. ~CloserToTarget(x, x, target)
  BY <1>1, <1>2, ByteLessOrder
<1>4. ASSUME CloserToTarget(x, y, target), CloserToTarget(y, z, target)
      PROVE  CloserToTarget(x, z, target)
  <2>1. /\ dist(x) \in [ByteIndex -> Byte] /\ dist(y) \in [ByteIndex -> Byte]
        /\ dist(z) \in [ByteIndex -> Byte]
    BY <1>1
  <2>2. PICK i \in ByteIndex : /\ ByteLess(dist(x)[i], dist(y)[i])
                               /\ \A j \in ByteIndex : j < i => dist(x)[j] = dist(y)[j]
    BY <1>2, <1>4
  <2>3. PICK k \in ByteIndex : /\ ByteLess(dist(y)[k], dist(z)[k])
                               /\ \A j \in ByteIndex : j < k => dist(y)[j] = dist(z)[j]
    BY <1>2, <1>4
  <2>4. i \in Int /\ k \in Int /\ \A j \in ByteIndex : j \in Int
    BY DEF ByteIndex
  <2> HIDE DEF dist
  <2>5. CASE i < k
    <3>1. dist(y)[i] = dist(z)[i]
      BY <2>3, <2>5
    <3>2. \A j \in ByteIndex : j < i => dist(x)[j] = dist(z)[j]
      BY <2>2, <2>3, <2>4, <2>5
    <3> QED BY <1>2, <2>2, <3>1, <3>2
  <2>6. CASE i = k
    <3>1. ByteLess(dist(x)[i], dist(z)[i])
      BY <2>1, <2>2, <2>3, <2>6, ByteLessOrder
    <3>2. \A j \in ByteIndex : j < i => dist(x)[j] = dist(z)[j]
      BY <2>2, <2>3, <2>6
    <3> QED BY <1>2, <3>1, <3>2
  <2>7. CASE k < i
    <3>1. dist(x)[k] = dist(y)[k]
      BY <2>2, <2>7
    <3>2. \A j \in ByteIndex : j < k => dist(x)[j] = dist(z)[j]
      BY <2>2, <2>3, <2>4, <2>7
    <3> QED BY <1>2, <2>3, <3>1, <3>2
  <2> QED BY <2>4, <2>5, <2>6, <2>7
<1>5. ASSUME x # y
      PROVE  CloserToTarget(x, y, target) \/ CloserToTarget(y, x, target)
  <2>1. PICK i \in ByteIndex : IsFirstDifference(x, y, i)
    BY <1>5, FirstDifference DEF NodeId, ByteIndex
  <2>2. /\ x[i] # y[i] /\ x[i] \in Byte /\ y[i] \in Byte /\ target[i] \in Byte
        /\ \A j \in ByteIndex : j < i => x[j] = y[j]
    BY <2>1 DEF IsFirstDifference, NodeId
  <2>3. XorByte(x[i], target[i]) # XorByte(y[i], target[i])
    BY <2>2, XorByteInjective
  <2>4. \/ ByteLess(XorByte(x[i], target[i]), XorByte(y[i], target[i]))
        \/ ByteLess(XorByte(y[i], target[i]), XorByte(x[i], target[i]))
    BY <2>2, <2>3, XorByteType, ByteLessOrder
  <2> QED BY <2>2, <2>4 DEF CloserToTarget
<1> QED BY <1>3, <1>4, <1>5
-----------------------------------------------------------------------------
(***************************************************************************)
(* The sorted table.  Different ids have different ranks, the nearer one   *)
(* the lower rank, and the ranks of a table are 0, 1, ... without a gap:   *)
(* each place of the sorted vector is filled by exactly one node.          *)
(***************************************************************************)
LEMMA RanksOrdered ==
    ASSUME NEW ids \in SUBSET NodeId, IsFiniteSet(ids), NEW target \in NodeId
    PROVE  /\ \A x \in ids : /\ Rank(ids, target, x) \in Nat
                             /\ Rank(ids, target, x) < Cardinality(ids)
           /\ \A x, y \in ids : Rank(ids, target, x) < Rank(ids, target, y)
                                   <=> CloserToTarget(x, y, target)
           /\ \A x, y \in ids : Rank(ids, target, x) = Rank(ids, target, y) => x = y
<1> DEFINE before(id) == {x \in ids : CloserToTarget(x, id, target)}
           rank(id) == Cardinality(before(id))
<1>1. \A id \in ids : rank(id) = Rank(ids, target, id)
  BY DEF Rank
<1>2. \A id \in ids : IsFiniteSet(before(id)) /\ rank(id) \in Nat
  BY FS_Subset, FS_CardinalityType
<1>3. ASSUME NEW id \in ids PROVE rank(id) < Cardinality(ids)
  <2>1. before(id) \subseteq ids /\ id \notin before(id)
    BY CloserIsStrictOrder
  <2>2. rank(id) <= Cardinality(ids) /\ rank(id) # Cardinality(ids)
    BY <2>1, FS_Subset
  <2> QED BY <1>2, <2>2, FS_CardinalityType
<1>4. ASSUME NEW x \in ids, NEW y \in ids, CloserToTarget(x, y, target)
      PROVE  rank(x) < rank(y)
  <2>1. before(x) \subseteq before(y)
    BY <1>4, CloserIsStrictOrder
  <2>2. x \in before(y) /\ x \notin before(x)
    BY <1>4, CloserIsStrictOrder
  <2>3. rank(x) <= rank(y) /\ rank(x) # rank(y)
    BY <1>2, <2>1, <2>2, FS_Subset
  <2> QED BY <1>2, <2>3
<1>5. \A x, y \in ids : x # y => CloserToTarget(x, y, target) \/ CloserToTarget(y, x, target)
  BY CloserIsStrictOrder
<1> HIDE DEF rank
<1>6. ASSUME NEW x \in ids, NEW y \in ids
      PROVE  /\ rank(x) < rank(y) <=> CloserToTarget(x, y, target)
             /\ rank(x) = rank(y) => x = y
  <2>1. rank(x) \in Nat /\ rank(y) \in Nat
    BY <1>2
  <2>2. CASE x = y
    BY <2>1, <2>2, CloserIsStrictOrder
  <2>3. CASE CloserToTarget(x, y, target)
    <3>1. rank(x) < rank(y)
      BY <1>4, <2>3
    <3> QED BY <2>1, <2>3, <3>1
  <2>4. CASE CloserToTarget(y, x, target)
    <3>1. rank(y) < rank(x)
      BY <1>4, <2>4
    <3>2. ~CloserToTarget(x, y, target)
      BY <2>4, CloserIsStrictOrder
    <3> QED BY <2>1, <3>1, <3>2
  <2> QED BY <1>5, <2>2, <2>3, <2>4
<1> QED BY <1>1, <1>2, <1>3, <1>6

(* Every place of the sorted table is taken: for each number below the     *)
(* size of the table, one id has that many ids before it.                  *)
LEMMA RanksComplete ==
    ASSUME NEW ids \in SUBSET NodeId, IsFiniteSet(ids), NEW target \in NodeId,
           NEW k \in Nat, k < Cardinality(ids)
    PROVE  \E id \in ids : Rank(ids, target, id) = k
<1> DEFINE n == Cardinality(ids)
           f == [id \in ids |-> Rank(ids, target, id)]
<1>1. n \in Nat
  BY FS_CardinalityType
<1>2. IsFiniteSet(0 .. n - 1) /\ Cardinality(0 .. n - 1) = n
  <2>1. 0 \in Int /\ n - 1 \in Int
    BY <1>1
  <2>2. /\ IsFiniteSet(0 .. n - 1)
        /\ Cardinality(0 .. n - 1) = IF 0 > n - 1 THEN 0 ELSE (n - 1) - 0 + 1
    BY <2>1, FS_Interval
  <2> QED BY <1>1, <2>2
<1>3. f \in [ids -> 0 .. n - 1]
  <2>1. \A id \in ids : Rank(ids, target, id) \in 0 .. n - 1
    BY <1>1, RanksOrdered
  <2> QED BY <2>1
<1>4. \A x, y \in ids : f[x] = f[y] => x = y
  <2>1. \A x, y \in ids : Rank(ids, target, x) = Rank(ids, target, y) => x = y
    BY RanksOrdered
  <2> QED BY <2>1
<1> HIDE DEF f
<1>5. f \in Injection(ids, 0 .. n - 1)
  BY <1>3, <1>4 DEF Injection, IsInjective
<1>6. f \in Surjection(ids, 0 .. n - 1)
  BY <1>2, <1>5, FS_Injection
<1>7. k \in 0 .. n - 1
  BY <1>1
<1>8. PICK id \in ids : f[id] = k
  BY <1>6, <1>7 DEF Surjection
<1> QED BY <1>8 DEF f

(* GetClosestNodes returns the number nodes nearest to the target, each at *)
(* its place.                                                              *)
LEMMA ClosestNodesSorted ==
    ASSUME NEW ids \in SUBSET NodeId, IsFiniteSet(ids), NEW target \in NodeId,
           NEW number \in Nat
    PROVE  LET s == GetClosestNodes(ids, target, number)
           IN  /\ \A i \in DOMAIN s : /\ i \in Nat /\ s[i] \in ids
                                      /\ Rank(ids, target, s[i]) = i - 1
               /\ Range(s) = {id \in ids : Rank(ids, target, id) < number}
<1> DEFINE s == GetClosestNodes(ids, target, number)
           n == Cardinality(ids)
<1>1. n \in Nat
  BY FS_CardinalityType
<1>2. DOMAIN s = {k \in 1 .. n : k <= number}
  BY DEF GetClosestNodes
<1>3. ASSUME NEW i \in DOMAIN s
      PROVE  s[i] \in ids /\ Rank(ids, target, s[i]) = i - 1
  <2>1. s[i] = CHOOSE id \in ids : Rank(ids, target, id) = i - 1
    BY <1>3 DEF GetClosestNodes
  <2>2. i - 1 \in Nat /\ i - 1 < n
    BY <1>1, <1>2
  <2>3. \E id \in ids : Rank(ids, target, id) = i - 1
    BY <2>2, RanksComplete
  <2> QED BY <2>1, <2>3
<1> HIDE DEF s
<1>4. ASSUME NEW id \in Range(s) PROVE id \in ids /\ Rank(ids, target, id) < number
  <2>1. PICK i \in DOMAIN s : id = s[i]
    BY <1>4 DEF Range
  <2> QED BY <1>1, <1>2, <1>3, <2>1
<1>5. ASSUME NEW id \in ids, Rank(ids, target, id) < number PROVE id \in Range(s)
  <2>1. PICK r \in Nat : r = Rank(ids, target, id) /\ r < n
    BY RanksOrdered
  <2>2. r + 1 \in DOMAIN s
    BY <1>1, <1>2, <1>5, <2>1
  <2>3. s[r + 1] \in ids /\ Rank(ids, target, s[r + 1]) = r
    BY <1>3, <2>2, <2>1
  <2>4. s[r + 1] = id
    BY <2>1, <2>3, RanksOrdered
  <2> QED BY <2>2, <2>4 DEF Range
<1>6. \A i \in DOMAIN s : i \in Nat
  BY <1>1, <1>2
<1> QED BY <1>3, <1>4, <1>5, <1>6 DEF s

(* The scan finds the nearest of the wanted nodes, if there is one.        *)
LEMMA ScanFindsNearest ==
    ASSUME NEW ids \in SUBSET NodeId, IsFiniteSet(ids), NEW target \in NodeId,
           NEW number \in Nat, NEW wanted,
           NEW w \in ids, w \in wanted, Rank(ids, target, w) < number
    PROVE  LET c == FirstOf(GetClosestNodes(ids, target, number), wanted)
           IN  /\ c \in ids /\ c \in wanted
               /\ Rank(ids, target, c) < number
               /\ \A x \in ids : x \in wanted /\ x # c => CloserToTarget(c, x, target)
<1> DEFINE s == GetClosestNodes(ids, target, number)
           found == {i \in DOMAIN s : s[i] \in wanted}
           c == FirstOf(s, wanted)
<1>1. /\ \A i \in DOMAIN s : /\ i \in Nat /\ s[i] \in ids
                             /\ Rank(ids, target, s[i]) = i - 1
      /\ Range(s) = {id \in ids : Rank(ids, target, id) < number}
  BY ClosestNodesSorted
<1> HIDE DEF s
<1>2. PICK iw \in found : s[iw] = w
  BY <1>1 DEF Range
<1>3. found \in SUBSET Nat /\ found # {}
  BY <1>1, <1>2
<1>4. \E i \in found : \A j \in found : i <= j
  BY <1>3, LeastNatural
<1>5. PICK i \in found : c = s[i] /\ \A j \in found : i <= j
  BY <1>3, <1>4 DEF FirstOf
<1>6. c \in ids /\ c \in wanted /\ Rank(ids, target, c) = i - 1
  BY <1>1, <1>5
<1>7. Rank(ids, target, c) < number
  BY <1>1, <1>5 DEF Range
<1>8. ASSUME NEW x \in ids, x \in wanted, x # c PROVE CloserToTarget(c, x, target)
  <2>1. Rank(ids, target, x) \in Nat /\ Rank(ids, target, c) \in Nat
    BY <1>6, RanksOrdered
  <2>2. ~(Rank(ids, target, x) < Rank(ids, target, c))
    <3>1. SUFFICES ASSUME Rank(ids, target, x) < Rank(ids, target, c) PROVE FALSE
      OBVIOUS
    <3>2. Rank(ids, target, x) < number
      BY <1>7, <2>1, <3>1
    <3>3. PICK j \in DOMAIN s : s[j] = x
      BY <1>1, <3>2 DEF Range
    <3>4. j \in found /\ i <= j /\ Rank(ids, target, x) = j - 1
      BY <1>1, <1>5, <1>8, <3>3
    <3> QED BY <1>1, <1>5, <1>6, <3>1, <3>4
  <2>3. Rank(ids, target, x) # Rank(ids, target, c)
    BY <1>6, <1>8, RanksOrdered
  <2>4. Rank(ids, target, c) < Rank(ids, target, x)
    BY <2>1, <2>2, <2>3
  <2> QED BY <1>6, <2>4, RanksOrdered
<1> QED BY <1>6, <1>7, <1>8 DEF s

(* A non-empty set of nodes has a nearest one.                             *)
LEMMA NearestExists ==
    ASSUME NEW ids \in SUBSET NodeId, IsFiniteSet(ids), ids # {},
           NEW target \in NodeId
    PROVE  \E id \in ids : \A x \in ids : ~CloserToTarget(x, id, target)
<1>1. Cardinality(ids) \in Nat /\ 0 < Cardinality(ids)
  BY FS_CardinalityType, FS_EmptySet
<1>2. PICK id \in ids : Rank(ids, target, id) = 0
  BY <1>1, RanksComplete
<1>3. \A x \in ids : Rank(ids, target, x) \in Nat
  BY RanksOrdered
<1>4. \A x \in ids : ~(Rank(ids, target, x) < Rank(ids, target, id))
  BY <1>2, <1>3
<1> QED BY <1>4, RanksOrdered

(***************************************************************************)
(* GetClosestNode, which cuts the sorted table at RoutingMaxNodesSize_ and *)
(* scans what is left, returns the nearest of all nodes of the table that  *)
(* are neither the local one nor excluded, if fewer nodes of the table     *)
(* than RoutingMaxNodesSize_ are skipped.                                  *)
(***************************************************************************)
THEOREM GetClosestNodeIsNearest ==
    ASSUME NEW local, NEW ids \in SUBSET NodeId, IsFiniteSet(ids), NEW exclude,
           (ids \ {local}) \ exclude # {}, NEW target \in NodeId,
           Cardinality(ids \cap (exclude \cup {local})) < RoutingMaxNodesSize_
    PROVE  LET c == GetClosestNode(local, ids, target, exclude)
           IN  /\ c \in (ids \ {local}) \ exclude
               /\ \A x \in (ids \ {local}) \ exclude : x # c => CloserToTarget(c, x, target)
<1> DEFINE W == (ids \ {local}) \ exclude
           skipped == ids \cap (exclude \cup {local})
           c == GetClosestNode(local, ids, target, exclude)
<1>1. W \in SUBSET NodeId /\ IsFiniteSet(W) /\ W # {} /\ IsFiniteSet(skipped)
  BY FS_Subset
<1>2. PICK w \in W : \A x \in W : ~CloserToTarget(x, w, target)
  BY <1>1, NearestExists
<1>3. Rank(ids, target, w) < RoutingMaxNodesSize_
  <2>1. {x \in ids : CloserToTarget(x, w, target)} \subseteq skipped
    BY <1>2
  <2>2. Rank(ids, target, w) <= Cardinality(skipped)
    BY <1>1, <2>1, FS_Subset DEF Rank
  <2>3. Rank(ids, target, w) \in Nat /\ Cardinality(skipped) \in Nat
    BY <1>1, RanksOrdered, FS_CardinalityType
  <2> QED BY <2>2, <2>3, KadIdAssumption
<1>4. c = FirstOf(GetClosestNodes(ids, target, RoutingMaxNodesSize_), W)
  BY DEF GetClosestNode
<1>5. w \in ids /\ w \in W /\ RoutingMaxNodesSize_ \in Nat
  BY KadIdAssumption
<1> HIDE DEF c, W
<1>6. /\ c \in ids /\ c \in W
      /\ \A x \in ids : x \in W /\ x # c => CloserToTarget(c, x, target)
  BY <1>3, <1>4, <1>5, ScanFindsNearest
<1>7. W \subseteq ids
  BY DEF W
<1> QED BY <1>6, <1>7 DEF c, W

-----------------------------------------------------------------------------
(***************************************************************************)
(* The k-bucket index.  Its byte part and its bit part are the positions   *)
(* of the first difference of the two ids.                                 *)
(***************************************************************************)

(* Two different ids have a first different byte, and that a first         *)
(* different bit; SetNodeBucket combines the two.                          *)
LEMMA BucketOfDifference ==
    ASSUME NEW local \in NodeId, NEW id \in NodeId, local # id
    PROVE  \E i \in ByteIndex, k \in BitIndex :
              /\ IsFirstDifference(local, id, i)
              /\ IsFirstDifference(local[i], id[i], k)
              /\ SetNodeBucket(local, id) = kByteBits * (kNodeIdSize - i) - k
<1> USE KadIdAssumption
<1>1. PICK i : i = CHOOSE j \in ByteIndex : IsFirstDifference(local, id, j)
  OBVIOUS
<1>2. \E j \in ByteIndex : IsFirstDifference(local, id, j)
  BY FirstDifference DEF NodeId, ByteIndex
<1>3. i \in ByteIndex /\ IsFirstDifference(local, id, i)
  BY <1>1, <1>2
<1>4. local[i] \in Byte /\ id[i] \in Byte /\ local[i] # id[i]
  BY <1>3 DEF NodeId, IsFirstDifference
<1>5. PICK k : k = CHOOSE j \in BitIndex : IsFirstDifference(local[i], id[i], j)
  OBVIOUS
<1>6. \E j \in BitIndex : IsFirstDifference(local[i], id[i], j)
  BY <1>4, FirstDifference DEF Byte, BitIndex
<1>7. k \in BitIndex /\ IsFirstDifference(local[i], id[i], k)
  BY <1>5, <1>6
<1>8. SetNodeBucket(local, id) = kByteBits * (kNodeIdSize - i) - k
  BY <1>1, <1>5 DEF SetNodeBucket
<1> QED BY <1>3, <1>7, <1>8

(* kByteBits * n + r with r in 1 .. kByteBits is ordered by n first.       *)
LEMMA BitPositions ==
    ASSUME NEW B \in Nat, NEW m \in Nat, NEW n \in Nat, m < n
    PROVE  B * m + B <= B * n
<1>1. PICK d \in Nat : n = m + 1 + d
  <2>1. n - m - 1 \in Nat /\ n = m + 1 + (n - m - 1)
    OBVIOUS
  <2> QED BY <2>1
<1>2. B * n = B * m + B + B * d
  BY <1>1
<1>3. B * d \in Nat /\ B * m \in Nat /\ B * n \in Nat
  OBVIOUS
<1> QED BY <1>2, <1>3

(***************************************************************************)
(* SetNodeBucket always finds one of the buckets 0 .. kByteBits *          *)
(* kNodeIdSize, and kSelfBucketIndex only for the local id itself.         *)
(***************************************************************************)
THEOREM BucketInRange ==
    ASSUME NEW local \in NodeId, NEW id \in NodeId
    PROVE  /\ SetNodeBucket(local, id) \in 0 .. kByteBits * kNodeIdSize
           /\ SetNodeBucket(local, id) = kSelfBucketIndex <=> id = local
<1> USE KadIdAssumption
<1>0. kByteBits * kNodeIdSize \in Nat
  OBVIOUS
<1>1. CASE local = id
  BY <1>0, <1>1 DEF SetNodeBucket, kSelfBucketIndex
<1>2. CASE local # id
  <2>1. PICK i \in ByteIndex, k \in BitIndex :
            SetNodeBucket(local, id) = kByteBits * (kNodeIdSize - i) - k
    BY <1>2, BucketOfDifference
  <2>2. /\ i \in Nat /\ kNodeIdSize - i \in Nat /\ 0 < kNodeIdSize - i
        /\ k \in Nat /\ k < kByteBits
    BY DEF ByteIndex, BitIndex
  <2>3. PICK n \in Nat : n = kNodeIdSize - i
    BY <2>2
  <2>4. kByteBits * n \in Nat /\ kByteBits <= kByteBits * n
    <3>1. kByteBits * 0 + kByteBits <= kByteBits * n
      BY <2>2, <2>3, BitPositions
    <3>2. kByteBits * n \in Nat
      OBVIOUS
    <3> QED BY <3>1, <3>2
  <2>5. kByteBits * n <= kByteBits * kNodeIdSize
    <3>1. CASE n = kNodeIdSize
      BY <2>4, <3>1
    <3>2. CASE n < kNodeIdSize
      <4>1. kByteBits * n + kByteBits <= kByteBits * kNodeIdSize
        BY <3>2, BitPositions
      <4> QED BY <1>0, <2>4, <4>1
    <3> QED BY <2>2, <2>3, <3>1, <3>2
  <2>6. PICK M \in Nat : M = kByteBits * kNodeIdSize
    BY <1>0
  <2>7. PICK q \in Nat : q = kByteBits * n
    BY <2>4
  <2>8. SetNodeBucket(local, id) = q - k
    BY <2>1, <2>3, <2>7
  <2>9. kByteBits <= q /\ q <= M
    BY <2>4, <2>5, <2>6, <2>7
  <2>10. q - k \in 0 .. M /\ q - k # 0
    BY <2>2, <2>9
  <2> QED BY <1>2, <2>6, <2>8, <2>10 DEF kSelfBucketIndex
<1> QED BY <1>1, <1>2

(* An id of a lower bucket agrees with the local id in every bit up to and *)
(* with the first one in which an id of a higher bucket differs.           *)
LEMMA LowerBucketAgrees ==
    ASSUME NEW local \in NodeId, NEW a \in NodeId,
           NEW m \in ByteIndex, NEW n \in BitIndex,
           SetNodeBucket(local, a) < kByteBits * (kNodeIdSize - m) - n
    PROVE  /\ \A j \in ByteIndex : j < m => a[j] = local[j]
           /\ \A q \in BitIndex : q <= n => a[m][q] = local[m][q]
<1> USE KadIdAssumption
<1>1. CASE a = local
  BY <1>1
<1>2. CASE a # local
  <2>1. PICK i \in ByteIndex, k \in BitIndex :
            /\ IsFirstDifference(local, a, i)
            /\ IsFirstDifference(local[i], a[i], k)
            /\ SetNodeBucket(local, a) = kByteBits * (kNodeIdSize - i) - k
    BY <1>2, BucketOfDifference
  <2>2. /\ i \in Nat /\ m \in Nat /\ kNodeIdSize - i \in Nat /\ kNodeIdSize - m \in Nat
        /\ k \in Nat /\ k < kByteBits /\ n \in Nat /\ n < kByteBits
    BY DEF ByteIndex, BitIndex
  <2>3. /\ DOMAIN local = ByteIndex /\ DOMAIN local[i] = BitIndex
        /\ \A j \in ByteIndex : j \in Int
        /\ \A q \in BitIndex : q \in Int
    BY DEF NodeId, Byte, ByteIndex, BitIndex
  <2>4. m < i \/ (i = m /\ n < k)
    <3>1. PICK u \in Nat, v \in Nat : u = kNodeIdSize - i /\ v = kNodeIdSize - m
      BY <2>2
    <3>2. PICK x \in Nat, y \in Nat : x = kByteBits * u /\ y = kByteBits * v
      <4>1. kByteBits * u \in Nat /\ kByteBits * v \in Nat
        BY KadIdAssumption
      <4> QED BY <4>1, Zenon
    <3>3. x - k < y - n
      BY <2>1, <3>1, <3>2
    <3>4. ~(v < u)
      <4>1. v < u => y + kByteBits <= x
        BY <3>2, BitPositions
      <4> QED BY <2>2, <3>3, <4>1
    <3>5. u = v => n < k
      BY <2>2, <3>2, <3>3
    <3> QED BY <2>2, <3>1, <3>4, <3>5
  <2>5. CASE m < i
    BY <2>1, <2>2, <2>3, <2>5 DEF IsFirstDifference
  <2>6. CASE i = m /\ n < k
    <3>1. \A q \in BitIndex : q < k => local[i][q] = a[i][q]
      BY <2>1, <2>3 DEF IsFirstDifference
    <3>2. \A q \in BitIndex : q <= n => q < k
      BY <2>2, <2>3, <2>6
    <3>3. \A q \in BitIndex : q <= n => a[m][q] = local[m][q]
      BY <2>6, <3>1, <3>2
    <3>4. \A j \in ByteIndex : j < m => a[j] = local[j]
      BY <2>1, <2>3, <2>6 DEF IsFirstDifference
    <3> QED BY <3>3, <3>4
  <2> QED BY <2>4, <2>5, <2>6
<1> QED BY <1>1, <1>2

(***************************************************************************)
(* The buckets follow the metric: every id of a lower bucket is nearer to  *)
(* the local id than every id of a higher one, for ids of any length.  So  *)
(* the table sorted by CloserToTarget and the table by SetNodeBucket, which*)
(* are computed by two different loops of the code, agree.                 *)
(***************************************************************************)
THEOREM BucketsFollowDistance ==
    ASSUME NEW local \in NodeId, NEW a \in NodeId, NEW b \in NodeId
    PROVE  /\ SetNodeBucket(local, a) < SetNodeBucket(local, b)
                 => CloserToTarget(a, b, local)
           /\ CloserToTarget(a, b, local)
                 => SetNodeBucket(local, a) <= SetNodeBucket(local, b)
<1> USE KadIdAssumption
<1>1. ASSUME NEW x \in NodeId, NEW y \in NodeId,
             SetNodeBucket(local, x) < SetNodeBucket(local, y)
      PROVE  CloserToTarget(x, y, local)
  <2>0. /\ SetNodeBucket(local, x) \in 0 .. kByteBits * kNodeIdSize
        /\ SetNodeBucket(local, y) \in 0 .. kByteBits * kNodeIdSize
        /\ SetNodeBucket(local, local) = 0
    BY BucketInRange DEF kSelfBucketIndex
  <2>1. y # local
    BY <1>1, <2>0
  <2>2. PICK m \in ByteIndex, n \in BitIndex :
            /\ IsFirstDifference(local, y, m)
            /\ IsFirstDifference(local[m], y[m], n)
            /\ SetNodeBucket(local, y) = kByteBits * (kNodeIdSize - m) - n
    BY <2>1, BucketOfDifference
  <2>3. /\ \A j \in ByteIndex : j < m => x[j] = local[j]
        /\ \A q \in BitIndex : q <= n => x[m][q] = local[m][q]
    BY <1>1, <2>2, LowerBucketAgrees
  <2>4. /\ \A j \in ByteIndex : j < m => y[j] = local[j]
        /\ \A q \in BitIndex : q < n => y[m][q] = local[m][q]
        /\ y[m][n] # local[m][n]
    BY <2>2 DEF IsFirstDifference, NodeId, Byte
  <2>5. /\ x[m] \in Byte /\ y[m] \in Byte /\ local[m] \in Byte
        /\ \A q \in BitIndex : q \in Int
    BY DEF NodeId, BitIndex
  <2>6. XorByte(x[m], local[m])[n] = 0 /\ XorByte(y[m], local[m])[n] = 1
    <3>1. /\ x[m][n] \in {0, 1} /\ y[m][n] \in {0, 1} /\ local[m][n] \in {0, 1}
          /\ x[m][n] = local[m][n] /\ y[m][n] # local[m][n]
      BY <2>3, <2>4, <2>5 DEF Byte
    <3>2. (x[m][n] + local[m][n]) % 2 = 0 /\ (y[m][n] + local[m][n]) % 2 = 1
      BY <3>1
    <3> QED BY <3>2 DEF XorByte
  <2>7. \A q \in BitIndex : q < n =>
            XorByte(x[m], local[m])[q] = XorByte(y[m], local[m])[q]
    BY <2>3, <2>4, <2>5 DEF XorByte
  <2>8. ByteLess(XorByte(x[m], local[m]), XorByte(y[m], local[m]))
    BY <2>6, <2>7 DEF ByteLess
  <2>9. \A j \in ByteIndex : j < m => XorByte(x[j], local[j]) = XorByte(y[j], local[j])
    BY <2>3, <2>4
  <2> QED BY <2>8, <2>9 DEF CloserToTarget
<1>2. ASSUME CloserToTarget(a, b, local),
             ~(SetNodeBucket(local, a) <= SetNodeBucket(local, b))
      PROVE  FALSE
  <2>1. /\ SetNodeBucket(local, a) \in 0 .. kByteBits * kNodeIdSize
        /\ SetNodeBucket(local, b) \in 0 .. kByteBits * kNodeIdSize
    BY BucketInRange
  <2>2. SetNodeBucket(local, b) < SetNodeBucket(local, a)
    BY <1>2, <2>1
  <2>3. CloserToTarget(b, a, local)
    BY <1>1, <2>2
  <2> QED BY <1>2, <2>3, CloserIsStrictOrder
<1> QED BY <1>1, <1>2

(***************************************************************************)
(* ClosestToTarget answers the question it is asked: for a table that does *)
(* not hold the local id, and of which fewer nodes are excluded than       *)
(* GetClosestNode looks at, it says yes exactly when the local node is     *)
(* nearer to the target than every node that is not excluded.              *)
(***************************************************************************)
THEOREM ClosestToTargetIsRight ==
    ASSUME NEW local \in NodeId, NEW ids \in SUBSET NodeId, IsFiniteSet(ids),
           local \notin ids, NEW exclude, NEW target \in NodeId,
           Cardinality(ids \cap exclude) < RoutingMaxNodesSize_
    PROVE  ClosestToTarget(local, ids, target, exclude)
              <=> \A y \in ids \ exclude : CloserToTarget(local, y, target)
<1> USE KadIdAssumption
<1>0. /\ (ids \ {local}) \ exclude = ids \ exclude
      /\ ids \cap (exclude \cup {local}) = ids \cap exclude
  OBVIOUS
<1>1. CASE ids \ exclude = {}
  <2>1. GetClosestNode(local, ids, target, exclude) = NoNode
    BY <1>0, <1>1 DEF GetClosestNode, FirstOf
  <2> QED BY <1>1, <2>1 DEF ClosestToTarget
<1>2. CASE ids \ exclude # {}
  <2>1. PICK c : c = GetClosestNode(local, ids, target, exclude)
    OBVIOUS
  <2>2. /\ c \in ids \ exclude
        /\ \A x \in ids \ exclude : x # c => CloserToTarget(c, x, target)
    BY <1>0, <1>2, <2>1, GetClosestNodeIsNearest
  <2>3. c \in NodeId /\ c # local
    BY <2>2
  <2>4. c # NoNode
    <3>1. DOMAIN c = ByteIndex /\ 0 \in ByteIndex /\ DOMAIN NoNode = {}
      BY <2>3 DEF NodeId, NoNode, ByteIndex
    <3> QED BY <3>1
  <2>5. SetNodeBucket(local, c) # kSelfBucketIndex
    BY <2>3, BucketInRange
  <2>6. ClosestToTarget(local, ids, target, exclude) <=> CloserToTarget(local, c, target)
    BY <2>1, <2>4, <2>5 DEF ClosestToTarget
  <2>7. ASSUME CloserToTarget(local, c, target), NEW y \in ids \ exclude
        PROVE  CloserToTarget(local, y, target)
    <3>1. y \in NodeId /\ (y = c \/ CloserToTarget(c, y, target))
      BY <2>2
    <3> QED BY <2>3, <2>7, <3>1, CloserIsStrictOrder
  <2> QED BY <2>2, <2>6, <2>7
<1> QED BY <1>1, <1>2

-----------------------------------------------------------------------------
(***************************************************************************)
(* Forwarding has no loops, for any set of nodes, any tables and any       *)
(* change of tables and join states while a message is on its way.  The    *)
(* invariant needs one more fact than NoLoop: a message that was not sent  *)
(* yet has no hops.                                                        *)
(***************************************************************************)
Inv == TypeOK /\ NoLoop /\ (state = "none" => hop_nodes = <<>>)

(* Appending a new element keeps a sequence free of repetitions.           *)
LEMMA AppendNewHop ==
    ASSUME NEW S, NEW s \in Seq(S), NEW e \in S, IsInjective(s), e \notin Range(s)
    PROVE  /\ IsInjective(Append(s, e)) /\ Append(s, e) \in Seq(S)
           /\ Range(Append(s, e)) = Range(s) \cup {e}
<1> DEFINE t == Append(s, e)
<1>1. /\ t \in Seq(S) /\ Len(t) = Len(s) + 1 /\ Len(s) \in Nat
      /\ DOMAIN t = 1 .. Len(t) /\ DOMAIN s = 1 .. Len(s)
      /\ \A i \in 1 .. Len(s) : t[i] = s[i]
      /\ t[Len(s) + 1] = e
  OBVIOUS
<1> HIDE DEF t
<1>2. \A i \in 1 .. Len(s) : s[i] # e
  BY <1>1 DEF Range
<1>3. IsInjective(t)
  BY <1>1, <1>2 DEF IsInjective
<1>4. Range(t) = Range(s) \cup {e}
  <2>1. ASSUME NEW x \in Range(t) PROVE x \in Range(s) \cup {e}
    BY <1>1 DEF Range
  <2>2. ASSUME NEW x \in Range(s) \cup {e} PROVE x \in Range(t)
    <3>1. CASE x = e
      <4>1. Len(s) + 1 \in DOMAIN t
        BY <1>1
      <4> QED BY <1>1, <3>1, <4>1 DEF Range
    <3>2. CASE x \in Range(s)
      <4>1. PICK i \in 1 .. Len(s) : s[i] = x
        BY <1>1, <3>2 DEF Range
      <4>2. i \in DOMAIN t /\ t[i] = x
        BY <1>1, <4>1
      <4> QED BY <4>2 DEF Range
    <3> QED BY <3>1, <3>2
  <2> QED BY <2>1, <2>2
<1> QED BY <1>1, <1>3, <1>4 DEF t

(* The node that RecursiveSend picks is the nearest of its ready nodes.    *)
LEMMA NextHopReady ==
    ASSUME TypeOK, NEW n \in Node, NEW hops, ReadyNodes(n, hops) # {}
    PROVE  LET c == FirstOf(NextNodes(n), ReadyNodes(n, hops))
           IN  /\ c \in ReadyNodes(n, hops) /\ c \in nodes_[n]
               /\ \A x \in ReadyNodes(n, hops) : x # c => CloserToTarget(c, x, des_node_id)
<1>1. /\ nodes_[n] \in SUBSET NodeId /\ IsFiniteSet(nodes_[n]) /\ des_node_id \in NodeId
      /\ RoutingMaxNodesSize_ \in Nat
  BY FS_Subset, ForwardingAssumption, KadIdAssumption DEF TypeOK
<1>2. Range(NextNodes(n)) =
        {x \in nodes_[n] : Rank(nodes_[n], des_node_id, x) < RoutingMaxNodesSize_}
  BY <1>1, ClosestNodesSorted DEF NextNodes
<1>3. PICK w \in ReadyNodes(n, hops) : w \in Range(NextNodes(n))
  BY DEF ReadyNodes
<1>4. \A x \in ReadyNodes(n, hops) : x \in nodes_[n]
  BY <1>2 DEF ReadyNodes
<1> HIDE DEF ReadyNodes
<1>5. PICK c : c = FirstOf(NextNodes(n), ReadyNodes(n, hops))
  OBVIOUS
<1>6. /\ c \in nodes_[n] /\ c \in ReadyNodes(n, hops)
      /\ \A x \in nodes_[n] : x \in ReadyNodes(n, hops) /\ x # c
            => CloserToTarget(c, x, des_node_id)
  BY <1>1, <1>2, <1>3, <1>5, ScanFindsNearest DEF NextNodes
<1> QED BY <1>4, <1>5, <1>6

(* A node that has not forwarded the message yet forwards it, with or      *)
(* without recording itself.                                               *)
LEMMA SendKeepsInv ==
    ASSUME TypeOK, NEW n \in Node, NEW add_hop \in BOOLEAN,
           IsInjective(hop_nodes), n \notin Range(hop_nodes),
           SendToClosestNode(n, add_hop), UNCHANGED <<nodes_, joined_, des_node_id, still>>,
           at \in Node
    PROVE  TypeOK' /\ NoLoop' /\ state' # "none"
<1>1. IsInjective(hop_nodes') /\ hop_nodes' \in Seq(Node)
  <2>1. hop_nodes \in Seq(Node)
    BY DEF TypeOK
  <2>2. IsInjective(Append(hop_nodes, n)) /\ Append(hop_nodes, n) \in Seq(Node)
    BY <2>1, AppendNewHop
  <2>3. hop_nodes' = Append(hop_nodes, n) \/ hop_nodes' = hop_nodes
    BY DEF SendToClosestNode
  <2> QED BY <2>1, <2>2, <2>3
<1>2. CASE Drop
  BY <1>1, <1>2 DEF Drop, TypeOK, NoLoop
<1>3. CASE ~Drop
  <2>1. /\ ReadyNodes(n, hop_nodes') # {}
        /\ at' = FirstOf(NextNodes(n), ReadyNodes(n, hop_nodes'))
        /\ state' = "flight"
    BY <1>3 DEF SendToClosestNode, RecursiveSend
  <2>2. at' \in ReadyNodes(n, hop_nodes') /\ at' \in nodes_[n]
    BY <2>1, NextHopReady
  <2>3. at' \in Node /\ at' \notin Range(hop_nodes')
    BY <2>2 DEF ReadyNodes, TypeOK
  <2> QED BY <1>1, <2>1, <2>3 DEF TypeOK, NoLoop
<1> QED BY <1>2, <1>3

(* Inv is inductive.                                                       *)
LEMMA InvHolds == Spec => []Inv
<1>1. Init => Inv
  <2> SUFFICES ASSUME Init PROVE Inv
    OBVIOUS
  <2>1. hop_nodes \in Seq(Node) /\ DOMAIN hop_nodes = {}
    BY DEF Init
  <2>2. IsInjective(hop_nodes)
    BY <2>1 DEF IsInjective
  <2>3. TypeOK
    BY <2>1, ForwardingAssumption DEF Init, TypeOK, Tables
  <2> QED BY <2>2, <2>3 DEF Init, Inv, NoLoop
<1>2. Inv /\ [Next]_vars => Inv'
  <2> SUFFICES ASSUME Inv, [Next]_vars PROVE Inv'
    OBVIOUS
  <2>1. CASE UNCHANGED vars
    BY <2>1 DEF vars, message, Inv, TypeOK, NoLoop
  <2>2. CASE Lose
    BY <2>2 DEF Lose, Drop, Inv, TypeOK, NoLoop
  <2>3. ASSUME NEW n \in Node, SendRouted(n) PROVE Inv'
    <3>1. hop_nodes = <<>> /\ Range(hop_nodes) = {}
      BY <2>3 DEF SendRouted, Inv, Range
    <3>2. PICK add_hop \in BOOLEAN : SendToClosestNode(n, add_hop)
      BY <2>3 DEF SendRouted
    <3>3. TypeOK' /\ NoLoop' /\ state' # "none"
      BY <2>3, <3>1, <3>2, SendKeepsInv DEF SendRouted, Inv, NoLoop, TypeOK
    <3> QED BY <3>3 DEF Inv
  <2>4. ASSUME NEW n \in Node, NEW x \in Node, SendConnectRequest(n, x) PROVE Inv'
    <3>1. hop_nodes = <<>> /\ Range(hop_nodes) = {}
      BY <2>4 DEF SendConnectRequest, Inv, Range
    <3> QED BY <2>4, <3>1 DEF SendConnectRequest, Inv, TypeOK, NoLoop
  <2>5. ASSUME NEW n \in Node, HandleConnectRequest(n) PROVE Inv'
    <3>1. CASE des_node_id = n
      BY <2>5, <3>1 DEF HandleConnectRequest, Inv, TypeOK, NoLoop
    <3>2. CASE des_node_id # n
      <4>1. TypeOK' /\ NoLoop' /\ state' # "none"
        BY <2>5, <3>2, SendKeepsInv DEF HandleConnectRequest, Inv, NoLoop, TypeOK
      <4> QED BY <4>1 DEF Inv
    <3> QED BY <3>1, <3>2
  <2>6. ASSUME NEW n \in Node, NEW x \in Node, ChangeTable(n, x) PROVE Inv'
    BY <2>6 DEF ChangeTable, message, Inv, TypeOK, NoLoop
  <2>7. ASSUME NEW n \in Node, ChangeJoin(n) PROVE Inv'
    BY <2>7 DEF ChangeJoin, message, Inv, TypeOK, NoLoop
  <2> QED BY <2>1, <2>2, <2>3, <2>4, <2>5, <2>6, <2>7 DEF Next
<1> QED BY <1>1, <1>2, PTL DEF Spec

(* No interleaving of forwarding, loss and table changes sends a message   *)
(* through SendToClosestNode of the same node twice.                       *)
THEOREM ForwardingHasNoLoop == Spec => [](TypeOK /\ NoLoop)
<1>1. Inv => TypeOK /\ NoLoop
  BY DEF Inv
<1> QED BY <1>1, InvHolds, PTL

(* The tables and the message of SendToClosestNode are well typed: the     *)
(* next hop is always a node, never the nullptr of an empty choice.        *)
THEOREM TypeCorrect == Spec => []TypeOK
BY ForwardingHasNoLoop, PTL

(* So hop_nodes never grows beyond the number of nodes: forwarding ends    *)
(* although the code has no hop limit.                                     *)
THEOREM HopsBounded == Spec => [](Len(hop_nodes) <= Cardinality(Node))
<1>1. TypeOK /\ NoLoop => Len(hop_nodes) <= Cardinality(Node)
  <2> SUFFICES ASSUME TypeOK, NoLoop PROVE Len(hop_nodes) <= Cardinality(Node)
    OBVIOUS
  <2>1. /\ hop_nodes \in [1 .. Len(hop_nodes) -> Node] /\ Len(hop_nodes) \in Nat
        /\ IsInjective(hop_nodes)
    BY DEF TypeOK, NoLoop
  <2>2. hop_nodes \in Injection(1 .. Len(hop_nodes), Node)
    BY <2>1 DEF Injection
  <2>3. Cardinality(1 .. Len(hop_nodes)) <= Cardinality(Node)
    BY <2>2, FS_Injection, ForwardingAssumption
  <2>4. Cardinality(1 .. Len(hop_nodes)) = Len(hop_nodes)
    <3>1. 1 \in Int /\ Len(hop_nodes) \in Int
      BY <2>1
    <3>2. Cardinality(1 .. Len(hop_nodes))
            = IF 1 > Len(hop_nodes) THEN 0 ELSE Len(hop_nodes) - 1 + 1
      BY <3>1, FS_Interval
    <3> QED BY <2>1, <3>2
  <2> QED BY <2>3, <2>4
<1> QED BY <1>1, ForwardingHasNoLoop, PTL

-----------------------------------------------------------------------------
(***************************************************************************)
(* The safety half of GreedyDelivers.  While nothing changes or is lost a  *)
(* message in flight comes nearer with every hop; so the nodes it has      *)
(* passed lie behind it, and RecursiveSend finds the next one although it  *)
(* excludes them.  The code's RoutingMaxNodesSize_ is kKadParamK times the *)
(* number of buckets, more than a table holds.                             *)
(***************************************************************************)
TablesFit == Cardinality(Node) <= RoutingMaxNodesSize_

HopsAreBehind ==
    state = "flight" => \A h \in Range(hop_nodes) : CloserToTarget(at, h, des_node_id)

GreedyInv ==
    Inv /\ (still => joined_ = Node) /\ (still /\ CloserKnown => HopsAreBehind)

(* A message in flight is not dropped where every node knows a nearer one, *)
(* unless something changes or is lost.                                    *)
FlightGoesOn ==
    [][state = "flight" /\ still' /\ CloserKnown => state' # "dropped"]_vars

(* If the hops of the message are not nearer than n, RecursiveSend of n    *)
(* finds a node that is nearer.                                            *)
LEMMA FindsNearerNode ==
    ASSUME TablesFit, TypeOK, CloserKnown, NEW n \in Node, n # des_node_id, NEW hops,
           \A h \in Range(hops) : h = n \/ CloserToTarget(n, h, des_node_id),
           Range(hops) \subseteq Node
    PROVE  /\ ReadyNodes(n, hops) # {}
           /\ CloserToTarget(FirstOf(NextNodes(n), ReadyNodes(n, hops)), n, des_node_id)
<1>0. /\ nodes_[n] \in SUBSET NodeId /\ nodes_[n] \subseteq Node /\ IsFiniteSet(nodes_[n])
      /\ n \in NodeId /\ des_node_id \in NodeId /\ Node \subseteq NodeId
      /\ RoutingMaxNodesSize_ \in Nat
  BY FS_Subset, ForwardingAssumption, KadIdAssumption DEF TypeOK
<1>1. PICK x \in nodes_[n] : CloserToTarget(x, n, des_node_id) /\ endpoint[x] # endpoint[n]
  BY DEF CloserKnown
<1>2. x \in Range(NextNodes(n))
  <2>1. /\ Rank(nodes_[n], des_node_id, x) \in Nat
        /\ Rank(nodes_[n], des_node_id, x) < Cardinality(nodes_[n])
    BY <1>0, RanksOrdered
  <2>2. Cardinality(nodes_[n]) <= Cardinality(Node) /\ Cardinality(nodes_[n]) \in Nat
        /\ Cardinality(Node) \in Nat
    BY <1>0, FS_Subset, FS_CardinalityType, ForwardingAssumption
  <2>3. Rank(nodes_[n], des_node_id, x) < RoutingMaxNodesSize_
    BY <1>0, <2>1, <2>2 DEF TablesFit
  <2> QED BY <1>0, <2>3, ClosestNodesSorted DEF NextNodes
<1>3. x # n /\ x \notin Range(hops)
  BY <1>0, <1>1, CloserIsStrictOrder
<1>4. x \in ReadyNodes(n, hops)
  BY <1>1, <1>2, <1>3 DEF ReadyNodes
<1> HIDE DEF ReadyNodes
<1>5. PICK g : g = FirstOf(NextNodes(n), ReadyNodes(n, hops))
  OBVIOUS
<1>6. /\ g \in nodes_[n]
      /\ \A y \in ReadyNodes(n, hops) : y # g => CloserToTarget(g, y, des_node_id)
  BY <1>4, <1>5, NextHopReady
<1>7. g = x \/ CloserToTarget(g, x, des_node_id)
  BY <1>4, <1>6
<1>8. CloserToTarget(g, n, des_node_id)
  BY <1>0, <1>1, <1>6, <1>7, CloserIsStrictOrder
<1> QED BY <1>4, <1>5, <1>8

(* A node that all hops lie behind, or that is the origin, sends on, and   *)
(* the message is then nearer than all its hops.                           *)
LEMMA SendsNearer ==
    ASSUME TablesFit, TypeOK, CloserKnown, joined_ = Node, IsInjective(hop_nodes),
           NEW n \in Node, n # des_node_id, n \notin Range(hop_nodes),
           \A h \in Range(hop_nodes) : CloserToTarget(n, h, des_node_id),
           NEW add_hop \in BOOLEAN, SendToClosestNode(n, add_hop)
    PROVE  state' = "flight" /\ \A h \in Range(hop_nodes') : CloserToTarget(at', h, des_node_id)
<1>0. hop_nodes \in Seq(Node) /\ Range(hop_nodes) \subseteq Node
  BY DEF TypeOK, Range
<1>1. /\ IsInjective(hop_nodes') /\ Range(hop_nodes') \subseteq Range(hop_nodes) \cup {n}
      /\ RecursiveSend(n, hop_nodes')
  <2>1. /\ IsInjective(Append(hop_nodes, n))
        /\ Range(Append(hop_nodes, n)) = Range(hop_nodes) \cup {n}
    BY <1>0, AppendNewHop
  <2>2. /\ hop_nodes' = Append(hop_nodes, n) \/ hop_nodes' = hop_nodes
        /\ RecursiveSend(n, hop_nodes')
    BY DEF SendToClosestNode
  <2> QED BY <2>1, <2>2
<1>2. PICK hops : hops = hop_nodes'
  OBVIOUS
<1>3. /\ Range(hops) \subseteq Node
      /\ \A h \in Range(hops) : h = n \/ CloserToTarget(n, h, des_node_id)
  BY <1>0, <1>1, <1>2
<1>4. /\ ReadyNodes(n, hops) # {}
      /\ CloserToTarget(FirstOf(NextNodes(n), ReadyNodes(n, hops)), n, des_node_id)
  BY <1>3, FindsNearerNode
<1>5. /\ state' = "flight" /\ at' = FirstOf(NextNodes(n), ReadyNodes(n, hops))
  BY <1>1, <1>2, <1>4 DEF RecursiveSend
<1>6. at' \in NodeId /\ n \in NodeId /\ des_node_id \in NodeId /\ Range(hops) \subseteq NodeId
  <2>1. at' \in nodes_[n]
    BY <1>4, <1>5, NextHopReady
  <2>2. at' \in Node
    BY <2>1 DEF TypeOK
  <2> QED BY <1>3, <2>2, ForwardingAssumption DEF TypeOK
<1>7. CloserToTarget(at', n, des_node_id)
  BY <1>4, <1>5
<1>8. \A h \in Range(hops) : CloserToTarget(at', h, des_node_id)
  BY <1>3, <1>6, <1>7, CloserIsStrictOrder
<1> QED BY <1>2, <1>5, <1>8

(* While nothing changes, the message comes nearer.                        *)
LEMMA GreedyInvStep ==
    ASSUME TablesFit, GreedyInv, [Next]_vars
    PROVE  /\ still' => joined_' = Node
           /\ still' /\ CloserKnown' => HopsAreBehind'
           /\ state = "flight" /\ still' /\ CloserKnown => state' # "dropped"
<1>0. /\ TypeOK /\ NoLoop /\ (state = "none" => hop_nodes = <<>>)
      /\ still => joined_ = Node
  BY DEF GreedyInv, Inv
<1>1. CASE UNCHANGED vars
  BY <1>1 DEF vars, message, GreedyInv, CloserKnown, HopsAreBehind
<1>2. ASSUME NEW n \in Node, SendRouted(n), still'
      PROVE  /\ joined_' = Node /\ (CloserKnown' => HopsAreBehind')
             /\ state # "flight"
  <2>1. /\ hop_nodes = <<>> /\ Range(hop_nodes) = {} /\ still /\ joined_ = Node
        /\ UNCHANGED <<nodes_, joined_, des_node_id>> /\ state = "none"
    BY <1>0, <1>2 DEF SendRouted, Range
  <2>2. PICK add_hop \in BOOLEAN : SendToClosestNode(n, add_hop)
    BY <1>2 DEF SendRouted
  <2>3. CloserKnown' <=> CloserKnown
    BY <2>1 DEF CloserKnown
  <2>4. CASE n = des_node_id
    BY <1>0, <2>1, <2>2, <2>4 DEF SendToClosestNode, Drop, HopsAreBehind
  <2>5. CASE n # des_node_id
    <3>1. CloserKnown => HopsAreBehind'
      BY <1>0, <2>1, <2>2, <2>5, SendsNearer DEF NoLoop, HopsAreBehind
    <3> QED BY <2>1, <2>3, <3>1
  <2> QED BY <2>4, <2>5
<1>3. ASSUME NEW n \in Node, NEW x \in Node, SendConnectRequest(n, x)
      PROVE  /\ still' => joined_' = Node
             /\ CloserKnown' => HopsAreBehind'
             /\ state # "flight"
  <2>1. hop_nodes' = <<>> /\ Range(hop_nodes') = {}
    BY <1>0, <1>3 DEF SendConnectRequest, Range
  <2> QED BY <1>0, <1>3, <2>1 DEF SendConnectRequest, HopsAreBehind
<1>4. ASSUME NEW n \in Node, HandleConnectRequest(n), still'
      PROVE  /\ joined_' = Node /\ (CloserKnown' => HopsAreBehind')
             /\ CloserKnown => state' # "dropped"
  <2>1. /\ state = "flight" /\ at = n /\ UNCHANGED <<nodes_, joined_, des_node_id>>
        /\ still /\ joined_ = Node
    BY <1>0, <1>4 DEF HandleConnectRequest
  <2>2. CloserKnown' <=> CloserKnown
    BY <2>1 DEF CloserKnown
  <2>3. CASE n = des_node_id
    BY <1>0, <1>4, <2>1, <2>3 DEF HandleConnectRequest, HopsAreBehind
  <2>4. CASE n # des_node_id
    <3>1. SendToClosestNode(n, TRUE)
      BY <1>4, <2>4 DEF HandleConnectRequest
    <3>2. ASSUME CloserKnown PROVE state' = "flight" /\ HopsAreBehind'
      <4>1. \A h \in Range(hop_nodes) : CloserToTarget(n, h, des_node_id)
        BY <2>1, <3>2 DEF GreedyInv, HopsAreBehind
      <4>2. n \notin Range(hop_nodes) /\ IsInjective(hop_nodes)
        BY <1>0, <2>1 DEF NoLoop
      <4>3. /\ state' = "flight"
            /\ \A h \in Range(hop_nodes') : CloserToTarget(at', h, des_node_id)
        BY <1>0, <2>1, <2>4, <3>1, <3>2, <4>1, <4>2, SendsNearer
      <4> QED BY <2>1, <4>3 DEF HopsAreBehind
    <3> QED BY <2>1, <2>2, <3>2
  <2> QED BY <2>3, <2>4
<1>5. ASSUME \/ Lose
             \/ \E n \in Node : ChangeJoin(n) \/ \E x \in Node : ChangeTable(n, x)
      PROVE  ~still'
  BY <1>5 DEF Lose, ChangeJoin, ChangeTable
<1> QED BY <1>1, <1>2, <1>3, <1>4, <1>5 DEF Next

(* Greedy routing never gives up on the way: where tables and joins stand  *)
(* still, nothing is lost, every node but the destination knows one nearer *)
(* to it in another process, and tables fit into RoutingMaxNodesSize_, no  *)
(* node that SendToClosestNode has reached drops the message, neither for  *)
(* an empty ready_nodes nor for a repeated hop.  With HopsBounded, a       *)
(* message in flight is delivered after at most as many hops as there are  *)
(* nodes.                                                                  *)
THEOREM GreedyNeverDrops ==
    ASSUME TablesFit PROVE Spec => FlightGoesOn
<1> DEFINE A == state = "flight" /\ still' /\ CloserKnown => state' # "dropped"
<1>1. Init /\ Inv => GreedyInv
  BY DEF Init, HopsAreBehind, GreedyInv
<1>2. GreedyInv /\ Inv' /\ [Next]_vars => GreedyInv' /\ [A]_vars
  BY GreedyInvStep DEF GreedyInv
<1> HIDE DEF A
<1>3. Spec => [][A]_vars
  BY <1>1, <1>2, InvHolds, PTL DEF Spec
<1> QED BY <1>3 DEF A, FlightGoesOn
=============================================================================
