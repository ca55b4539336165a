--------------------------- MODULE MCRoutingTable ---------------------------
(***************************************************************************)
(* Instances of RoutingTable with ids of three bits.  The local node has   *)
(* id 000; p and q are in bucket 3, s in 2.  p1 and p2, q1 and q2 are      *)
(* NodeInfo objects of one peer each.                                      *)
(***************************************************************************)
EXTENDS RoutingTable, TLC

CONSTANTS p1, p2, q1, q2, s1        \* NodeInfo objects
CONSTANTS t1, t2                    \* threads

MCId(b0, b1, b2) == [i \in ByteIndex |-> (0 :> b0 @@ 1 :> b1 @@ 2 :> b2)]

MCLocalId == MCId(0, 0, 0)

MCNodeId ==
    [o \in NodeInfoPtr |->
        CASE o \in {p1, p2} -> MCId(1, 0, 0)
          [] o \in {q1, q2} -> MCId(1, 0, 1)
          [] o = s1 -> MCId(0, 1, 0)]

(* q and s are virtual nodes of the local process: they share its public   *)
(* address and its xid, whose hash is 2.                                   *)
MCHash == [o \in NodeInfoPtr |-> IF o \in {p1, p2} THEN 1 ELSE 2]

MCEndpoint == [o \in NodeInfoPtr |-> IF o \in {p1, p2} THEN "e1" ELSE "e2"]

MCAcceptable == [o \in NodeInfoPtr |-> TRUE]

Symmetry == Permutations(Thread)
=============================================================================
