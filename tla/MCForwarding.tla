---------------------------- MODULE MCForwarding ----------------------------
(***************************************************************************)
(* Instances of Forwarding with ids of three bits.                         *)
(***************************************************************************)
EXTENDS Forwarding, TLC

MCId(b0, b1, b2) == [i \in ByteIndex |-> (0 :> b0 @@ 1 :> b1 @@ 2 :> b2)]

MCFourNodes == {MCId(0, 0, 0), MCId(0, 0, 1), MCId(0, 1, 1), MCId(1, 0, 0)}

MCFirstNode == {MCId(0, 0, 0)}
MCTarget == {MCId(0, 0, 0), MCId(0, 0, 1), MCId(1, 1, 1)}
MCUnstable == {MCId(1, 0, 0)}

MCKnows ==
    (MCId(0, 0, 0) :> {MCId(0, 1, 1), MCId(1, 0, 0)})
    @@ (MCId(0, 0, 1) :> {MCId(0, 0, 0), MCId(0, 1, 1), MCId(1, 0, 0)})
    @@ (MCId(0, 1, 1) :> {MCId(0, 0, 0), MCId(0, 0, 1)})
    @@ (MCId(1, 0, 0) :> {MCId(0, 0, 1), MCId(0, 1, 1)})

(* 000 and 011 are virtual nodes of one process.                           *)
MCSharedEndpoint ==
    [n \in Node |-> IF n = MCId(0, 1, 1) THEN MCId(0, 0, 0) ELSE n]
=============================================================================
