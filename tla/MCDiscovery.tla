---------------------------- MODULE MCDiscovery ----------------------------
(* r is the public bootstrap node, a is behind an abnormal NAT, and b and  *)
(* c are virtual nodes of one process, c in client mode.                   *)
EXTENDS Discovery

CONSTANTS r, a, b, c

MCEndpoint == [n \in Node |-> IF n \in {b, c} THEN b ELSE n]

MCNatType == [n \in Node |-> IF n = r THEN "public" ELSE IF n = a THEN "abnormal" ELSE "cone"]
=============================================================================
