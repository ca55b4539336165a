---------------------------- MODULE MCClientMode ----------------------------
(* s2 and s3 are virtual nodes of one process.                             *)
EXTENDS ClientMode

CONSTANTS s1, s2, s3

MCProcess == [s \in Server |-> IF s = s3 THEN s2 ELSE s]
=============================================================================
