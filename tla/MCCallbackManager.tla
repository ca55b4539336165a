-------------------------- MODULE MCCallbackManager --------------------------
(* Three items: one expects two answers, the others one.                   *)
EXTENDS CallbackManager, TLC

CONSTANTS i1, i2, i3

MCExpect == (i1 :> 2 @@ i2 :> 1 @@ i3 :> 1)
MCTimeout == (i1 :> 2 @@ i2 :> 1 @@ i3 :> 2)
=============================================================================
