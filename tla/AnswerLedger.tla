---------------------------- MODULE AnswerLedger ----------------------------
(***************************************************************************)
(* What CallbackManager promises to those who add a callback: a ledger of  *)
(* the answers each request is told to expect.  An answer that came, or    *)
(* that nobody waits for any longer, becomes due and then one call of the  *)
(* callback; or the answers still missing are given up together.  Nothing  *)
(* becomes due twice, and nothing that is due is forgotten.                *)
(*                                                                         *)
(* There are no message ids here, no map, no items that time out and no    *)
(* timer thread with a list of ids that it has read earlier.               *)
(***************************************************************************)
EXTENDS Naturals

CONSTANTS Request,     \* what callbacks are added for
          expected     \* expected[r]: the answers a request is to get

VARIABLES accepted,    \* requests that are in the ledger
          missing,     \* missing[r]: answers that r still waits for
          due,         \* due[r]: calls that have been decided on
          made         \* made[r]: calls so far

ledger == <<accepted, missing, due, made>>

Init ==
    /\ accepted = {}
    /\ missing = [r \in Request |-> 0]
    /\ due = [r \in Request |-> 0]
    /\ made = [r \in Request |-> 0]

Accept(r) ==
    /\ r \notin accepted /\ accepted' = accepted \cup {r}
    /\ missing' = [missing EXCEPT ![r] = expected[r]]
    /\ UNCHANGED <<due, made>>

(* An answer came.                                                         *)
Answered(r) ==
    /\ missing[r] > 0
    /\ missing' = [missing EXCEPT ![r] = @ - 1]
    /\ due' = [due EXCEPT ![r] = @ + 1]
    /\ UNCHANGED <<accepted, made>>

(* A timeout or a cancel: one call for every answer that is missing.       *)
Expired(r) ==
    /\ missing[r] > 0
    /\ missing' = [missing EXCEPT ![r] = 0]
    /\ due' = [due EXCEPT ![r] = @ + missing[r]]
    /\ UNCHANGED <<accepted, made>>

(* A silent cancel, or the end of the manager.                             *)
GivenUp(rs) ==
    /\ missing' = [r \in Request |-> IF r \in rs THEN 0 ELSE missing[r]]
    /\ UNCHANGED <<accepted, due, made>>

Made(r) ==
    /\ due[r] > 0
    /\ due' = [due EXCEPT ![r] = @ - 1]
    /\ made' = [made EXCEPT ![r] = @ + 1]
    /\ UNCHANGED <<accepted, missing>>

Next ==
    \/ \E r \in Request : Accept(r) \/ Answered(r) \/ Expired(r) \/ Made(r)
    \/ \E rs \in SUBSET Request : GivenUp(rs)

Spec == Init /\ [][Next]_ledger
=============================================================================
