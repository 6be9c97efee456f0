--------------------------- MODULE MCLocalDagger ---------------------------
(***************************************************************************)
(* Budgets of five and nine actions: the policy can cross either boundary *)
(* inside a chunk, at its end and on its last action, and the expert can   *)
(* finish, or fail to, on its last action and on the environment's.        *)
(***************************************************************************)
EXTENDS LocalDagger
=============================================================================
