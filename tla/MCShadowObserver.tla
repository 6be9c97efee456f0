--------------------------- MODULE MCShadowObserver ---------------------------
(***************************************************************************)
(* The shadow observer on the compiled plan, with evidence as a deployable *)
(* snapshot can bring it: complete, or with one modality or predicate lost.*)
(***************************************************************************)
EXTENDS ShadowObserver, PickPlacePlan

CompleteEvidence ==
  [modalities |-> Modalities,
   predicates |-> Predicates \ {"replan_authorized", "abort_required"},
   estimated |-> TRUE, estimates |-> Estimates, gt |-> FALSE, unsafe |-> FALSE]

\* Progress, an interruption, and a tick that restarts the stability count.
ShadowSnapshots ==
  {CompleteEvidence,
   [CompleteEvidence EXCEPT !.modalities = @ \ {"proprio"}],
   [CompleteEvidence EXCEPT !.predicates = @ \ {"object_track_valid", "hold_confirmed"}]}

ShadowTimes   == {0, 1}
ShadowStrides == {0, 2}
=============================================================================
