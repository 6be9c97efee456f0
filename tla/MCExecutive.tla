----------------------------- MODULE MCExecutive -----------------------------
(***************************************************************************)
(* The executive on the compiled pick-and-place plan.  The evidence of a   *)
(* tick is everything, with any verdict for a diagnosis, or everything but *)
(* one thing: one modality, one predicate or one estimate lost, hidden     *)
(* ground truth, an anomaly, no estimate.                                  *)
(***************************************************************************)
EXTENDS Executive, PickPlacePlan

Verdicts == {"retry_authorized", "replan_authorized", "abort_required"}
Evidence == Predicates \ Verdicts

Full(verdict) ==
  [modalities |-> Modalities, predicates |-> Evidence \cup verdict, estimated |-> TRUE,
   estimates |-> Estimates, gt |-> FALSE, unsafe |-> FALSE]

\* Predicates that only end a phase: losing them all is losing the one that matters.
ExitOnly ==
  {"coarse_reach_complete", "fine_alignment_complete", "close_ready", "grasp_balanced",
   "lift_clearance_reached", "goal_region_reached", "deposit_alignment_complete", "tcp_retracted"}

Defects(s) ==
  {[s EXCEPT !.modalities = @ \ {m}] : m \in Modalities}
    \cup {[s EXCEPT !.predicates = @ \ {name}] : name \in Evidence \ ExitOnly}
    \cup {[s EXCEPT !.predicates = @ \ ExitOnly]}
    \cup {[s EXCEPT !.estimates = @ \ {e}] : e \in Estimates}
    \cup {[s EXCEPT !.gt = TRUE], [s EXCEPT !.unsafe = TRUE],
          [s EXCEPT !.estimated = FALSE, !.estimates = {}]}

MCSnapshots ==
  {Full(v) : v \in (SUBSET Verdicts) \ {{"abort_required", "retry_authorized"},
                                        {"abort_required", "replan_authorized"}}}
    \cup Defects(Full({"retry_authorized"}))

\* A retry, replan or abort verdict, an anomaly, and the loss of what each phase group needs.
LiveSnapshots ==
  {Full(v) : v \in {{"retry_authorized"}, {"replan_authorized"}, {"abort_required"}}}
    \cup {[Full({"retry_authorized"}) EXCEPT !.unsafe = TRUE],
          [Full({"retry_authorized"}) EXCEPT !.modalities = @ \ {"finger_force"}],
          [Full({"retry_authorized"}) EXCEPT !.predicates = @ \ {"grasp_verified"}],
          [Full({}) EXCEPT !.predicates = @ \ {"hold_confirmed"}]}
=============================================================================
