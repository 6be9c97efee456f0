----------------------------- MODULE MCObjectMemory -----------------------------
(***************************************************************************)
(* Images that differ from a good one in one respect each: position, age,  *)
(* skew, variance, visibility, gate and source.                            *)
(***************************************************************************)
EXTENDS ObjectMemory

Good == [position |-> 0, variance |-> 1, lag |-> 0, skew |-> 0, faults |-> {}]

MCPositions == {0, 1, 3}

MCImages ==
  {[Good EXCEPT !.position = p] : p \in MCPositions} \cup
  {[Good EXCEPT !.lag = 1, !.skew = 1],
   [Good EXCEPT !.skew = 2],
   [Good EXCEPT !.variance = 3],
   [Good EXCEPT !.position = NoPosition,
                !.faults = {"not_observable", "geometry_invalid", "write_gate_rejected"}],
   [Good EXCEPT !.faults = {"source_model_identity_mismatch"}]}

MCSafety == {{}, {"object_contact_detected"}, {"controller_tracking_invalid"}}

MCStrides == {1, 2}
=============================================================================
