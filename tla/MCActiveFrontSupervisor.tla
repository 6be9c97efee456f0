------------------------ MODULE MCActiveFrontSupervisor ------------------------
(***************************************************************************)
(* Two episodes of the supervisor under every call a caller can make.      *)
(***************************************************************************)
EXTENDS ActiveFrontSupervisor

MCAllowed == {"acquire_track", "stabilize_pregrasp"}
MCPost    == {"final_approach"}
MCOther   == {"observe_scene"}
MCSafety  == {"arm_hold_violation", "contact_detected"}
=============================================================================
