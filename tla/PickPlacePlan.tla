---------------------------- MODULE PickPlacePlan ----------------------------
(***************************************************************************)
(* The task graph that PickPlacePlanCompiler freezes for                   *)
(* "pick-cube-to-region": the phases of the five subtasks in order and,    *)
(* for each phase, who owns the controller, which modalities it needs and  *)
(* which predicates must hold on entry, throughout and on exit.            *)
(* An enum member is written as its Python name.                           *)
(***************************************************************************)
EXTENDS Integers, Sequences

CONSTANTS
  StableTicks,   (* PlanCompilerConfig.stable_ticks_required              *)
  TimeoutTicks   (* PlanCompilerConfig.phase_timeout_ticks; 0 stands for None *)

ASSUME StableTicksAssumption  == StableTicks \in Nat \ {0}
ASSUME TimeoutTicksAssumption == TimeoutTicks \in Nat

\* EXECUTIVE_MODALITIES and EXECUTIVE_PREDICATES.
Modalities ==
  {"rgb_external", "rgb_wrist", "proprio", "tcp_pose", "wrist_camera_pose", "finger_force",
   "controller_state"}

Predicates ==
  {"object_track_valid", "goal_track_valid", "coarse_reach_complete", "precision_target_valid",
   "fine_alignment_complete", "pregrasp_pose_valid", "pregrasp_stable", "close_ready",
   "close_authorized", "finger_contact_detected", "grasp_balanced", "grasp_candidate",
   "grasp_verified", "lift_authorized", "lift_clearance_reached", "goal_region_reached",
   "deposit_alignment_complete", "held_pose_stable", "support_contact_detected",
   "support_verified", "release_authorized", "object_released", "tcp_retracted",
   "placement_verified", "hold_confirmed", "modalities_recovered", "retry_authorized",
   "replan_authorized", "abort_required"}

\* The parts of a DeployableStateEstimate that carry a validity of their own.
Estimates == {"object_track", "goal_track", "grasp", "support_contact", "settled"}

SubtaskPhases ==
  [APPROACH_AND_ALIGN   |-> <<"ACQUIRE_TRACK", "COARSE_APPROACH", "FINE_ALIGN", "STABILIZE_PREGRASP">>,
   ACQUIRE_AND_VERIFY   |-> <<"FINAL_APPROACH", "CLOSE_UNTIL_CONTACT", "SEAT_AND_BALANCE", "VERIFY_GRASP">>,
   TRANSFER_HELD_OBJECT |-> <<"LIFT_CLEARANCE", "MOVE_TO_GOAL", "ALIGN_FOR_DEPOSIT", "STABILIZE_HELD">>,
   DEPOSIT_AND_VERIFY   |-> <<"LOWER_TO_SUPPORT", "CONFIRM_SUPPORT", "RELEASE", "RETRACT", "VERIFY_SETTLED">>,
   RECOVER_OR_HOLD      |-> <<"SAFE_HOLD", "REOBSERVE", "DIAGNOSE">>]

CanonicalSubtasks ==
  {"APPROACH_AND_ALIGN", "ACQUIRE_AND_VERIFY", "TRANSFER_HELD_OBJECT", "DEPOSIT_AND_VERIFY"}

PlanAllowedNext ==
  [APPROACH_AND_ALIGN   |-> {"ACQUIRE_AND_VERIFY", "RECOVER_OR_HOLD"},
   ACQUIRE_AND_VERIFY   |-> {"TRANSFER_HELD_OBJECT", "RECOVER_OR_HOLD"},
   TRANSFER_HELD_OBJECT |-> {"DEPOSIT_AND_VERIFY", "RECOVER_OR_HOLD"},
   DEPOSIT_AND_VERIFY   |-> {"RECOVER_OR_HOLD"},
   RECOVER_OR_HOLD      |-> CanonicalSubtasks]

\* CompiledTaskPlan.normal_phases: every phase but those of RECOVER_OR_HOLD.
PlanNormalPhases ==
  SubtaskPhases.APPROACH_AND_ALIGN \o SubtaskPhases.ACQUIRE_AND_VERIFY
    \o SubtaskPhases.TRANSFER_HELD_OBJECT \o SubtaskPhases.DEPOSIT_AND_VERIFY

\* _phase: the configured stability and timeout are the same for all phases.
Phase(subtask, owner, required, entry, exit, invariant, critical) ==
  [subtask |-> subtask, owner |-> owner, required |-> required, entry |-> entry,
   exit |-> exit, invariant |-> invariant, critical |-> critical,
   stable |-> StableTicks, timeout |-> TimeoutTicks]

Motion   == {"proprio", "tcp_pose", "controller_state"}
External == Motion \cup {"rgb_external", "wrist_camera_pose"}
Wrist    == Motion \cup {"rgb_wrist", "wrist_camera_pose"}
Contact  == Wrist \cup {"finger_force"}

\* _build_phase_specs, looked up as CompiledTaskPlan.phase_spec does.
PlanPhaseSpec ==
  [ACQUIRE_TRACK |->
     Phase("APPROACH_AND_ALIGN", "SAFE_HOLD", External, {}, {"object_track_valid"}, {}, "NONE"),
   COARSE_APPROACH |->
     Phase("APPROACH_AND_ALIGN", "ACTION_CHUNK", External,
           {"object_track_valid", "goal_track_valid"}, {"coarse_reach_complete"},
           {"object_track_valid", "goal_track_valid"}, "NONE"),
   FINE_ALIGN |->
     Phase("APPROACH_AND_ALIGN", "PRECISION", Wrist, {"precision_target_valid"},
           {"fine_alignment_complete"}, {"precision_target_valid"}, "NONE"),
   STABILIZE_PREGRASP |->
     Phase("APPROACH_AND_ALIGN", "PRECISION", Wrist, {"pregrasp_pose_valid"},
           {"pregrasp_stable"}, {"pregrasp_pose_valid"}, "NONE"),

   FINAL_APPROACH |->
     Phase("ACQUIRE_AND_VERIFY", "PRECISION", Wrist, {"pregrasp_stable"},
           {"close_ready"}, {"precision_target_valid"}, "NONE"),
   CLOSE_UNTIL_CONTACT |->
     Phase("ACQUIRE_AND_VERIFY", "FORCE_GUARD", Contact, {"close_authorized"},
           {"finger_contact_detected"}, {"close_authorized"}, "CLOSE_GRIPPER"),
   SEAT_AND_BALANCE |->
     Phase("ACQUIRE_AND_VERIFY", "FORCE_GUARD", Contact, {"finger_contact_detected"},
           {"grasp_balanced"}, {"finger_contact_detected"}, "NONE"),
   VERIFY_GRASP |->
     Phase("ACQUIRE_AND_VERIFY", "SAFE_HOLD", Contact, {"grasp_candidate"},
           {"grasp_verified"}, {"grasp_candidate"}, "NONE"),

   LIFT_CLEARANCE |->
     Phase("TRANSFER_HELD_OBJECT", "ACTION_CHUNK", Contact, {"lift_authorized"},
           {"lift_clearance_reached"}, {"lift_authorized", "grasp_verified"}, "LIFT"),
   MOVE_TO_GOAL |->
     Phase("TRANSFER_HELD_OBJECT", "ACTION_CHUNK", External \cup {"finger_force"},
           {"grasp_verified", "goal_track_valid"}, {"goal_region_reached"},
           {"grasp_verified", "goal_track_valid"}, "NONE"),
   ALIGN_FOR_DEPOSIT |->
     Phase("TRANSFER_HELD_OBJECT", "PRECISION", Contact, {"precision_target_valid"},
           {"deposit_alignment_complete"}, {"precision_target_valid", "grasp_verified"}, "NONE"),
   STABILIZE_HELD |->
     Phase("TRANSFER_HELD_OBJECT", "PRECISION", Contact, {"grasp_verified"},
           {"held_pose_stable"}, {"grasp_verified"}, "NONE"),

   LOWER_TO_SUPPORT |->
     Phase("DEPOSIT_AND_VERIFY", "FORCE_GUARD", Contact, {"held_pose_stable"},
           {"support_contact_detected"}, {"grasp_verified"}, "NONE"),
   CONFIRM_SUPPORT |->
     Phase("DEPOSIT_AND_VERIFY", "FORCE_GUARD", Contact, {"support_contact_detected"},
           {"support_verified"}, {"support_contact_detected"}, "NONE"),
   RELEASE |->
     Phase("DEPOSIT_AND_VERIFY", "FORCE_GUARD", Contact, {"release_authorized"},
           {"object_released"}, {"release_authorized", "support_verified"}, "RELEASE_GRIPPER"),
   RETRACT |->
     Phase("DEPOSIT_AND_VERIFY", "ACTION_CHUNK", External, {"object_released"},
           {"tcp_retracted"}, {"object_released"}, "NONE"),
   VERIFY_SETTLED |->
     Phase("DEPOSIT_AND_VERIFY", "SAFE_HOLD", External, {"object_released"},
           {"placement_verified"}, {"object_released"}, "NONE"),

   SAFE_HOLD |->
     Phase("RECOVER_OR_HOLD", "SAFE_HOLD", {"proprio", "controller_state"}, {},
           {"hold_confirmed"}, {}, "NONE"),
   REOBSERVE |->
     Phase("RECOVER_OR_HOLD", "SAFE_HOLD", External \cup Contact, {"hold_confirmed"},
           {"modalities_recovered"}, {}, "NONE"),
   DIAGNOSE |->
     Phase("RECOVER_OR_HOLD", "SAFE_HOLD", {"proprio", "controller_state"},
           {"modalities_recovered"}, {}, {"modalities_recovered"}, "NONE")]
=============================================================================
