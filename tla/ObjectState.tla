------------------------------ MODULE ObjectState ------------------------------
(***************************************************************************)
(* What the calls of ObjectCandidateWindowVerifier and                     *)
(* ExplicitObjectStateMemory compute, as operators on a window, a          *)
(* measurement and an object state.  Positions lie on a line; variances    *)
(* and times are integers; reasons keep the source's names.                *)
(***************************************************************************)
EXTENDS Integers, Sequences, SequencesExt

CONSTANTS
  Positions,       (* object positions an image can measure                      *)
  Images,          (* measurements a provider can return, their times relative   *)
  SafetyContexts,  (* sets of reasons ObjectMemorySafetyContext can hold         *)
  MinFrames,       (* min_candidate_frames                                       *)
  MaxGap,          (* max_candidate_gap_s                                        *)
  MaxSpread,       (* max_candidate_position_spread_m                            *)
  MaxSkew,         (* max_sensor_skew_s                                          *)
  MaxAge,          (* max_unobserved_age_s                                       *)
  MaxInnovation,   (* max_innovation_m                                           *)
  MaxVariance,     (* max_position_std_m, squared                                *)
  Growth,          (* covariance_growth_m2_per_s                                 *)
  MaxPending       (* max_pending_age_s of a delayed candidate                   *)

NoPosition == -1
NoSource   == "none"
Never      == -1

Faults == {"projection_invalid", "out_of_fov", "not_observable", "geometry_invalid",
           "write_gate_rejected", "source_camera_mismatch", "source_model_identity_mismatch"}

SafetyReasons == {"pregrasp_window_closed", "gripper_not_open", "controller_tracking_invalid",
                  "object_contact_detected", "gripper_close_commanded", "grasp_candidate",
                  "grasp_verified", "object_maybe_moved"}

Irreversible == {"pregrasp_window_closed", "object_contact_detected", "gripper_close_commanded",
                 "grasp_candidate", "grasp_verified", "object_maybe_moved",
                 "source_camera_mismatch", "source_model_identity_mismatch"}

\* The reasons that invalidate what is already remembered, not only the new image.
Provenance == {"source_camera_mismatch", "source_model_identity_mismatch",
               "sensor_timestamp_unsynchronized"}

\* An image: lag is its age at the control tick, skew the spread of its four timestamps,
\* faults the rejections its flags and its source cause.
ImageType == [position : Positions \cup {NoPosition}, variance : Nat, lag : Nat, skew : Nat,
              faults : SUBSET Faults]

ASSUME ObjectStateAssumption ==
  /\ Positions \subseteq Nat
  /\ Images \subseteq ImageType
  /\ \A i \in Images : i.lag <= i.skew
                       /\ (i.position = NoPosition => "geometry_invalid" \in i.faults)
  /\ SafetyContexts \subseteq SUBSET SafetyReasons
  /\ MinFrames \in Nat \ {0}
  /\ {MaxGap, MaxSpread, MaxSkew, MaxAge, MaxInnovation, MaxVariance, MaxPending} \subseteq Nat \ {0}
  /\ Growth \in Nat

-----------------------------------------------------------------------------
(* The candidate window *)

Distance(p, q) == IF p >= q THEN p - q ELSE q - p

Measured(image, at) == [image |-> image, at |-> at, rgbAt |-> at - image.lag]

EmptyWindow == [frames |-> <<>>, last |-> Never, rgb |-> Never]

When(condition, reason) == IF condition THEN {reason} ELSE {}

\* What both the verifier and the memory hold against an image on its own.
ImageReasons(m) ==
  m.image.faults
  \cup When(m.image.variance > MaxVariance, "measurement_uncertain")
  \cup When(m.image.skew > MaxSkew, "sensor_timestamp_unsynchronized")
  \cup When(m.at - m.rgbAt > MaxAge, "measurement_stale")

Spread(frames) ==
  \A i, j \in DOMAIN frames :
    Distance(frames[i].image.position, frames[j].image.position) <= MaxSpread

Decision(m, frames, reasons) ==
  [measurement |-> m, count |-> Len(frames), verified |-> reasons = {}, reasons |-> reasons]

\* Mutant: a rejected image leaves the window as it was.
AfterRejectionKeeping(w, m) == w.frames

\* An image that is rejected empties the window.
AfterRejection(w, m) == <<>>

GapBefore(w, m) ==
  /\ w.last # Never
  /\ \/ m.at - w.last > MaxGap
     \/ w.frames # <<>> /\ m.rgbAt - Last(w.frames).rgbAt > MaxGap

LastFrames(frames) ==
  SubSeq(frames, IF Len(frames) > MinFrames THEN Len(frames) - MinFrames + 1 ELSE 1, Len(frames))

\* observe() of a measurement whose tick is later than the last: the new window and its decision.
Observed(w, m, safety) ==
  LET old      == w.rgb # Never /\ m.rgbAt <= w.rgb
      rejected == safety \cup ImageReasons(m) \cup When(old, "rgb_timestamp_not_increasing")
      gap      == GapBefore(w, m)
      trial    == Append(IF gap THEN <<>> ELSE w.frames, m)
      agree    == Spread(trial)
      frames   == IF rejected # {} THEN AfterRejection(w, m)
                  ELSE IF agree THEN LastFrames(trial) ELSE <<m>>
      reasons  == IF rejected # {} THEN rejected
                  ELSE IF Len(frames) >= MinFrames THEN {}
                  ELSE {"candidate_too_short"} \cup When(gap, "candidate_time_gap")
                       \cup When(~agree, "candidate_position_inconsistent")
  IN [window   |-> [frames |-> frames, last |-> m.at, rgb |-> IF old THEN w.rgb ELSE m.rgbAt],
      decision |-> Decision(m, frames, reasons)]

-----------------------------------------------------------------------------
(* The memory *)

Forgotten(at) ==
  [mode |-> "uninitialized", position |-> NoPosition, variance |-> 0, observedAt |-> Never,
   stateAt |-> at, observable |-> FALSE, accepted |-> 0, reasons |-> {"memory_uninitialized"}]

Valid(state) == state.mode = "free_static"

Aged(variance, delta) == variance + Growth * (IF delta > 0 THEN delta ELSE 0)

\* _retained_state: no new position; what is held ages up to the tick of the call.
Retained(state, at, observable, forced) ==
  LET variance == IF state.position = NoPosition THEN 0 ELSE Aged(state.variance, at - state.stateAt)
      reasons  ==
        forced \cup
        (IF state.position = NoPosition THEN When(forced = {}, "memory_uninitialized")
         ELSE (state.reasons \cap {"measurement_conflict"})
              \cup When(at - state.observedAt > MaxAge, "memory_stale")
              \cup When(variance > MaxVariance, "memory_uncertain"))
  IN [state EXCEPT
        !.mode = IF reasons = {"memory_uninitialized"} THEN "uninitialized"
                 ELSE IF reasons # {} THEN "invalid" ELSE "free_static",
        !.variance = variance, !.stateAt = at, !.observable = observable, !.reasons = reasons]

\* _build_safety_invalidated_state: the reasons given replace the ones that were there.
Invalidated(state, at, reasons) ==
  [state EXCEPT
     !.mode = "invalid", !.stateAt = at, !.observable = FALSE, !.reasons = reasons,
     !.variance = IF state.position = NoPosition THEN 0 ELSE Aged(@, at - state.stateAt)]

\* Mutant: an image that was already consumed is taken again.
MemoryReasonsForgetful(state, d) ==
  ImageReasons(d.measurement) \cup d.reasons

\* _measurement_rejection_reasons; measurement_before_reset cannot occur with a clock per episode.
MemoryReasons(state, d) ==
  ImageReasons(d.measurement) \cup d.reasons
  \cup When(state.observedAt # Never /\ d.measurement.rgbAt <= state.observedAt,
            "measurement_already_consumed")

\* Mutant: the age of the image at the tick of the write is not counted.
AcceptedAgeless(state, d, at, observable) ==
  LET m == d.measurement
  IN [mode |-> "free_static", position |-> m.image.position, variance |-> m.image.variance,
      observedAt |-> m.rgbAt, stateAt |-> at, observable |-> observable,
      accepted |-> state.accepted + 1, reasons |-> {}]

\* The new ObjectState: the variance is that of the image, aged from the image to the write.
Accepted(state, d, at, observable) ==
  LET m == d.measurement
  IN [mode |-> "free_static", position |-> m.image.position,
      variance |-> Aged(m.image.variance, at - m.rgbAt),
      observedAt |-> m.rgbAt, stateAt |-> at, observable |-> observable,
      accepted |-> state.accepted + 1, reasons |-> {}]

Conflict(state, m) ==
  /\ state.position # NoPosition /\ m.image.position # NoPosition
  /\ Distance(m.image.position, state.position) > MaxInnovation

Result(state, accepted, reasons) == [state |-> state, accepted |-> accepted, reasons |-> reasons]

\* Mutant: an irreversible reason is forgotten by the next image.
ForcedByNow(state, safety) == safety

\* What invalidates the memory whatever the image shows.
Forced(state, safety) == safety \cup (state.reasons \cap Irreversible)

\* update()
Updated(state, d, safety) ==
  LET m        == d.measurement
      seen     == "not_observable" \notin m.image.faults
      forced   == Forced(state, safety)
      rejected == MemoryReasons(state, d)
      aged     == Aged(m.image.variance, m.at - m.rgbAt)
      retain(reasons) == Retained(state, m.at, seen, reasons)
  IN IF forced # {} THEN Result(retain(forced), FALSE, forced)
     ELSE IF rejected # {} THEN Result(retain(rejected \cap Provenance), FALSE, rejected)
     ELSE IF aged > MaxVariance
     THEN Result(retain({}), FALSE, {"measurement_uncertain_at_update"})
     ELSE IF Conflict(state, m)
     THEN Result(retain({"measurement_conflict"}), FALSE, {"measurement_conflict"})
     ELSE Result(Accepted(state, d, m.at, TRUE), TRUE, {})

\* preview_delayed_candidate(): what a commit at that time would leave; nothing changes yet.
Preview(state, d, safety, at) ==
  LET m        == d.measurement
      forced   == Forced(state, safety)
      reasons  == MemoryReasons(state, d)
                  \cup When(at - m.at > MaxPending, "pending_candidate_expired")
                  \cup When(at - m.rgbAt > MaxAge, "memory_stale_at_commit")
                  \cup When(Aged(m.image.variance, at - m.rgbAt) > MaxVariance,
                            "memory_uncertain_at_commit")
                  \cup When(Conflict(state, m), "measurement_conflict")
  IN IF forced \cup reasons # {}
     THEN Result(Retained(state, at, FALSE, forced \cup (reasons \cap Provenance)), FALSE,
                 forced \cup reasons)
     ELSE Result(Accepted(state, d, at, FALSE), TRUE, {})

\* Mutant: whatever was accepted once may be touched, whether or not it is in sight.
ContactReadyFromMemory(u) == u.accepted

\* resolve_object_state for contact, and for coarse navigation.
ContactReady(u) == u.accepted /\ u.state.observable
Navigable(u)    == ContactReady(u) \/ Valid(u.state)
=============================================================================
