------------------------- MODULE ActiveFrontSupervisor -------------------------
(***************************************************************************)
(* ActiveFrontReobserveController: the supervisor that lets the front      *)
(* camera leave home once per episode to look for the object, keeps the    *)
(* arm on hold meanwhile, and resumes only from fresh frames taken at      *)
(* home.  It hears of the world through calls that may come in any order,  *)
(* late or twice.  The camera itself is not in the code: it leaves home    *)
(* when a move is ordered and is back when the return is reported.         *)
(***************************************************************************)
EXTENDS Integers, Sequences, SequencesExt

CONSTANTS
  AllowedPhases,     (* ALLOWED_ACTIVE_SOURCE_PHASES                            *)
  PostPhases,        (* POST_ACTIVE_WINDOW_PHASES                               *)
  OtherPhases,       (* phases in neither                                       *)
  Primitives,        (* view primitives; the configured one is Selected         *)
  Selected,
  UnusableTicks,     (* consecutive_unusable_ticks                              *)
  BarrierFrames,     (* home_v2_barrier_frames                                  *)
  FrameIds,          (* identities of Observation V2 frames                     *)
  SafetyFailures,    (* what ActiveFrontSafetyEvidence.failure can return       *)
  MaxEpisodes        (* bound: episodes                                         *)

Phases == AllowedPhases \cup PostPhases \cup OtherPhases

ASSUME SupervisorAssumption ==
  /\ AllowedPhases \cap PostPhases = {} /\ AllowedPhases # {}
  /\ Selected \in Primitives
  /\ UnusableTicks \in Nat /\ UnusableTicks > 1
  /\ BarrierFrames \in Nat \ {0}
  /\ MaxEpisodes \in Nat
  /\ "none" \notin SafetyFailures

VARIABLES
  state,       (* _state                                                        *)
  windowOpen,  (* _active_window_open, the latch                                *)
  streak,      (* _consecutive_unusable                                         *)
  attempts,    (* _attempt_count                                                *)
  request,     (* _request: the episode and phase it was made in                *)
  reset,       (* _reset_receipt.generation_after                               *)
  homeFrames,  (* _home_frame_ids                                               *)
  failure,     (* _failure                                                      *)
  eligible,    (* _stage2_candidate_commit_eligible                             *)
  episode,     (* _episode_generation                                           *)
  camera,      (* external: where the front camera is                           *)
  touched      (* history: contact, closing or a later phase was reported       *)

transaction == <<state, request, reset, homeFrames, failure, eligible>>
trigger     == <<windowOpen, streak, attempts>>
supervisorVars == <<transaction, trigger, episode, camera, touched>>

None == "none"
NoRequest == [episode |-> 0, phase |-> None]
NoReset   == -1

AtHomeStates == {"requested", "acquire_camera_lease_and_hold_arm", "select_frozen_primitive"}
AwayStates   == {"move_to_view", "settle_at_view", "collect", "stage_candidate", "return_home"}
BackStates   == {"verify_home_and_arm_hold", "recheck_source_invariants", "commit_and_resume"}
Completed    == {"complete_no_write", "complete_stage2_memory_write"}
FailedStates == {"failsafe_return", "failed_safe_hold"}
States == {"idle"} \cup AtHomeStates \cup AwayStates \cup BackStates \cup Completed \cup FailedStates

Signals == {"camera_lease_acquired", "frozen_primitive_selected", "move_complete",
            "settle_complete", "collection_complete", "shadow_candidate_staged",
            "return_home_complete", "source_invariants_verified"}

\* _TRANSITIONS
Target ==
  [acquire_camera_lease_and_hold_arm |-> [on |-> "camera_lease_acquired", to |-> "select_frozen_primitive"],
   select_frozen_primitive   |-> [on |-> "frozen_primitive_selected", to |-> "move_to_view"],
   move_to_view              |-> [on |-> "move_complete", to |-> "settle_at_view"],
   settle_at_view            |-> [on |-> "settle_complete", to |-> "collect"],
   collect                   |-> [on |-> "collection_complete", to |-> "stage_candidate"],
   stage_candidate           |-> [on |-> "shadow_candidate_staged", to |-> "return_home"],
   return_home               |-> [on |-> "return_home_complete", to |-> "verify_home_and_arm_hold"],
   recheck_source_invariants |-> [on |-> "source_invariants_verified", to |-> "commit_and_resume"]]

CameraOwner ==
  CASE state = "idle"            -> "home_hold"
    [] state = "failsafe_return" -> "failsafe_return"
    [] state \in AtHomeStates \cup AwayStates \cup BackStates -> "active_reobserve"
    [] OTHER                     -> "none"

-----------------------------------------------------------------------------
(* Failing *)

CameraHome == camera = "home"

\* _fail: the first failure is kept; the camera goes home first unless it is said to be there.
Fail(reason, atHome) ==
  /\ failure' = IF failure = None THEN reason ELSE failure
  /\ state' = IF atHome THEN "failed_safe_hold" ELSE "failsafe_return"
  /\ UNCHANGED <<request, reset, homeFrames>>

\* _close_latch
CloseLatch(closing) == windowOpen' = (windowOpen /\ ~closing)

Touch(touching) == touched' = (touched \/ touching)

\* Mutant: while it returns, the camera is believed to be at home.
AssumedHomeEarly == state \in AtHomeStates \cup BackStates \cup {"return_home"}

\* advance() derives from the state whether the camera is at home.
AssumedHome == state \in AtHomeStates \cup BackStates

Unsafe(problem, atHome) ==
  /\ CloseLatch(TRUE)
  /\ Fail(problem, atHome)
  /\ Touch(TRUE)
  /\ UNCHANGED <<eligible, streak, attempts, episode, camera>>

-----------------------------------------------------------------------------
(* Triggering *)

\* What a tick says of phase, of the object's visibility, and of contact or closing.
EvidenceType == [phase : Phases, usable : BOOLEAN, closing : BOOLEAN]

\* The rejections of consider_trigger; usable stands for any of its other seven reasons.
Qualifies(e) ==
  /\ e.phase \in AllowedPhases
  /\ windowOpen'
  /\ ~e.usable
  /\ attempts = 0

\* A request and every rejection but a pending one restart the count.
StreakAfter(counts, asks) == IF counts /\ ~asks THEN streak + 1 ELSE 0

\* consider_trigger() of the current episode; cooldown cannot occur with one attempt.
ConsiderTrigger(e) ==
  LET closes == e.phase \in PostPhases \/ e.closing
      counts == state = "idle" /\ Qualifies(e)
      asks   == counts /\ streak + 1 >= UnusableTicks
  IN /\ CloseLatch(closes)
     /\ Touch(closes)
     /\ streak' = IF state = "idle" THEN StreakAfter(counts, asks) ELSE streak
     /\ attempts' = IF asks THEN attempts + 1 ELSE attempts
     /\ request' = IF asks THEN [episode |-> episode, phase |-> e.phase] ELSE request
     /\ state' = IF asks THEN "requested" ELSE state
     /\ UNCHANGED <<reset, homeFrames, failure, eligible, episode, camera>>

\* ActionHistoryResetReceipt.validate_for: of this request, one generation on, all cleared.
ResetType == [episode : 1..MaxEpisodes, advanced : 0..2, cleared : BOOLEAN]
ResetValid(r) == r.episode = request.episode /\ r.advanced = 1 /\ r.cleared

Begin(r) ==
  /\ state = "requested"
  /\ IF ResetValid(r)
     THEN /\ reset' = r.advanced
          /\ state' = "acquire_camera_lease_and_hold_arm"
          /\ UNCHANGED <<request, homeFrames, failure>>
     ELSE Fail("action_history_reset_invalid", TRUE)
  /\ UNCHANGED <<eligible, trigger, episode, camera, touched>>

-----------------------------------------------------------------------------
(* Signals *)

\* observe_safety on a tick without a signal; the caller reports where the camera is.
ObserveSafety(problem) ==
  /\ request # NoRequest
  /\ Unsafe(problem, CameraHome)

\* advance() with unsafe evidence.
AdvanceUnsafe(problem) ==
  /\ request # NoRequest
  /\ Unsafe(problem, AssumedHome)

Expected(signal) == state \in DOMAIN Target /\ Target[state].on = signal

\* advance() with a signal the state does not wait for.
AdvanceInvalid(signal) ==
  /\ request # NoRequest
  /\ ~Expected(signal)
  /\ Fail("state_transition_invalid", state \in AtHomeStates)
  /\ UNCHANGED <<eligible, trigger, episode, camera, touched>>

\* A move takes the camera away; a completed return has brought it back.
Moves(to) ==
  camera' = IF to = "move_to_view" THEN "away"
            ELSE IF to = "verify_home_and_arm_hold" THEN "home" ELSE camera

Proceed(signal) ==
  /\ state' = Target[state].to
  /\ Moves(Target[state].to)
  /\ UNCHANGED <<request, reset, homeFrames, failure>>

Plain == Signals \ {"frozen_primitive_selected", "shadow_candidate_staged",
                    "source_invariants_verified"}

AdvancePlain(signal) ==
  /\ signal \in Plain /\ Expected(signal)
  /\ Proceed(signal)
  /\ UNCHANGED <<eligible, trigger, episode, touched>>

AdvanceSelect(primitive) ==
  /\ Expected("frozen_primitive_selected")
  /\ \/ /\ primitive = Selected
        /\ Proceed("frozen_primitive_selected")
     \/ /\ primitive # Selected
        /\ Fail("primitive_identity_mismatch", TRUE)
        /\ UNCHANGED camera
  /\ UNCHANGED <<eligible, trigger, episode, touched>>

\* A candidate receipt: of stage 1, or of stage 2 with its verdict, or of neither.
CandidateType == [stage : 0..2, episode : 1..MaxEpisodes, wrote : BOOLEAN, eligible : {"yes", "no"}]
CandidateValid(c) == c.stage > 0 /\ c.episode = request.episode /\ ~c.wrote

StagedVerdict(c) == IF c.stage = 2 THEN c.eligible ELSE None

AdvanceStage(c) ==
  /\ Expected("shadow_candidate_staged")
  /\ eligible' = IF c.stage = 0 THEN eligible ELSE StagedVerdict(c)
  /\ \/ /\ CandidateValid(c)
        /\ Proceed("shadow_candidate_staged")
     \/ /\ ~CandidateValid(c)
        /\ Fail("state_transition_invalid", FALSE)
        /\ UNCHANGED camera
  /\ UNCHANGED <<trigger, episode, touched>>

\* Mutant: the latch is not asked again when the source is rechecked.
SourceHoldsUnlatched(phase, passed) == passed /\ phase = request.phase

SourceHolds(phase, passed) == windowOpen /\ passed /\ phase = request.phase

AdvanceRecheck(phase, passed) ==
  /\ Expected("source_invariants_verified")
  /\ \/ /\ SourceHolds(phase, passed)
        /\ Proceed("source_invariants_verified")
     \/ /\ ~SourceHolds(phase, passed)
        /\ Fail(IF windowOpen THEN "source_invariant_failed" ELSE "active_window_closed", TRUE)
        /\ UNCHANGED camera
  /\ UNCHANGED <<eligible, trigger, episode, touched>>

-----------------------------------------------------------------------------
(* Home *)

\* A barrier frame: its identity, whether it shows the camera at home, and whether it is fresh,
\* after the return and free of motion.
FrameType == [id : FrameIds, home : BOOLEAN, clean : BOOLEAN]

\* Mutant: a repeated frame counts again.
FrameRepeatsNever(frame) == FALSE

FrameRepeats(frame) == Contains(homeFrames, frame.id)

AcceptHomeFrame(frame) ==
  /\ IF state # "verify_home_and_arm_hold" THEN Fail("home_frame_invalid", FALSE)
     ELSE IF ~(frame.home /\ frame.clean) THEN Fail("home_frame_invalid", frame.home)
     ELSE IF FrameRepeats(frame) THEN Fail("home_frame_duplicate", TRUE)
     ELSE /\ homeFrames' = Append(homeFrames, frame.id)
          /\ IF Len(homeFrames') < BarrierFrames THEN UNCHANGED <<state, failure>>
             ELSE IF eligible = "no"
             THEN state' = "failed_safe_hold" /\ failure' = "candidate_rejected"
             ELSE state' = "recheck_source_invariants" /\ UNCHANGED failure
          /\ UNCHANGED <<request, reset>>
  /\ UNCHANGED <<eligible, trigger, episode, camera, touched>>

\* fail(), by a caller that knows where the camera is.
FailCalled ==
  /\ Fail("timeout", CameraHome)
  /\ UNCHANGED <<eligible, trigger, episode, camera, touched>>

\* Mutant: a verified return ends the failure and the supervisor is ready again.
CompleteFailsafeReturnForgiving(verified) ==
  /\ state = "failsafe_return"
  /\ state' = IF verified THEN "idle" ELSE "failed_safe_hold"
  /\ failure' = IF verified THEN failure ELSE "camera_return_failed"
  /\ camera' = IF verified THEN "home" ELSE camera
  /\ UNCHANGED <<request, reset, homeFrames, eligible, trigger, episode, touched>>

\* complete_failsafe_return; home_verified says truly whether the camera came back.
CompleteFailsafeReturn(verified) ==
  /\ state = "failsafe_return"
  /\ state' = "failed_safe_hold"
  /\ failure' = IF verified THEN failure ELSE "camera_return_failed"
  /\ camera' = IF verified THEN "home" ELSE camera
  /\ UNCHANGED <<request, reset, homeFrames, eligible, trigger, episode, touched>>

\* ActionHistoryResumeReceipt: bound to the request, to the next generation and to these frames.
ResumeType == [episode : 1..MaxEpisodes, generation : 0..2, frames : {"these", "others"}, fresh : BOOLEAN]
ResumeValid(r) ==
  /\ r.episode = request.episode
  /\ r.generation = reset + 1
  /\ r.frames = "these" /\ r.fresh

Complete(valid, target) ==
  /\ state = "commit_and_resume"
  /\ request # NoRequest /\ reset # NoReset
  /\ IF valid
     THEN state' = target /\ UNCHANGED <<request, reset, homeFrames, failure>>
     ELSE Fail("stale_action_history_resume", TRUE)
  /\ UNCHANGED <<eligible, trigger, episode, camera, touched>>

CompleteNoWriteResume(r) == Complete(ResumeValid(r), "complete_no_write")

\* writes and forwards: what the caller reports of memory writes and provider calls.
CompleteStage2MemoryWrite(r, exact) ==
  Complete(ResumeValid(r) /\ exact /\ eligible = "yes", "complete_stage2_memory_write")

ResetEpisode ==
  /\ episode < MaxEpisodes
  /\ episode' = episode + 1
  /\ state' = "idle" /\ windowOpen' = TRUE /\ streak' = 0 /\ attempts' = 0
  /\ request' = NoRequest /\ reset' = NoReset /\ homeFrames' = <<>>
  /\ failure' = None /\ eligible' = None
  /\ camera' = "home" /\ touched' = FALSE

Init ==
  /\ state = "idle" /\ windowOpen = FALSE /\ streak = 0 /\ attempts = 0
  /\ request = NoRequest /\ reset = NoReset /\ homeFrames = <<>>
  /\ failure = None /\ eligible = None
  /\ episode = 0 /\ camera = "home" /\ touched = FALSE

Next ==
  \/ ResetEpisode
  \/ \E e \in EvidenceType : episode > 0 /\ ConsiderTrigger(e)
  \/ \E r \in ResetType : Begin(r)
  \/ \E problem \in SafetyFailures : ObserveSafety(problem) \/ AdvanceUnsafe(problem)
  \/ \E signal \in Signals : AdvanceInvalid(signal) \/ AdvancePlain(signal)
  \/ \E primitive \in Primitives : AdvanceSelect(primitive)
  \/ \E c \in CandidateType : AdvanceStage(c)
  \/ \E phase \in Phases, passed \in BOOLEAN : AdvanceRecheck(phase, passed)
  \/ \E frame \in FrameType : AcceptHomeFrame(frame)
  \/ FailCalled
  \/ \E verified \in BOOLEAN : CompleteFailsafeReturn(verified)
  \/ \E r \in ResumeType : CompleteNoWriteResume(r)
  \/ \E r \in ResumeType, exact \in BOOLEAN : CompleteStage2MemoryWrite(r, exact)

Spec == Init /\ [][Next]_supervisorVars

-----------------------------------------------------------------------------
(* Properties *)

\* Type invariant.
SupervisorTypeOK ==
  /\ state \in States
  /\ windowOpen \in BOOLEAN /\ touched \in BOOLEAN
  /\ streak \in 0..UnusableTicks - 1
  /\ attempts \in 0..1
  /\ episode \in 0..MaxEpisodes
  /\ request \in [episode : 0..MaxEpisodes, phase : Phases \cup {None}]
  /\ reset \in {NoReset, 1}
  /\ homeFrames \in Seq(FrameIds) /\ Len(homeFrames) <= BarrierFrames
  /\ failure \in STRING
  /\ eligible \in {None, "yes", "no"}
  /\ camera \in {"home", "away"}

\* After any failure the supervisor is failing or has failed, whatever signals, frames or
\* receipts arrive afterwards: no path leads back to a resume.
FailureIsFinal == failure # None => state \in FailedStates

\* Work resumes only with the history invalidated, with exactly four distinct frames taken at
\* home after the return, and never with a candidate that stage 2 rejected.
ResumesFromFreshHome ==
  state \in {"recheck_source_invariants", "commit_and_resume"} \cup Completed =>
    /\ reset # NoReset
    /\ Len(homeFrames) = BarrierFrames /\ IsInjective(homeFrames)
    /\ camera = "home"
    /\ eligible # "no"
    /\ state = "complete_stage2_memory_write" => eligible = "yes"

\* Between the start of the episode and the commit nothing was touched, gripped or left behind,
\* whichever of the three kinds of call would have reported it.
CommitsUntouched ==
  [][(state' = "commit_and_resume" /\ state # state') => ~touched']_supervisorVars

\* The camera is away only while somebody owns it; on safe hold it is home, unless its return
\* was reported as failed.
CameraIsOwned ==
  camera = "away" => \/ CameraOwner \in {"active_reobserve", "failsafe_return"}
                     \/ failure = "camera_return_failed"
=============================================================================
