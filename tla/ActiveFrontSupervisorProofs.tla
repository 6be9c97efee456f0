---------------------- MODULE ActiveFrontSupervisorProofs ----------------------
(***************************************************************************)
(* Theorems about the re-observation supervisor: for every set of phases,  *)
(* primitives and frames, and for any length of the barrier.               *)
(***************************************************************************)
EXTENDS ActiveFrontSupervisor, TLAPS

\* The camera leaves home with the move and is back with the return.
Whereabouts ==
  /\ state \in {"idle"} \cup AtHomeStates \cup BackStates \cup Completed => camera = "home"
  /\ state = "failed_safe_hold" /\ camera = "away" => failure = "camera_return_failed"

\* Barrier frames are collected in one state only, and all of them before the next.
Barrier ==
  /\ homeFrames \in Seq(FrameIds) /\ IsInjective(homeFrames)
  /\ state = "verify_home_and_arm_hold" => Len(homeFrames) < BarrierFrames
  /\ state \in {"idle"} \cup AtHomeStates \cup AwayStates => homeFrames = <<>>
  /\ state \in {"recheck_source_invariants", "commit_and_resume"} \cup Completed =>
       Len(homeFrames) = BarrierFrames /\ eligible # "no"

Receipts ==
  /\ reset \in {NoReset, 1}
  /\ state \in (AtHomeStates \ {"requested"}) \cup AwayStates \cup BackStates \cup Completed =>
       reset = 1
  /\ state = "complete_stage2_memory_write" => eligible = "yes"

\* Every call that hears of contact or closing closes the latch as well.
Latched == windowOpen => ~touched

SupervisorInvariant ==
  /\ state \in States /\ camera \in {"home", "away"}
  /\ FailureIsFinal /\ Whereabouts /\ Barrier /\ Receipts /\ Latched

-----------------------------------------------------------------------------

LEMMA OneMoreFrame ==
  ASSUME NEW S, NEW seq \in Seq(S), IsInjective(seq), NEW x \in S, ~Contains(seq, x)
  PROVE  /\ Append(seq, x) \in Seq(S)
         /\ IsInjective(Append(seq, x))
         /\ Len(Append(seq, x)) = Len(seq) + 1
  <1>1. Append(seq, x) \in Seq(S) /\ Len(Append(seq, x)) = Len(seq) + 1
    OBVIOUS
  <1>2. \A i \in 1..Len(seq) : seq[i] # x
    BY DEF Contains
  <1>3. \A i \in 1..Len(seq) + 1 : Append(seq, x)[i] = IF i = Len(seq) + 1 THEN x ELSE seq[i]
    OBVIOUS
  <1>4. DOMAIN Append(seq, x) = 1..Len(seq) + 1 /\ DOMAIN seq = 1..Len(seq) /\ Len(seq) \in Nat
    OBVIOUS
  <1>5. ASSUME NEW a \in 1..Len(seq) + 1, NEW b \in 1..Len(seq) + 1,
               Append(seq, x)[a] = Append(seq, x)[b]
        PROVE  a = b
    <2>1. CASE a = Len(seq) + 1
      BY <2>1, <1>2, <1>3, <1>4, <1>5
    <2>2. CASE b = Len(seq) + 1
      BY <2>2, <1>2, <1>3, <1>4, <1>5
    <2>3. CASE a # Len(seq) + 1 /\ b # Len(seq) + 1
      <3>1. a \in DOMAIN seq /\ b \in DOMAIN seq
        BY <2>3, <1>4
      <3>2. seq[a] = seq[b]
        BY <2>3, <1>3, <1>5
      <3> QED BY <3>1, <3>2 DEF IsInjective
    <2> QED BY <2>1, <2>2, <2>3
  <1> QED BY <1>1, <1>4, <1>5 DEF IsInjective

LEMMA NoFrames == ASSUME NEW S PROVE <<>> \in Seq(S) /\ Len(<<>>) = 0 /\ IsInjective(<<>>)
  <1>1. <<>> \in Seq(S) /\ Len(<<>>) = 0 /\ DOMAIN <<>> = {}
    OBVIOUS
  <1> QED BY <1>1 DEF IsInjective

LEMMA SupervisorInit == Init => SupervisorInvariant
  <1> SUFFICES ASSUME Init PROVE SupervisorInvariant
    OBVIOUS
  <1>1. Barrier
    BY NoFrames DEF Init, Barrier, AtHomeStates, AwayStates, Completed, None
  <1>2. state \in States /\ camera \in {"home", "away"}
    BY DEF Init, States
  <1>3. FailureIsFinal /\ Whereabouts /\ Receipts /\ Latched
    BY DEF Init, FailureIsFinal, Whereabouts, Receipts, Latched, AtHomeStates, AwayStates, BackStates,
           Completed
  <1> QED BY <1>1, <1>2, <1>3 DEF SupervisorInvariant

\* A failure keeps the invariant if the camera is where it is said to be.
LEMMA FailKeeps ==
  ASSUME SupervisorInvariant, NEW reason, reason # None, NEW atHome \in BOOLEAN,
         atHome => camera = "home", Fail(reason, atHome), camera' = camera, Latched'
  PROVE  SupervisorInvariant'
  <1>1. state' \in FailedStates /\ failure' # None
    BY DEF Fail, FailedStates
  <1>2. state' = "failed_safe_hold" => camera = "home"
    BY DEF Fail
  <1>3. homeFrames' = homeFrames /\ reset' = reset
    BY DEF Fail
  <1>4. state' \in States /\ camera' \in {"home", "away"}
    BY <1>1 DEF SupervisorInvariant, States, FailedStates
  <1>5. FailureIsFinal' /\ Whereabouts'
    BY <1>1, <1>2 DEF FailureIsFinal, Whereabouts, FailedStates, AtHomeStates, BackStates, Completed
  <1>6. Barrier' /\ Receipts'
    BY <1>1, <1>3 DEF SupervisorInvariant, Barrier, Receipts, FailedStates, AtHomeStates, AwayStates,
                     BackStates, Completed
  <1> QED BY <1>4, <1>5, <1>6 DEF SupervisorInvariant

LEMMA TriggerKeeps ==
  ASSUME SupervisorInvariant, NEW e \in EvidenceType, ConsiderTrigger(e)
  PROVE  SupervisorInvariant'
  <1>1. Latched'
    BY DEF ConsiderTrigger, CloseLatch, Touch, SupervisorInvariant, Latched
  <1>2. \/ state' = state
        \/ state = "idle" /\ state' = "requested"
    BY DEF ConsiderTrigger
  <1>3. UNCHANGED <<reset, homeFrames, failure, eligible, camera>>
    BY DEF ConsiderTrigger
  <1>4. state' \in States /\ camera' \in {"home", "away"}
    BY <1>2, <1>3 DEF SupervisorInvariant, States, AtHomeStates
  <1>5. FailureIsFinal' /\ Whereabouts' /\ Receipts'
    BY <1>2, <1>3 DEF SupervisorInvariant, FailureIsFinal, Whereabouts, Receipts, FailedStates, AtHomeStates,
                     AwayStates, BackStates, Completed
  <1>6. Barrier'
    BY <1>2, <1>3 DEF SupervisorInvariant, Barrier, AtHomeStates, AwayStates, BackStates, Completed
  <1> QED BY <1>1, <1>4, <1>5, <1>6 DEF SupervisorInvariant

\* A step that is no failure and moves on inside the transaction.
LEMMA ProceedKeeps ==
  ASSUME SupervisorInvariant, NEW signal \in Signals, Expected(signal), Proceed(signal),
         touched' = touched, windowOpen' = windowOpen,
         signal # "shadow_candidate_staged" => eligible' = eligible
  PROVE  SupervisorInvariant'
  <1> DEFINE from == state
             to == state'
  <1>1. \/ from = "acquire_camera_lease_and_hold_arm" /\ to = "select_frozen_primitive"
        \/ from = "select_frozen_primitive" /\ to = "move_to_view"
        \/ from = "move_to_view" /\ to = "settle_at_view"
        \/ from = "settle_at_view" /\ to = "collect"
        \/ from = "collect" /\ to = "stage_candidate"
        \/ from = "stage_candidate" /\ to = "return_home"
        \/ from = "return_home" /\ to = "verify_home_and_arm_hold"
        \/ from = "recheck_source_invariants" /\ to = "commit_and_resume"
    BY DEF Proceed, Expected, Target
  <1>2. from = "stage_candidate" \/ eligible' = eligible
    BY DEF Expected, Target
  <1>3. /\ camera' = IF to = "move_to_view" THEN "away"
                     ELSE IF to = "verify_home_and_arm_hold" THEN "home" ELSE camera
        /\ UNCHANGED <<reset, homeFrames, failure>>
    BY DEF Proceed, Moves
  <1>4. from \notin FailedStates /\ failure = None
    BY <1>1 DEF SupervisorInvariant, FailureIsFinal, FailedStates
  <1>5. state' \in States /\ camera' \in {"home", "away"}
    BY <1>1, <1>3 DEF SupervisorInvariant, States, AtHomeStates, AwayStates, BackStates
  <1>6. FailureIsFinal' /\ Whereabouts'
    BY <1>1, <1>3, <1>4 DEF SupervisorInvariant, FailureIsFinal, Whereabouts, AtHomeStates, AwayStates,
                           BackStates, Completed
  <1>7. Receipts'
    BY <1>1, <1>2, <1>3 DEF SupervisorInvariant, Receipts, AtHomeStates, AwayStates, BackStates, Completed
  <1>8. Barrier'
    <2>1. to = "verify_home_and_arm_hold" => Len(homeFrames') < BarrierFrames
      BY <1>1, <1>3, NoFrames, SupervisorAssumption DEF SupervisorInvariant, Barrier, AwayStates
    <2>2. to \in {"idle"} \cup AtHomeStates \cup AwayStates => homeFrames' = <<>>
      BY <1>1, <1>3 DEF SupervisorInvariant, Barrier, AtHomeStates, AwayStates
    <2>3. to \in {"recheck_source_invariants", "commit_and_resume"} \cup Completed =>
             Len(homeFrames') = BarrierFrames /\ eligible' # "no"
      BY <1>1, <1>2, <1>3 DEF SupervisorInvariant, Barrier, Completed
    <2>4. homeFrames' \in Seq(FrameIds) /\ IsInjective(homeFrames')
      BY <1>3 DEF SupervisorInvariant, Barrier
    <2> QED BY <2>1, <2>2, <2>3, <2>4 DEF Barrier
  <1>9. Latched'
    BY DEF SupervisorInvariant, Latched
  <1> QED BY <1>5, <1>6, <1>7, <1>8, <1>9 DEF SupervisorInvariant

LEMMA SafetyNamed == \A problem \in SafetyFailures : problem # None
  BY SupervisorAssumption DEF None

\* The place that each failing call takes the camera to be at is right.
LEMMA FailingCallKeeps ==
  ASSUME SupervisorInvariant,
         \/ \E problem \in SafetyFailures : ObserveSafety(problem) \/ AdvanceUnsafe(problem)
         \/ \E signal \in Signals : AdvanceInvalid(signal)
         \/ FailCalled
  PROVE  SupervisorInvariant'
  <1>1. ASSUME NEW problem \in SafetyFailures, ObserveSafety(problem) PROVE SupervisorInvariant'
    <2>1. Fail(problem, CameraHome) /\ camera' = camera /\ Latched'
      BY <1>1 DEF ObserveSafety, Unsafe, CloseLatch, Latched
    <2> QED BY <2>1, SafetyNamed, FailKeeps DEF CameraHome
  <1>2. ASSUME NEW problem \in SafetyFailures, AdvanceUnsafe(problem) PROVE SupervisorInvariant'
    <2>1. Fail(problem, AssumedHome) /\ camera' = camera /\ Latched'
      BY <1>2 DEF AdvanceUnsafe, Unsafe, CloseLatch, Latched
    <2>2. AssumedHome \in BOOLEAN /\ (AssumedHome => camera = "home")
      BY DEF AssumedHome, SupervisorInvariant, Whereabouts
    <2> QED BY <2>1, <2>2, SafetyNamed, FailKeeps
  <1>3. ASSUME NEW signal \in Signals, AdvanceInvalid(signal) PROVE SupervisorInvariant'
    <2> DEFINE atHome == state \in AtHomeStates
    <2>1. Fail("state_transition_invalid", atHome) /\ camera' = camera /\ Latched'
      BY <1>3 DEF AdvanceInvalid, trigger, SupervisorInvariant, Latched
    <2>2. atHome \in BOOLEAN /\ (atHome => camera = "home")
      BY DEF SupervisorInvariant, Whereabouts
    <2>3. "state_transition_invalid" # None
      BY DEF None
    <2> HIDE DEF atHome
    <2> QED BY <2>1, <2>2, <2>3, FailKeeps
  <1>4. CASE FailCalled
    <2>1. Fail("timeout", CameraHome) /\ camera' = camera /\ Latched'
      BY <1>4 DEF FailCalled, trigger, SupervisorInvariant, Latched
    <2>2. "timeout" # None
      BY DEF None
    <2> QED BY <2>1, <2>2, FailKeeps DEF CameraHome
  <1> QED BY <1>1, <1>2, <1>3, <1>4

LEMMA BeginKeeps ==
  ASSUME SupervisorInvariant, NEW r \in ResetType, Begin(r)
  PROVE  SupervisorInvariant'
  <1>1. state = "requested" /\ camera = "home" /\ camera' = camera /\ eligible' = eligible /\ Latched'
    BY DEF Begin, trigger, SupervisorInvariant, Whereabouts, Latched, AtHomeStates
  <1>2. CASE ResetValid(r)
    <2>1. /\ reset' = 1 /\ state' = "acquire_camera_lease_and_hold_arm"
          /\ homeFrames' = homeFrames /\ failure' = failure
      BY <1>2 DEF Begin, ResetValid
    <2>2. failure = None /\ homeFrames = <<>>
      BY <1>1 DEF SupervisorInvariant, FailureIsFinal, FailedStates, Barrier, AtHomeStates
    <2>3. Barrier'
      BY <2>1, <2>2, NoFrames DEF Barrier, AtHomeStates, Completed
    <2>4. FailureIsFinal' /\ Whereabouts' /\ Receipts' /\ state' \in States /\ camera' \in {"home", "away"}
      BY <1>1, <2>1, <2>2 DEF FailureIsFinal, Whereabouts, Receipts, States, AtHomeStates
    <2> QED BY <1>1, <2>3, <2>4 DEF SupervisorInvariant
  <1>3. CASE ~ResetValid(r)
    <2>1. Fail("action_history_reset_invalid", TRUE) /\ "action_history_reset_invalid" # None
      BY <1>3 DEF Begin, None
    <2> QED BY <1>1, <2>1, FailKeeps
  <1> QED BY <1>2, <1>3

LEMMA AdvanceKeeps ==
  ASSUME SupervisorInvariant,
         \/ \E signal \in Signals : AdvancePlain(signal)
         \/ \E primitive \in Primitives : AdvanceSelect(primitive)
         \/ \E c \in CandidateType : AdvanceStage(c)
         \/ \E phase \in Phases, passed \in BOOLEAN : AdvanceRecheck(phase, passed)
  PROVE  SupervisorInvariant'
  <1>1. ASSUME NEW signal \in Signals, AdvancePlain(signal) PROVE SupervisorInvariant'
    BY <1>1, ProceedKeeps DEF AdvancePlain, trigger
  <1>2. ASSUME NEW primitive \in Primitives, AdvanceSelect(primitive) PROVE SupervisorInvariant'
    <2>1. touched' = touched /\ windowOpen' = windowOpen /\ eligible' = eligible
      BY <1>2 DEF AdvanceSelect, trigger
    <2>2. CASE Proceed("frozen_primitive_selected")
      BY <1>2, <2>1, <2>2, ProceedKeeps DEF AdvanceSelect, Signals
    <2>3. CASE Fail("primitive_identity_mismatch", TRUE) /\ camera' = camera
      <3>1. camera = "home"
        BY <1>2 DEF AdvanceSelect, Expected, Target, SupervisorInvariant, Whereabouts, AtHomeStates
      <3>2. Latched' /\ "primitive_identity_mismatch" # None
        BY <2>1 DEF SupervisorInvariant, Latched, None
      <3> QED BY <2>3, <3>1, <3>2, FailKeeps
    <2> QED BY <1>2, <2>2, <2>3 DEF AdvanceSelect
  <1>3. ASSUME NEW c \in CandidateType, AdvanceStage(c) PROVE SupervisorInvariant'
    <2>1. touched' = touched /\ windowOpen' = windowOpen
      BY <1>3 DEF AdvanceStage, trigger
    <2>2. CASE Proceed("shadow_candidate_staged")
      BY <1>3, <2>1, <2>2, ProceedKeeps DEF AdvanceStage, Signals
    <2>3. CASE Fail("state_transition_invalid", FALSE) /\ camera' = camera
      <3>1. Latched' /\ "state_transition_invalid" # None
        BY <2>1 DEF SupervisorInvariant, Latched, None
      <3> QED BY <2>3, <3>1, FailKeeps
    <2> QED BY <1>3, <2>2, <2>3 DEF AdvanceStage
  <1>4. ASSUME NEW phase \in Phases, NEW passed \in BOOLEAN, AdvanceRecheck(phase, passed)
        PROVE  SupervisorInvariant'
    <2>1. touched' = touched /\ windowOpen' = windowOpen /\ eligible' = eligible
      BY <1>4 DEF AdvanceRecheck, trigger
    <2>2. CASE Proceed("source_invariants_verified")
      BY <1>4, <2>1, <2>2, ProceedKeeps DEF AdvanceRecheck, Signals
    <2> DEFINE reason == IF windowOpen THEN "source_invariant_failed" ELSE "active_window_closed"
    <2>3. CASE Fail(reason, TRUE) /\ camera' = camera
      <3>1. camera = "home"
        BY <1>4 DEF AdvanceRecheck, Expected, Target, SupervisorInvariant, Whereabouts, BackStates
      <3>2. Latched' /\ reason # None
        BY <2>1 DEF SupervisorInvariant, Latched, None
      <3> HIDE DEF reason
      <3> QED BY <2>3, <3>1, <3>2, FailKeeps
    <2> QED BY <1>4, <2>2, <2>3 DEF AdvanceRecheck
  <1> QED BY <1>1, <1>2, <1>3, <1>4

LEMMA FrameKeeps ==
  ASSUME SupervisorInvariant, NEW frame \in FrameType, AcceptHomeFrame(frame)
  PROVE  SupervisorInvariant'
  <1>1. Latched' /\ camera' = camera /\ eligible' = eligible
    BY DEF AcceptHomeFrame, trigger, SupervisorInvariant, Latched
  <1>0. state = "verify_home_and_arm_hold" => camera = "home"
    BY DEF SupervisorInvariant, Whereabouts, BackStates
  <1>2. CASE state # "verify_home_and_arm_hold"
    <2>1. Fail("home_frame_invalid", FALSE) /\ "home_frame_invalid" # None
      BY <1>2 DEF AcceptHomeFrame, None
    <2> QED BY <1>1, <2>1, FailKeeps
  <1>3. CASE state = "verify_home_and_arm_hold" /\ ~(frame.home /\ frame.clean)
    <2>1. Fail("home_frame_invalid", frame.home) /\ "home_frame_invalid" # None
      BY <1>3 DEF AcceptHomeFrame, None
    <2>2. frame.home \in BOOLEAN
      BY DEF FrameType
    <2> QED BY <1>0, <1>1, <1>3, <2>1, <2>2, FailKeeps
  <1>4. CASE state = "verify_home_and_arm_hold" /\ frame.home /\ frame.clean /\ FrameRepeats(frame)
    <2>1. Fail("home_frame_duplicate", TRUE) /\ "home_frame_duplicate" # None
      BY <1>4 DEF AcceptHomeFrame, None
    <2> QED BY <1>0, <1>1, <1>4, <2>1, FailKeeps
  <1>5. CASE state = "verify_home_and_arm_hold" /\ frame.home /\ frame.clean /\ ~FrameRepeats(frame)
    <2>1. /\ homeFrames' = Append(homeFrames, frame.id) /\ reset' = reset
          /\ IF Len(homeFrames') < BarrierFrames THEN state' = state /\ failure' = failure
             ELSE IF eligible = "no"
             THEN state' = "failed_safe_hold" /\ failure' = "candidate_rejected"
             ELSE state' = "recheck_source_invariants" /\ failure' = failure
      BY <1>5 DEF AcceptHomeFrame
    <2>2. /\ homeFrames' \in Seq(FrameIds) /\ IsInjective(homeFrames')
          /\ Len(homeFrames') = Len(homeFrames) + 1 /\ Len(homeFrames) \in Nat
      BY <1>5, <2>1, OneMoreFrame DEF SupervisorInvariant, Barrier, FrameType, FrameRepeats
    <2>3. Len(homeFrames') <= BarrierFrames
      BY <1>5, <2>2, SupervisorAssumption DEF SupervisorInvariant, Barrier
    <2>4. failure = None /\ camera = "home" /\ reset = 1
      BY <1>0, <1>5 DEF SupervisorInvariant, FailureIsFinal, FailedStates, Receipts, BackStates
    <2>5. \/ state' = "verify_home_and_arm_hold" /\ Len(homeFrames') < BarrierFrames /\ failure' = None
          \/ state' = "failed_safe_hold"
          \/ /\ state' = "recheck_source_invariants" /\ Len(homeFrames') = BarrierFrames
             /\ failure' = None /\ eligible # "no"
      BY <1>5, <2>1, <2>2, <2>3, <2>4, SupervisorAssumption
    <2>6. Barrier'
      BY <1>1, <2>2, <2>5 DEF Barrier, AtHomeStates, AwayStates, Completed
    <2>7. FailureIsFinal' /\ Whereabouts' /\ Receipts' /\ state' \in States /\ camera' \in {"home", "away"}
      BY <1>1, <2>1, <2>4, <2>5 DEF FailureIsFinal, FailedStates, Whereabouts, Receipts, States, BackStates,
                                   AtHomeStates, Completed
    <2> QED BY <1>1, <2>6, <2>7 DEF SupervisorInvariant
  <1> QED BY <1>2, <1>3, <1>4, <1>5

LEMMA FailsafeKeeps ==
  ASSUME SupervisorInvariant, NEW verified \in BOOLEAN, CompleteFailsafeReturn(verified)
  PROVE  SupervisorInvariant'
  <1>1. /\ state = "failsafe_return" /\ state' = "failed_safe_hold"
        /\ failure' = IF verified THEN failure ELSE "camera_return_failed"
        /\ camera' = IF verified THEN "home" ELSE camera
        /\ reset' = reset /\ homeFrames' = homeFrames /\ touched' = touched /\ windowOpen' = windowOpen
    BY DEF CompleteFailsafeReturn, trigger
  <1>2. FailureIsFinal' /\ Whereabouts' /\ Receipts' /\ Latched'
    BY <1>1 DEF SupervisorInvariant, FailureIsFinal, FailedStates, Whereabouts, Receipts, Latched,
               AtHomeStates, AwayStates, BackStates, Completed
  <1>3. Barrier'
    BY <1>1 DEF SupervisorInvariant, Barrier, AtHomeStates, AwayStates, Completed
  <1>4. state' \in States /\ camera' \in {"home", "away"}
    BY <1>1 DEF SupervisorInvariant, States, FailedStates
  <1> QED BY <1>2, <1>3, <1>4 DEF SupervisorInvariant

LEMMA CompleteKeeps ==
  ASSUME SupervisorInvariant, NEW valid \in BOOLEAN, NEW target \in Completed, Complete(valid, target),
         valid /\ target = "complete_stage2_memory_write" => eligible = "yes"
  PROVE  SupervisorInvariant'
  <1>1. /\ state = "commit_and_resume" /\ camera = "home" /\ camera' = camera /\ eligible' = eligible
        /\ Latched'
    BY DEF Complete, trigger, SupervisorInvariant, Whereabouts, Latched, BackStates
  <1>2. CASE valid
    <2>1. state' = target /\ reset' = reset /\ homeFrames' = homeFrames /\ failure' = failure
      BY <1>2 DEF Complete
    <2>2. failure = None /\ reset = 1 /\ Len(homeFrames) = BarrierFrames /\ eligible # "no"
      BY <1>1 DEF SupervisorInvariant, FailureIsFinal, FailedStates, Receipts, BackStates, Barrier
    <2>3. Barrier'
      BY <1>1, <2>1, <2>2 DEF SupervisorInvariant, Barrier, AtHomeStates, AwayStates, Completed
    <2>4. FailureIsFinal' /\ Whereabouts' /\ Receipts' /\ state' \in States /\ camera' \in {"home", "away"}
      BY <1>1, <1>2, <2>1, <2>2 DEF FailureIsFinal, Whereabouts, Receipts, States, Completed
    <2> QED BY <1>1, <2>3, <2>4 DEF SupervisorInvariant
  <1>3. CASE ~valid
    <2>1. Fail("stale_action_history_resume", TRUE) /\ "stale_action_history_resume" # None
      BY <1>3 DEF Complete, None
    <2> QED BY <1>1, <2>1, FailKeeps
  <1> QED BY <1>2, <1>3

LEMMA CompletionsKeep ==
  ASSUME SupervisorInvariant,
         \/ \E r \in ResumeType : CompleteNoWriteResume(r)
         \/ \E r \in ResumeType, exact \in BOOLEAN : CompleteStage2MemoryWrite(r, exact)
  PROVE  SupervisorInvariant'
  <1>1. ASSUME NEW r \in ResumeType, CompleteNoWriteResume(r) PROVE SupervisorInvariant'
    <2>1. ResumeValid(r) \in BOOLEAN /\ "complete_no_write" \in Completed
      BY DEF ResumeValid, ResumeType, Completed
    <2> QED BY <1>1, <2>1, CompleteKeeps DEF CompleteNoWriteResume
  <1>2. ASSUME NEW r \in ResumeType, NEW exact \in BOOLEAN, CompleteStage2MemoryWrite(r, exact)
        PROVE  SupervisorInvariant'
    <2> DEFINE valid == ResumeValid(r) /\ exact /\ eligible = "yes"
    <2>1. Complete(valid, "complete_stage2_memory_write")
      BY <1>2 DEF CompleteStage2MemoryWrite
    <2>2. valid \in BOOLEAN /\ "complete_stage2_memory_write" \in Completed /\ (valid => eligible = "yes")
      BY DEF ResumeValid, ResumeType, Completed
    <2> HIDE DEF valid
    <2> QED BY <2>1, <2>2, CompleteKeeps
  <1> QED BY <1>1, <1>2

LEMMA ResetKeeps == ASSUME SupervisorInvariant, ResetEpisode PROVE SupervisorInvariant'
  <1>1. /\ state' = "idle" /\ reset' = NoReset /\ homeFrames' = <<>> /\ failure' = None
        /\ camera' = "home" /\ touched' = FALSE
    BY DEF ResetEpisode
  <1>2. Barrier'
    BY <1>1, NoFrames DEF Barrier, AtHomeStates, AwayStates, Completed
  <1>3. FailureIsFinal' /\ Whereabouts' /\ Receipts' /\ Latched' /\ state' \in States
        /\ camera' \in {"home", "away"}
    BY <1>1 DEF FailureIsFinal, Whereabouts, Receipts, Latched, States, AtHomeStates, AwayStates, BackStates,
               Completed
  <1> QED BY <1>2, <1>3 DEF SupervisorInvariant

LEMMA SupervisorStep == SupervisorInvariant /\ [Next]_supervisorVars => SupervisorInvariant'
  <1> SUFFICES ASSUME SupervisorInvariant, [Next]_supervisorVars PROVE SupervisorInvariant'
    OBVIOUS
  <1>1. CASE UNCHANGED supervisorVars
    BY <1>1 DEF supervisorVars, transaction, trigger, SupervisorInvariant, FailureIsFinal, Whereabouts,
               Barrier, Receipts, Latched
  <1>2. CASE ResetEpisode
    BY <1>2, ResetKeeps
  <1>3. CASE \E e \in EvidenceType : episode > 0 /\ ConsiderTrigger(e)
    BY <1>3, TriggerKeeps
  <1>4. CASE \E r \in ResetType : Begin(r)
    BY <1>4, BeginKeeps
  <1>5. CASE \/ \E problem \in SafetyFailures : ObserveSafety(problem) \/ AdvanceUnsafe(problem)
             \/ \E signal \in Signals : AdvanceInvalid(signal)
             \/ FailCalled
    BY <1>5, FailingCallKeeps
  <1>6. CASE \/ \E signal \in Signals : AdvancePlain(signal)
             \/ \E primitive \in Primitives : AdvanceSelect(primitive)
             \/ \E c \in CandidateType : AdvanceStage(c)
             \/ \E phase \in Phases, passed \in BOOLEAN : AdvanceRecheck(phase, passed)
    BY <1>6, AdvanceKeeps
  <1>7. CASE \E frame \in FrameType : AcceptHomeFrame(frame)
    BY <1>7, FrameKeeps
  <1>8. CASE \E verified \in BOOLEAN : CompleteFailsafeReturn(verified)
    BY <1>8, FailsafeKeeps
  <1>9. CASE \/ \E r \in ResumeType : CompleteNoWriteResume(r)
             \/ \E r \in ResumeType, exact \in BOOLEAN : CompleteStage2MemoryWrite(r, exact)
    BY <1>9, CompletionsKeep
  <1> QED BY <1>1, <1>2, <1>3, <1>4, <1>5, <1>6, <1>7, <1>8, <1>9 DEF Next

-----------------------------------------------------------------------------
(* Theorems *)

\* The inductive invariant of the supervisor: where the camera is in each state, which frames
\* and receipts it holds there, and that the latch closes with the first report of contact.
THEOREM SupervisorSafe == Spec => []SupervisorInvariant
  BY SupervisorInit, SupervisorStep, PTL DEF Spec

\* No call of any kind leads a failed supervisor back to work.
THEOREM FailuresLast == Spec => []FailureIsFinal
  <1>1. SupervisorInvariant => FailureIsFinal
    BY DEF SupervisorInvariant
  <1> QED BY SupervisorSafe, <1>1, PTL

\* For every length of the barrier, work resumes only from that many distinct frames of home.
THEOREM ResumesFresh == Spec => []ResumesFromFreshHome
  <1>1. SupervisorInvariant => ResumesFromFreshHome
    <2> SUFFICES ASSUME SupervisorInvariant PROVE ResumesFromFreshHome
      OBVIOUS
    <2>1. state \in {"recheck_source_invariants", "commit_and_resume"} \cup Completed =>
            reset # NoReset /\ camera = "home"
      BY DEF SupervisorInvariant, Receipts, Whereabouts, NoReset, BackStates
    <2>2. state \in {"recheck_source_invariants", "commit_and_resume"} \cup Completed =>
            Len(homeFrames) = BarrierFrames /\ IsInjective(homeFrames) /\ eligible # "no"
      BY DEF SupervisorInvariant, Barrier
    <2>3. state = "complete_stage2_memory_write" => eligible = "yes"
      BY DEF SupervisorInvariant, Receipts
    <2> QED BY <2>1, <2>2, <2>3 DEF ResumesFromFreshHome
  <1> QED BY SupervisorSafe, <1>1, PTL

\* The camera is never away without an owner, unless its own return was reported as failed.
THEOREM CameraHasOwner == Spec => []CameraIsOwned
  <1>1. SupervisorInvariant => CameraIsOwned
    BY DEF SupervisorInvariant, Whereabouts, CameraIsOwned, CameraOwner, States, FailedStates, AtHomeStates,
           AwayStates, BackStates, Completed
  <1> QED BY SupervisorSafe, <1>1, PTL

\* Nothing was touched, gripped or left behind when the supervisor goes on to the commit.
THEOREM CommitsOnlyUntouched == Spec => CommitsUntouched
  <1>1. SupervisorInvariant /\ [Next]_supervisorVars =>
          [(state' = "commit_and_resume" /\ state # state') => ~touched']_supervisorVars
    <2> SUFFICES ASSUME SupervisorInvariant, Next, state' = "commit_and_resume", state # state'
                 PROVE  ~touched'
      OBVIOUS
    <2>1. PICK phase \in Phases, passed \in BOOLEAN : AdvanceRecheck(phase, passed)
      BY DEF Next, ResetEpisode, ConsiderTrigger, Begin, ObserveSafety, AdvanceUnsafe, AdvanceInvalid,
             AdvancePlain, AdvanceSelect, AdvanceStage, AcceptHomeFrame, FailCalled, CompleteFailsafeReturn,
             CompleteNoWriteResume, CompleteStage2MemoryWrite, Complete, Unsafe, Fail, Proceed, Expected, Plain,
             Target
    <2>2. windowOpen /\ touched' = touched
      BY <2>1 DEF AdvanceRecheck, SourceHolds, Fail
    <2> QED BY <2>2 DEF SupervisorInvariant, Latched
  <1> QED BY SupervisorSafe, <1>1, PTL DEF Spec, CommitsUntouched
=============================================================================
