--------------------------- MODULE ActiveFrontMemory ---------------------------
(***************************************************************************)
(* ActiveFrontStage2MemoryOrchestrator: the transaction that turns three   *)
(* frames seen from the active view into one write of the object memory.   *)
(* A candidate is frozen while the camera is out, the camera must be       *)
(* proved home by four frames, the source is rechecked, and only then is   *)
(* the memory written, if nothing failed meanwhile and nobody else changed *)
(* it.  The orchestrator is called from outside with times of the caller's *)
(* choosing, which may run a little behind.  Digests of one object are the *)
(* object itself; a call that raises before it changed anything is no step.*)
(***************************************************************************)
EXTENDS ObjectState

CONSTANTS
  FrameIds,       (* identities of collect and of home frames                   *)
  HomeFrames,     (* home_v2_barrier_frames                                     *)
  HomeUnsafe,     (* memory reasons ActiveFrontSafetyEvidence.failure maps to   *)
  MaxTime,        (* bound: the times a caller gives                            *)
  Lateness,       (* bound: how far a call's time may lie behind an earlier one *)
  MaxEpisodes,    (* bound: episodes                                            *)
  MaxOthers       (* bound: writes of the memory by other callers, per episode  *)

ASSUME ActiveMemoryAssumption ==
  /\ HomeFrames \in Nat \ {0}
  /\ HomeUnsafe \subseteq SafetyReasons
  /\ {MaxTime, Lateness, MaxEpisodes, MaxOthers} \subseteq Nat

VARIABLES
  stage,       (* _state                                                        *)
  triggeredAt, (* _request.trigger_timestamp_s                                  *)
  before,      (* what _pre_memory_state_digest is the digest of                *)
  frames,      (* _frames and _adaptations                                      *)
  window,      (* of _candidate_verifier                                        *)
  decision,    (* _candidate_decision                                           *)
  candidate,   (* _candidate: none, eligible or rejected                        *)
  returnedAt,  (* _return_home_timestamp_s                                      *)
  homeFrames,  (* _home_frame_ids with their timestamps                         *)
  recheckedAt, (* _recheck.timestamp_s                                          *)
  receipt,     (* _commit_receipt or _no_commit_receipt                         *)
  replanned,   (* whether _shadow_action_receipt exists                         *)
  leaseHeld,   (* _camera_lease_held                                            *)
  forbidden,   (* _commit_forbidden                                             *)
  memory,      (* the object memory, which other callers write too              *)
  episode,     (* _episode_generation                                           *)
  now,         (* the latest time a caller gave                                 *)
  others       (* history: updates other callers had accepted in this episode   *)

look     == <<triggeredAt, before>>
seen     == <<frames, window, decision, candidate>>
home     == <<returnedAt, homeFrames>>
outcome  == <<recheckedAt, receipt, replanned>>
control  == <<stage, leaseHeld, forbidden>>
outside  == <<episode, others>>

activeMemoryVars == <<look, seen, home, outcome, control, memory, outside, now>>

None == "none"

Returning == {"returning_home", "returning_home_no_commit"}
Stages == {"empty", "reset_cleared", "collecting", "verified_pending",
           "return_home_required_no_commit", "home_barrier_passed", "source_recheck_passed",
           "committed", "home_verified_failed_safe_hold", "shadow_replan_failed_safe_hold"}
          \cup Returning

NoReceipt == [kind |-> None]

Times == 0..MaxTime

-----------------------------------------------------------------------------
(* Failing *)

\* Mutant: a failure that is found when the candidate is complete releases the camera at once.
RequireReturnReleasing ==
  /\ forbidden' = TRUE
  /\ stage' = "home_verified_failed_safe_hold"
  /\ leaseHeld' = FALSE

\* _require_return_home_without_commit: the camera lease is kept until home is proved.
RequireReturn ==
  /\ forbidden' = TRUE
  /\ stage' = IF stage \in Returning THEN "returning_home_no_commit"
              ELSE "return_home_required_no_commit"
  /\ UNCHANGED leaseHeld

\* _finish_failed_safe_hold
FailedHold ==
  /\ forbidden' = TRUE
  /\ stage' = "home_verified_failed_safe_hold"
  /\ leaseHeld' = FALSE

\* _expire_if_needed
Expired(t) ==
  /\ candidate # None
  /\ \/ t < decision.measurement.at
     \/ t - decision.measurement.at > MaxPending

\* memory.invalidate_for_safety, when there is a reason; it refuses a time before its own state.
InvalidateMemory(reasons, t) ==
  /\ reasons # {} => t >= memory.stateAt
  /\ memory' = IF reasons = {} THEN memory ELSE Invalidated(memory, t, reasons)

-----------------------------------------------------------------------------
(* Collecting *)

NavigableAt(state, t) ==
  /\ Valid(state)
  /\ t - state.observedAt <= MaxAge
  /\ state.variance <= MaxVariance

\* begin_collection; the stage already refuses what the attempt budget would.
BeginCollection(t) ==
  /\ stage = "reset_cleared"
  /\ memory.stateAt <= t /\ memory.observedAt <= t
  /\ memory.mode # "invalid" /\ ~NavigableAt(memory, t)
  /\ stage' = "collecting" /\ leaseHeld' = TRUE /\ forbidden' = FALSE
  /\ triggeredAt' = t /\ before' = memory
  /\ UNCHANGED <<memory, seen, home, outcome, outside>>

\* A frame of the active view: its identity, which its two digests share, and whether it names
\* the active request.
FrameType == [id : FrameIds, own : BOOLEAN, image : Images]

Framed(frame, t) ==
  [id |-> frame.id, image |-> frame.image, at |-> t, rgbAt |-> t - frame.image.lag]

\* adapt(): the image alone is acceptable; its age is left to the verifier.
Adapts(image) ==
  image.faults = {} /\ image.variance <= MaxVariance /\ image.skew <= MaxSkew

Acceptable(frame, safety, t) ==
  /\ frame.own
  /\ \A i \in DOMAIN frames : frames[i].id # frame.id
  /\ Adapts(frame.image) /\ safety = {}
  /\ frames # <<>> => t > Last(frames).at

RefuseCollectFrame(frame, safety, t) ==
  /\ stage = "collecting"
  /\ ~Acceptable(frame, safety, t)
  /\ InvalidateMemory(safety, t)
  /\ RequireReturn
  /\ UNCHANGED <<look, seen, home, outcome, outside>>

\* The verdict on the full window: verified, close together, no conflict, and its lowest score
\* enough above the score of the home view.
Eligible(all, found, gains) ==
  /\ found.verified
  /\ Spread(all)
  /\ gains
  /\ ~Conflict(memory, found.measurement)

TakeCollectFrame(frame, gains, t) ==
  LET m   == Framed(frame, t)
      all == Append(frames, m)
      new == Observed(window, Measured(frame.image, t), {})
  IN /\ stage = "collecting"
     /\ Acceptable(frame, {}, t)
     /\ frames' = all /\ window' = new.window /\ decision' = new.decision
     /\ \/ /\ Len(all) < MinFrames
           /\ UNCHANGED <<candidate, control>>
        \/ /\ Len(all) = MinFrames /\ Eligible(all, new.decision, gains)
           /\ candidate' = "eligible" /\ stage' = "verified_pending"
           /\ UNCHANGED <<leaseHeld, forbidden>>
        \/ /\ Len(all) = MinFrames /\ ~Eligible(all, new.decision, gains)
           /\ candidate' = "rejected" /\ RequireReturn
     /\ UNCHANGED <<memory, look, home, outcome, outside>>

\* defer_candidate_for_pure_logic_replay
DeferCandidate ==
  /\ stage = "verified_pending" /\ receipt = NoReceipt /\ ~replanned
  /\ RequireReturn
  /\ UNCHANGED <<memory, look, seen, home, outcome, outside>>

-----------------------------------------------------------------------------
(* Going home *)

LastCollect == IF frames = <<>> THEN triggeredAt ELSE Last(frames).at

\* Mutant: what failed before the return is forgotten.
MarkReturningHomeAnew(t, named) ==
  /\ stage \in {"verified_pending", "return_home_required_no_commit"}
  /\ forbidden' = (~named \/ t < LastCollect \/ Expired(t))
  /\ returnedAt' = t
  /\ stage' = IF forbidden' THEN "returning_home_no_commit" ELSE "returning_home"
  /\ UNCHANGED <<memory, look, seen, homeFrames, outcome, leaseHeld, outside>>

\* mark_returning_home; named says whether the caller named the candidate rightly.
MarkReturningHome(t, named) ==
  /\ stage \in {"verified_pending", "return_home_required_no_commit"}
  /\ forbidden' = (forbidden \/ ~named \/ t < LastCollect \/ Expired(t))
  /\ returnedAt' = t
  /\ stage' = IF forbidden' THEN "returning_home_no_commit" ELSE "returning_home"
  /\ UNCHANGED <<memory, look, seen, homeFrames, outcome, leaseHeld, outside>>

\* Mutant: a frame may have been taken before the return was ordered.
TimelyEarly(t) == homeFrames # <<>> => t > Last(homeFrames).at

Timely(t) == t >= returnedAt /\ (homeFrames # <<>> => t > Last(homeFrames).at)

Repeats(id) == \E i \in DOMAIN homeFrames : homeFrames[i].id = id

\* accept_home_v2_barrier_frame, when it counts nothing: a bad time is answered before safety is.
RefuseHomeFrame(id, valid, t, problem) ==
  /\ stage \in Returning
  /\ \/ /\ ~Timely(t)
        /\ UNCHANGED memory
     \/ /\ Timely(t) /\ problem # {}
        /\ InvalidateMemory(problem, t)
     \/ /\ Timely(t) /\ problem = {} /\ (~valid \/ Repeats(id))
        /\ UNCHANGED memory
  /\ RequireReturn
  /\ UNCHANGED <<look, seen, home, outcome, outside>>

\* The same call, when the frame counts; the last one of the barrier releases the camera.
CountHomeFrame(id, t) ==
  /\ stage \in Returning
  /\ Timely(t) /\ ~Repeats(id)
  /\ homeFrames' = Append(homeFrames, [id |-> id, at |-> t])
  /\ forbidden' = (forbidden \/ Expired(t))
  /\ leaseHeld' = (Len(homeFrames') < HomeFrames)
  /\ stage' = IF leaseHeld' THEN stage
              ELSE IF forbidden' THEN "home_verified_failed_safe_hold" ELSE "home_barrier_passed"
  /\ UNCHANGED <<memory, look, seen, returnedAt, outcome, outside>>

-----------------------------------------------------------------------------
(* Writing *)

\* ActiveFrontSourceRecheckEvidence: source stands for identity, phase, camera and invariants.
RecheckType == [source : BOOLEAN, windowOpen : BOOLEAN, superseded : BOOLEAN]

Dangers(evidence, problem) == problem \cup When(~evidence.windowOpen, "pregrasp_window_closed")

SourceHolds(evidence, problem, t) ==
  /\ evidence.source /\ evidence.windowOpen /\ ~evidence.superseded
  /\ problem = {}
  /\ t >= Last(homeFrames).at
  /\ memory = before

RecheckSource(evidence, problem, t) ==
  /\ stage = "home_barrier_passed"
  /\ \/ /\ Expired(t)
        /\ FailedHold
        /\ UNCHANGED <<memory, recheckedAt>>
     \/ /\ ~Expired(t)
        /\ InvalidateMemory(Dangers(evidence, problem), t)
        /\ IF SourceHolds(evidence, problem, t)
           THEN /\ stage' = "source_recheck_passed" /\ recheckedAt' = t
                /\ UNCHANGED <<leaseHeld, forbidden>>
           ELSE FailedHold /\ UNCHANGED recheckedAt
  /\ UNCHANGED <<look, seen, home, receipt, replanned, outside>>

\* Mutant: the memory may have changed between the recheck and the commit.
CommittableAnyway(named, t) == named /\ t >= recheckedAt /\ ~Expired(t)

\* What commit checks before it previews the write.
Committable(named, t) == named /\ t >= recheckedAt /\ ~Expired(t) /\ memory = before

RefuseCommit(named, t) ==
  /\ stage = "source_recheck_passed"
  /\ ~Committable(named, t)
  /\ FailedHold
  /\ UNCHANGED <<memory, look, seen, home, outcome, outside>>

\* A rejected preview is applied only when it invalidates for safety.
Applies(safety, state) == safety # {} /\ state # memory

\* commit: the receipt is prepared from the preview, then the preview is applied.
Commit(t, safety) ==
  LET done == Preview(memory, decision, safety, t)
      kept == IF done.accepted \/ Applies(safety, done.state) THEN done.state ELSE memory
  IN /\ stage = "source_recheck_passed"
     /\ Committable(TRUE, t) /\ t >= memory.stateAt
     /\ memory' = kept
     /\ receipt' = [kind |-> IF done.accepted THEN "commit" ELSE "no_commit", at |-> t, state |-> kept]
     /\ IF done.accepted
        THEN stage' = "committed" /\ UNCHANGED <<leaseHeld, forbidden>>
        ELSE FailedHold
     /\ UNCHANGED <<look, seen, home, recheckedAt, replanned, outside>>

\* Mutant: a second commit writes the memory again.
CommitAgainWriting(t) ==
  /\ stage = "committed" /\ t >= memory.stateAt
  /\ stage' = "shadow_replan_failed_safe_hold" /\ forbidden' = TRUE
  /\ memory' = Accepted(memory, decision, t, FALSE)
  /\ UNCHANGED <<look, seen, home, outcome, leaseHeld, outside>>

\* A second commit latches the hold; a shadow action generation does not follow it.
CommitAgain(t) ==
  /\ stage = "committed"
  /\ stage' = "shadow_replan_failed_safe_hold" /\ forbidden' = TRUE
  /\ UNCHANGED <<memory, look, seen, home, outcome, leaseHeld, outside>>

\* create_shadow_action_generation; valid says whether the resume receipt is.
CreateShadowActionGeneration(valid) ==
  /\ stage = "committed" /\ ~replanned
  /\ \/ /\ valid
        /\ replanned' = TRUE /\ UNCHANGED control
     \/ /\ ~valid
        /\ stage' = "shadow_replan_failed_safe_hold" /\ forbidden' = TRUE
        /\ UNCHANGED <<leaseHeld, replanned>>
  /\ UNCHANGED <<memory, look, seen, home, recheckedAt, receipt, outside>>

-----------------------------------------------------------------------------
(* The rest of the world *)

\* Another caller updates the shared memory from an image of its own, or invalidates it.
UpdateElsewhere(image, t) ==
  /\ others < MaxOthers /\ t >= memory.stateAt
  /\ LET done == Updated(memory, Decision(Measured(image, t), <<>>, {}), {})
     IN /\ memory' = done.state
        /\ others' = IF done.accepted THEN others + 1 ELSE others
  /\ UNCHANGED <<look, seen, home, outcome, control, episode>>

InvalidateElsewhere(reasons, t) ==
  /\ reasons # {}
  /\ InvalidateMemory(reasons, t)
  /\ UNCHANGED <<look, seen, home, outcome, control, outside>>

Cleared ==
  /\ memory' = Forgotten(0)
  /\ triggeredAt' = Never /\ before' = Forgotten(0)
  /\ frames' = <<>> /\ window' = EmptyWindow /\ decision' = [verified |-> FALSE] /\ candidate' = None
  /\ returnedAt' = Never /\ homeFrames' = <<>>
  /\ recheckedAt' = Never /\ receipt' = NoReceipt /\ replanned' = FALSE
  /\ leaseHeld' = FALSE /\ forbidden' = FALSE
  /\ others' = 0
  /\ now' = 0

\* The clock of a new episode starts at zero.
ResetEpisode ==
  /\ episode < MaxEpisodes
  /\ episode' = episode + 1
  /\ stage' = "reset_cleared"
  /\ Cleared

Init ==
  /\ memory = Forgotten(0)
  /\ triggeredAt = Never /\ before = Forgotten(0)
  /\ frames = <<>> /\ window = EmptyWindow /\ decision = [verified |-> FALSE] /\ candidate = None
  /\ returnedAt = Never /\ homeFrames = <<>>
  /\ recheckedAt = Never /\ receipt = NoReceipt /\ replanned = FALSE
  /\ leaseHeld = FALSE /\ forbidden = FALSE
  /\ others = 0 /\ now = 0
  /\ episode = 0 /\ stage = "empty"

Problems == {{}} \cup {{r} : r \in HomeUnsafe}

Orchestrator(t) ==
  \/ BeginCollection(t)
  \/ \E frame \in FrameType :
       \/ \E gains \in BOOLEAN : TakeCollectFrame(frame, gains, t)
       \/ \E safety \in SafetyContexts : RefuseCollectFrame(frame, safety, t)
  \/ \E named \in BOOLEAN : MarkReturningHome(t, named)
  \/ \E id \in FrameIds, valid \in BOOLEAN, problem \in Problems :
       RefuseHomeFrame(id, valid, t, problem)
  \/ \E id \in FrameIds : CountHomeFrame(id, t)
  \/ \E evidence \in RecheckType, problem \in Problems : RecheckSource(evidence, problem, t)
  \/ \E named \in BOOLEAN : RefuseCommit(named, t)
  \/ \E safety \in SafetyContexts : Commit(t, safety)
  \/ CommitAgain(t)

World(t) ==
  \/ \E image \in Images : episode > 0 /\ UpdateElsewhere(image, t)
  \/ \E reasons \in SafetyContexts : episode > 0 /\ InvalidateElsewhere(reasons, t)

\* A call at time t, at most one tick later than the latest.
Call(t) ==
  /\ now - Lateness <= t /\ t <= now + 1
  /\ now' = IF t > now THEN t ELSE now
  /\ Orchestrator(t) \/ World(t)

Untimed ==
  /\ DeferCandidate \/ \E valid \in BOOLEAN : CreateShadowActionGeneration(valid)
  /\ UNCHANGED now

Next == (\E t \in Times : Call(t)) \/ Untimed \/ ResetEpisode

Spec == Init /\ [][Next]_activeMemoryVars

-----------------------------------------------------------------------------
(* Properties *)

\* Type invariant, with what a stage says of the verdict and of the receipt.
ActiveMemoryTypeOK ==
  /\ stage \in Stages
  /\ episode \in 0..MaxEpisodes
  /\ others \in 0..MaxOthers
  /\ leaseHeld \in BOOLEAN /\ forbidden \in BOOLEAN /\ replanned \in BOOLEAN
  /\ candidate \in {None, "eligible", "rejected"}
  /\ Len(frames) \in 0..MinFrames /\ Len(homeFrames) \in 0..HomeFrames
  /\ {triggeredAt, returnedAt, recheckedAt} \subseteq Times \cup {Never}
  /\ receipt.kind \in {None, "commit", "no_commit"}
  /\ stage \in {"return_home_required_no_commit", "returning_home_no_commit",
               "home_verified_failed_safe_hold", "shadow_replan_failed_safe_hold"} => forbidden
  /\ receipt.kind = "commit" <=> stage \in {"committed", "shadow_replan_failed_safe_hold"}

\* The camera is released exactly when home is proved: whichever failure ends the look, the
\* lease is held until the last frame of the barrier and never after it.
LeaseUntilHome ==
  episode > 0 /\ stage # "reset_cleared" => (leaseHeld <=> Len(homeFrames) < HomeFrames)

\* Every accepted update of the memory is accounted for: those of other callers, and one if and
\* only if there is a commit receipt.  Rejections, invalidations and repeated commits add none.
WrittenOnce ==
  memory.accepted = others + (IF receipt.kind = "commit" THEN 1 ELSE 0)

\* What is committed was seen in this look by MinFrames different frames at increasing times,
\* before the camera was proved home by frames later than all of them, and is not too old.
CommittedWasSeen ==
  receipt.kind = "commit" =>
    LET last == Last(frames)
    IN /\ Len(frames) = MinFrames /\ Len(homeFrames) = HomeFrames
       /\ \A i, j \in DOMAIN frames :
            i < j => frames[i].at < frames[j].at /\ frames[i].id # frames[j].id
       /\ \A i, j \in DOMAIN homeFrames :
            i < j => homeFrames[i].at < homeFrames[j].at /\ homeFrames[i].id # homeFrames[j].id
       /\ last.at <= returnedAt /\ returnedAt <= homeFrames[1].at
       /\ Last(homeFrames).at <= recheckedAt /\ recheckedAt <= receipt.at
       /\ receipt.at - last.at <= MaxPending
       /\ receipt.state.position = last.image.position
       /\ receipt.state.observedAt = last.rgbAt

\* The write replaces exactly the state the look began with: nobody else's update or invalidation
\* in between is overwritten, and a refused write leaves only an invalidation.
NothingOverwritten ==
  [][(receipt' # receipt /\ receipt' # NoReceipt) =>
       /\ memory = before
       /\ receipt'.kind = "commit" => memory'.accepted = before.accepted + 1
       /\ receipt'.kind = "no_commit" /\ memory' # before =>
            memory'.mode = "invalid" /\ memory'.position = before.position]_activeMemoryVars

\* The orchestrator carries out the abstract transaction.
Look == INSTANCE ActiveViewTransaction WITH
  camera  <- IF stage \in {"empty", "reset_cleared"} THEN "home"
             ELSE IF leaseHeld THEN "out" ELSE "back",
  verdict <- IF forbidden THEN "forbidden" ELSE "open",
  written <- receipt.kind = "commit"

CarriesOutTransaction == Look!Transaction
=============================================================================
