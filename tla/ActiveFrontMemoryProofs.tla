------------------------ MODULE ActiveFrontMemoryProofs ------------------------
(***************************************************************************)
(* Theorems about the re-observation transaction: for any images, frames,  *)
(* window, barrier and gates, and whatever times its callers give.         *)
(***************************************************************************)
EXTENDS ActiveFrontMemory, TLAPS

Idle    == {"empty", "reset_cleared"}
Away    == {"collecting", "verified_pending", "return_home_required_no_commit"}
Written == {"committed", "shadow_replan_failed_safe_hold"}
Failed  == {"return_home_required_no_commit", "returning_home_no_commit",
            "home_verified_failed_safe_hold", "shadow_replan_failed_safe_hold"}
Back    == {"home_barrier_passed", "source_recheck_passed", "home_verified_failed_safe_hold"}
           \cup Written

HomeFrame == [id : FrameIds, at : Int]

Kinds ==
  /\ stage \in Stages /\ episode \in Nat
  /\ leaseHeld \in BOOLEAN /\ forbidden \in BOOLEAN
  /\ homeFrames \in Seq(HomeFrame)
  /\ stage = "empty" => episode = 0

\* The lease is held from the beginning of the look to the last frame of the barrier.
Lease ==
  /\ stage \in Idle => leaseHeld = FALSE /\ homeFrames = <<>>
  /\ stage \in Away => leaseHeld = TRUE /\ homeFrames = <<>>
  /\ stage \in Returning => leaseHeld = TRUE /\ Len(homeFrames) < HomeFrames
  /\ stage \in Back => leaseHeld = FALSE /\ Len(homeFrames) = HomeFrames

\* The stage tells whether the write happened, and whether it is forbidden: on the way home a
\* candidate that expires is forbidden before the stage tells.
Fate ==
  /\ stage \in Failed => forbidden = TRUE
  /\ forbidden = TRUE => stage \in Failed \cup {"returning_home"}
  /\ receipt.kind = "commit" <=> stage \in Written
  /\ stage \notin {"home_verified_failed_safe_hold"} \cup Written => receipt = NoReceipt

ControlInvariant == Kinds /\ Lease /\ Fate

-----------------------------------------------------------------------------

LEMMA Limits ==
  /\ HomeFrames \in Nat /\ HomeFrames > 0 /\ MinFrames \in Nat /\ MinFrames > 0
  /\ MaxPending \in Nat /\ Times \subseteq Int
  BY ActiveMemoryAssumption, ObjectStateAssumption DEF Times

LEMMA NoFrame == ASSUME NEW S PROVE <<>> \in Seq(S) /\ Len(<<>>) = 0
  OBVIOUS

LEMMA OneMoreFrame ==
  ASSUME NEW S, NEW seq \in Seq(S), NEW x \in S
  PROVE  /\ Append(seq, x) \in Seq(S) /\ Len(Append(seq, x)) = Len(seq) + 1 /\ Len(seq) \in Nat
         /\ Append(seq, x)[Len(seq) + 1] = x /\ Append(seq, x) # <<>>
         /\ \A i \in 1..Len(seq) : Append(seq, x)[i] = seq[i]
  OBVIOUS

LEMMA Falsehood == ASSUME NEW x, NEW m \in Nat, NEW n \in Nat, x = (m < n), ~(m < n) PROVE x = FALSE
  <1>1. x \in BOOLEAN
    BY SMT
  <1>2. ~x
    BY Zenon
  <1> QED BY <1>1, <1>2

\* A failure that is found while the camera is out, whichever it is.
LEMMA RequireReturnKeeps ==
  ASSUME ControlInvariant, stage \in Away \cup Returning, RequireReturn,
         UNCHANGED <<receipt, homeFrames, episode>>
  PROVE  ControlInvariant'
  <1>1. /\ forbidden' = TRUE /\ leaseHeld' = leaseHeld
        /\ stage' = IF stage \in Returning THEN "returning_home_no_commit"
                    ELSE "return_home_required_no_commit"
    BY DEF RequireReturn
  <1>2. Kinds'
    BY <1>1 DEF ControlInvariant, Kinds, Stages, Returning
  <1>3. Lease'
    BY <1>1 DEF ControlInvariant, Lease, Idle, Away, Returning, Back, Written
  <1>4. Fate'
    BY <1>1 DEF ControlInvariant, Fate, Failed, Away, Returning, Written
  <1> QED BY <1>2, <1>3, <1>4 DEF ControlInvariant

\* A failure that is found when the camera is home.
LEMMA FailedHoldKeeps ==
  ASSUME ControlInvariant, stage \in {"home_barrier_passed", "source_recheck_passed"}, FailedHold,
         UNCHANGED <<homeFrames, episode>>, receipt'.kind # "commit"
  PROVE  ControlInvariant'
  <1>1. forbidden' = TRUE /\ leaseHeld' = FALSE /\ stage' = "home_verified_failed_safe_hold"
    BY DEF FailedHold
  <1>2. Kinds'
    BY <1>1 DEF ControlInvariant, Kinds, Stages
  <1>3. Lease'
    BY <1>1 DEF ControlInvariant, Lease, Idle, Away, Returning, Back, Written
  <1>4. Fate'
    BY <1>1 DEF ControlInvariant, Fate, Failed, Written
  <1> QED BY <1>2, <1>3, <1>4 DEF ControlInvariant

\* A step that goes from one stage to another and fails nothing.
LEMMA GoesOnKeeps ==
  ASSUME ControlInvariant, UNCHANGED <<homeFrames, episode, leaseHeld, forbidden, receipt>>,
         \/ stage' = stage
         \/ stage = "collecting" /\ stage' = "verified_pending"
         \/ stage = "home_barrier_passed" /\ stage' = "source_recheck_passed"
  PROVE  ControlInvariant'
  <1>1. Kinds'
    BY DEF ControlInvariant, Kinds, Stages
  <1>2. Lease'
    BY DEF ControlInvariant, Lease, Idle, Away, Returning, Back, Written
  <1>3. Fate'
    BY DEF ControlInvariant, Fate, Failed, Written
  <1> QED BY <1>1, <1>2, <1>3 DEF ControlInvariant

LEMMA BeginKeeps == ASSUME ControlInvariant, NEW t \in Times, BeginCollection(t) PROVE ControlInvariant'
  <1>1. /\ stage = "reset_cleared" /\ stage' = "collecting" /\ leaseHeld' = TRUE /\ forbidden' = FALSE
        /\ UNCHANGED <<homeFrames, receipt, episode>>
    BY DEF BeginCollection, home, outcome, outside
  <1>2. Kinds'
    BY <1>1 DEF ControlInvariant, Kinds, Stages
  <1>3. Lease'
    BY <1>1 DEF ControlInvariant, Lease, Idle, Away, Returning, Back, Written
  <1>4. Fate'
    BY <1>1 DEF ControlInvariant, Fate, Failed, Written
  <1> QED BY <1>2, <1>3, <1>4 DEF ControlInvariant

LEMMA TakeKeeps ==
  ASSUME ControlInvariant, NEW frame \in FrameType, NEW gains \in BOOLEAN, NEW t \in Times,
         TakeCollectFrame(frame, gains, t)
  PROVE  ControlInvariant'
  <1>1. stage = "collecting" /\ UNCHANGED <<homeFrames, receipt, episode>>
    BY DEF TakeCollectFrame, home, outcome, outside
  <1>2. \/ UNCHANGED <<stage, leaseHeld, forbidden>>
        \/ stage' = "verified_pending" /\ UNCHANGED <<leaseHeld, forbidden>>
        \/ RequireReturn
    BY DEF TakeCollectFrame, control
  <1>3. CASE RequireReturn
    BY <1>1, <1>3, RequireReturnKeeps DEF Away
  <1>4. CASE UNCHANGED <<leaseHeld, forbidden>> /\ stage' \in {stage, "verified_pending"}
    BY <1>1, <1>4, GoesOnKeeps
  <1> QED BY <1>2, <1>3, <1>4

LEMMA MarkKeeps ==
  ASSUME ControlInvariant, NEW named \in BOOLEAN, NEW t \in Times, MarkReturningHome(t, named)
  PROVE  ControlInvariant'
  <1>1. /\ stage \in {"verified_pending", "return_home_required_no_commit"}
        /\ forbidden' \in BOOLEAN
        /\ stage' = IF forbidden' THEN "returning_home_no_commit" ELSE "returning_home"
        /\ UNCHANGED <<homeFrames, receipt, leaseHeld, episode>>
    BY DEF MarkReturningHome, outcome, outside
  <1>2. Kinds'
    BY <1>1 DEF ControlInvariant, Kinds, Stages, Returning
  <1>3. Lease'
    BY <1>1, NoFrame, Limits DEF ControlInvariant, Lease, Idle, Away, Returning, Back, Written
  <1>4. Fate'
    BY <1>1 DEF ControlInvariant, Fate, Failed, Written
  <1> QED BY <1>2, <1>3, <1>4 DEF ControlInvariant

LEMMA CountKeeps ==
  ASSUME ControlInvariant, NEW id \in FrameIds, NEW t \in Times, CountHomeFrame(id, t)
  PROVE  ControlInvariant'
  <1> PICK frame : frame = [id |-> id, at |-> t]
    OBVIOUS
  <1>1. /\ stage \in Returning /\ homeFrames' = Append(homeFrames, frame)
        /\ forbidden' = (forbidden \/ Expired(t))
        /\ leaseHeld' = (Len(homeFrames') < HomeFrames)
        /\ stage' = IF leaseHeld' THEN stage
                    ELSE IF forbidden' THEN "home_verified_failed_safe_hold" ELSE "home_barrier_passed"
        /\ UNCHANGED <<receipt, episode>>
    BY DEF CountHomeFrame, outcome, outside
  <1>2. frame \in HomeFrame
    BY Limits DEF HomeFrame
  <1>3. homeFrames' \in Seq(HomeFrame) /\ Len(homeFrames') = Len(homeFrames) + 1 /\ Len(homeFrames) \in Nat
    BY <1>1, <1>2, OneMoreFrame DEF ControlInvariant, Kinds
  <1>4. \/ Len(homeFrames') < HomeFrames /\ leaseHeld' = TRUE
        \/ Len(homeFrames') = HomeFrames /\ leaseHeld' = FALSE
    <2>1. Len(homeFrames) < HomeFrames
      BY <1>1 DEF ControlInvariant, Lease
    <2>2. CASE Len(homeFrames') < HomeFrames
      BY <1>1, <2>2, Zenon
    <2>3. CASE ~(Len(homeFrames') < HomeFrames)
      <3>1. leaseHeld' = FALSE
        <4>1. Len(homeFrames') \in Nat
          BY <1>3
        <4> QED BY <1>1, <2>3, <4>1, Limits, Falsehood, Zenon
      <3>2. Len(homeFrames') = HomeFrames
        BY <1>3, <2>1, <2>3, Limits
      <3> QED BY <3>1, <3>2
    <2> QED BY <2>2, <2>3
  <1>5. forbidden' = TRUE \/ (forbidden' = FALSE /\ forbidden = FALSE)
    BY <1>1, Zenon DEF ControlInvariant, Kinds
  <1>6. stage = "returning_home" \/ (stage = "returning_home_no_commit" /\ forbidden' = TRUE)
    BY <1>1, <1>5 DEF ControlInvariant, Fate, Failed, Returning
  <1>7. CASE leaseHeld' = TRUE /\ Len(homeFrames') < HomeFrames
    <2>1. stage' = stage
      BY <1>1, <1>7
    <2>2. Kinds'
      BY <1>1, <1>3, <1>5, <1>7, <2>1 DEF ControlInvariant, Kinds
    <2>3. Lease'
      BY <1>7, <1>6, <2>1 DEF ControlInvariant, Lease, Idle, Away, Returning, Back, Written
    <2>4. Fate'
      BY <1>1, <1>6, <2>1 DEF ControlInvariant, Fate, Failed
    <2> QED BY <2>2, <2>3, <2>4 DEF ControlInvariant
  <1>8. CASE leaseHeld' = FALSE /\ Len(homeFrames') = HomeFrames
    <2>1. stage' = IF forbidden' THEN "home_verified_failed_safe_hold" ELSE "home_barrier_passed"
      BY <1>1, <1>8
    <2>2. Kinds'
      BY <1>1, <1>3, <1>5, <1>8, <2>1 DEF ControlInvariant, Kinds, Stages
    <2>3. Lease'
      BY <1>5, <1>8, <2>1 DEF Lease, Idle, Away, Returning, Back, Written
    <2>4. Fate'
      BY <1>1, <1>5, <1>6, <2>1 DEF ControlInvariant, Fate, Failed, Returning, Written
    <2> QED BY <2>2, <2>3, <2>4 DEF ControlInvariant
  <1> QED BY <1>4, <1>7, <1>8

LEMMA RecheckKeeps ==
  ASSUME ControlInvariant, NEW evidence \in RecheckType, NEW problem \in Problems, NEW t \in Times,
         RecheckSource(evidence, problem, t)
  PROVE  ControlInvariant'
  <1>1. stage = "home_barrier_passed" /\ UNCHANGED <<homeFrames, receipt, episode>>
    BY DEF RecheckSource, home, outside
  <1>2. receipt.kind # "commit"
    BY <1>1 DEF ControlInvariant, Fate, Written, NoReceipt, None
  <1>3. \/ FailedHold
        \/ stage' = "source_recheck_passed" /\ UNCHANGED <<leaseHeld, forbidden>>
    BY DEF RecheckSource
  <1>4. CASE FailedHold
    BY <1>1, <1>2, <1>4, FailedHoldKeeps
  <1>5. CASE stage' = "source_recheck_passed" /\ UNCHANGED <<leaseHeld, forbidden>>
    BY <1>1, <1>5, GoesOnKeeps
  <1> QED BY <1>3, <1>4, <1>5

LEMMA CommitKeeps ==
  ASSUME ControlInvariant, NEW t \in Times, NEW safety \in SafetyContexts, Commit(t, safety)
  PROVE  ControlInvariant'
  <1> PICK done : done = Preview(memory, decision, safety, t)
    OBVIOUS
  <1>1. /\ stage = "source_recheck_passed" /\ UNCHANGED <<homeFrames, episode>>
        /\ receipt'.kind = IF done.accepted THEN "commit" ELSE "no_commit"
        /\ IF done.accepted THEN stage' = "committed" /\ UNCHANGED <<leaseHeld, forbidden>>
           ELSE FailedHold
    BY DEF Commit, home, outside
  <1>2. CASE ~done.accepted
    BY <1>1, <1>2, FailedHoldKeeps
  <1>3. CASE done.accepted
    <2>1. Kinds'
      BY <1>1, <1>3 DEF ControlInvariant, Kinds, Stages
    <2>2. Lease'
      BY <1>1, <1>3 DEF ControlInvariant, Lease, Idle, Away, Returning, Back, Written
    <2>3. Fate'
      BY <1>1, <1>3 DEF ControlInvariant, Fate, Failed, Written
    <2> QED BY <2>1, <2>2, <2>3 DEF ControlInvariant
  <1> QED BY <1>2, <1>3

\* After the commit: a second commit, or the shadow generation, valid or not.
LEMMA AfterCommitKeeps ==
  ASSUME ControlInvariant, CommitAgain(now) \/ \E valid \in BOOLEAN : CreateShadowActionGeneration(valid)
  PROVE  ControlInvariant'
  <1>1. /\ stage = "committed" /\ UNCHANGED <<homeFrames, receipt, leaseHeld, episode>>
        /\ \/ stage' = stage /\ forbidden' = forbidden
           \/ stage' = "shadow_replan_failed_safe_hold" /\ forbidden' = TRUE
    BY DEF CommitAgain, CreateShadowActionGeneration, home, outcome, outside, control
  <1>2. Kinds'
    BY <1>1 DEF ControlInvariant, Kinds, Stages
  <1>3. Lease'
    BY <1>1 DEF ControlInvariant, Lease, Idle, Away, Returning, Back, Written
  <1>4. Fate'
    BY <1>1 DEF ControlInvariant, Fate, Failed, Written
  <1> QED BY <1>2, <1>3, <1>4 DEF ControlInvariant

LEMMA ResetKeeps == ASSUME ControlInvariant, ResetEpisode PROVE ControlInvariant'
  <1>1. /\ stage' = "reset_cleared" /\ leaseHeld' = FALSE /\ forbidden' = FALSE /\ homeFrames' = <<>>
        /\ receipt' = NoReceipt /\ episode' = episode + 1
    BY DEF ResetEpisode, Cleared
  <1>2. Kinds'
    <2>1. homeFrames' \in Seq(HomeFrame)
      BY <1>1, NoFrame
    <2>2. stage' # "empty" /\ stage' \in Stages
      BY <1>1 DEF Stages
    <2>3. episode' \in Nat
      BY <1>1 DEF ControlInvariant, Kinds
    <2>4. leaseHeld' \in BOOLEAN /\ forbidden' \in BOOLEAN
      BY <1>1
    <2> QED BY <2>1, <2>2, <2>3, <2>4 DEF Kinds
  <1>3. Lease'
    BY <1>1 DEF Lease, Idle, Away, Returning, Back, Written
  <1>4. Fate'
    BY <1>1 DEF Fate, Failed, Written, NoReceipt, None
  <1> QED BY <1>2, <1>3, <1>4 DEF ControlInvariant

\* Everything a call may be, for the proofs by cases that follow.
LEMMA NextIs ==
  ASSUME [Next]_activeMemoryVars
  PROVE  \/ UNCHANGED activeMemoryVars
         \/ ResetEpisode
         \/ DeferCandidate
         \/ \E valid \in BOOLEAN : CreateShadowActionGeneration(valid)
         \/ \E t \in Times : Orchestrator(t) \/ World(t)
  BY DEF Next, Call, Untimed

LEMMA ControlInit == Init => ControlInvariant
  <1> SUFFICES ASSUME Init PROVE ControlInvariant
    OBVIOUS
  <1>1. Kinds
    BY NoFrame DEF Init, Kinds, Stages
  <1>2. Lease /\ Fate
    BY DEF Init, Lease, Fate, Failed, Idle, Away, Returning, Back, Written, NoReceipt, None
  <1> QED BY <1>1, <1>2 DEF ControlInvariant

LEMMA ControlStep == ASSUME ControlInvariant, [Next]_activeMemoryVars PROVE ControlInvariant'
  <1>1. ASSUME NEW t \in Times, Orchestrator(t) PROVE ControlInvariant'
    <2>1. ASSUME NEW frame \in FrameType, NEW safety \in SafetyContexts, RefuseCollectFrame(frame, safety, t)
          PROVE  ControlInvariant'
      BY <2>1, RequireReturnKeeps DEF RefuseCollectFrame, home, outcome, outside, Away
    <2>2. ASSUME NEW id \in FrameIds, NEW valid \in BOOLEAN, NEW problem \in Problems,
                 RefuseHomeFrame(id, valid, t, problem)
          PROVE  ControlInvariant'
      BY <2>2, RequireReturnKeeps DEF RefuseHomeFrame, home, outcome, outside
    <2>3. ASSUME NEW named \in BOOLEAN, RefuseCommit(named, t) PROVE ControlInvariant'
      <3>1. stage = "source_recheck_passed" /\ FailedHold /\ UNCHANGED <<homeFrames, receipt, episode>>
        BY <2>3 DEF RefuseCommit, home, outcome, outside
      <3>2. receipt.kind # "commit"
        BY <3>1 DEF ControlInvariant, Fate, Written, NoReceipt, None
      <3> QED BY <3>1, <3>2, FailedHoldKeeps
    <2>4. CASE CommitAgain(t)
      <3>1. CommitAgain(now)
        BY <2>4 DEF CommitAgain
      <3> QED BY <3>1, AfterCommitKeeps
    <2> QED BY <1>1, <2>1, <2>2, <2>3, <2>4, BeginKeeps, TakeKeeps, MarkKeeps, CountKeeps, RecheckKeeps,
               CommitKeeps DEF Orchestrator
  <1>2. CASE DeferCandidate
    BY <1>2, RequireReturnKeeps DEF DeferCandidate, home, outcome, outside, Away
  <1>3. ASSUME NEW t \in Times, World(t) PROVE ControlInvariant'
    BY <1>3, GoesOnKeeps DEF World, UpdateElsewhere, InvalidateElsewhere, home, outcome, control, outside
  <1>4. CASE UNCHANGED activeMemoryVars
    BY <1>4, GoesOnKeeps DEF activeMemoryVars, home, outcome, control, outside
  <1> QED BY <1>1, <1>2, <1>3, <1>4, ResetKeeps, AfterCommitKeeps, NextIs

\* The stage of the look determines the lease, the barrier and the fate of the write.
THEOREM ControlSafe == Spec => []ControlInvariant
  BY ControlInit, ControlStep, PTL DEF Spec

\* The camera is released exactly when home is proved, whichever failure ends the look.
THEOREM LeaseEndsAtHome == Spec => []LeaseUntilHome
  <1>1. ControlInvariant => LeaseUntilHome
    BY NoFrame, Limits DEF ControlInvariant, Kinds, Lease, LeaseUntilHome, Stages, Idle, Away, Returning, Back, Written
  <1> QED BY <1>1, ControlSafe, PTL

-----------------------------------------------------------------------------
(* The abstract transaction *)

Camera  == IF stage \in {"empty", "reset_cleared"} THEN "home" ELSE IF leaseHeld THEN "out" ELSE "back"
Verdict == IF forbidden THEN "forbidden" ELSE "open"
Wrote   == receipt.kind = "commit"

Promise == Look!Step \/ UNCHANGED <<Camera, Verdict, Wrote>>

LEMMA Stands ==
  ASSUME ControlInvariant
  PROVE  /\ stage \in Idle => Camera = "home" /\ Verdict = "open"
         /\ stage \in Away \cup Returning => Camera = "out" /\ Wrote = FALSE
         /\ stage \in Back => Camera = "back"
         /\ forbidden = TRUE => Verdict = "forbidden"
         /\ forbidden = FALSE => Verdict = "open"
         /\ Verdict \in {"open", "forbidden"} /\ Wrote \in BOOLEAN /\ (Wrote <=> stage \in Written)
  BY DEF ControlInvariant, Kinds, Lease, Fate, Camera, Verdict, Wrote, Idle, Away, Returning, Back, Failed, Written

\* A failure is found, and the camera stays where it is.
LEMMA ForbidsInPlace ==
  ASSUME Camera \in {"out", "back"}, Camera' = Camera, Verdict' = "forbidden", Wrote' = Wrote PROVE Promise
  BY DEF Promise, Look!Step, Look!Forbid, Camera, Verdict, Wrote

LEMMA RequireReturnPromises ==
  ASSUME ControlInvariant, stage \in Away \cup Returning, RequireReturn, receipt' = receipt PROVE Promise
  <1>1. forbidden' = TRUE /\ leaseHeld' = leaseHeld /\ stage' \in Away \cup Returning
    BY DEF RequireReturn, Away, Returning
  <1>2. Camera = "out" /\ leaseHeld = TRUE
    BY Stands DEF ControlInvariant, Lease, Away, Returning
  <1>3. Camera' = "out" /\ Verdict' = "forbidden" /\ Wrote' = Wrote
    BY <1>1, <1>2 DEF Camera, Verdict, Wrote, Away, Returning
  <1> QED BY <1>2, <1>3, ForbidsInPlace

LEMMA FailedHoldPromises ==
  ASSUME ControlInvariant, stage \in {"home_barrier_passed", "source_recheck_passed"}, FailedHold,
         receipt'.kind # "commit"
  PROVE  Promise
  <1>1. forbidden' = TRUE /\ leaseHeld' = FALSE /\ stage' = "home_verified_failed_safe_hold"
    BY DEF FailedHold
  <1>2. Camera = "back" /\ Wrote = FALSE
    BY Stands DEF Back, Written
  <1>3. Camera' = "back" /\ Verdict' = "forbidden" /\ Wrote' = FALSE
    BY <1>1 DEF Camera, Verdict, Wrote
  <1> QED BY <1>2, <1>3, ForbidsInPlace

LEMMA BeginPromises == ASSUME ControlInvariant, NEW t \in Times, BeginCollection(t) PROVE Promise
  <1>1. /\ stage = "reset_cleared" /\ stage' = "collecting" /\ leaseHeld' = TRUE /\ forbidden' = FALSE
        /\ receipt' = receipt
    BY DEF BeginCollection, outcome
  <1>2. Camera = "home" /\ Verdict = "open"
    BY <1>1, Stands DEF Idle
  <1>3. Camera' = "out" /\ Verdict' = "open" /\ Wrote' = Wrote
    BY <1>1 DEF Camera, Verdict, Wrote
  <1> QED BY <1>2, <1>3 DEF Promise, Look!Step, Look!Look, Camera, Verdict, Wrote

LEMMA MarkPromises ==
  ASSUME ControlInvariant, NEW named \in BOOLEAN, NEW t \in Times, MarkReturningHome(t, named) PROVE Promise
  <1>1. /\ stage \in Away /\ stage' \in Returning /\ UNCHANGED <<leaseHeld, receipt>>
        /\ forbidden' = (forbidden \/ ~named \/ t < LastCollect \/ Expired(t))
    BY DEF MarkReturningHome, outcome, Away, Returning
  <1>2. Camera = "out" /\ Camera' = "out" /\ Wrote' = Wrote
    BY <1>1, Stands DEF ControlInvariant, Lease, Camera, Wrote, Away, Returning
  <1>3. forbidden' = TRUE \/ (forbidden' = FALSE /\ forbidden = FALSE)
    BY <1>1, Zenon DEF ControlInvariant, Kinds
  <1>4. CASE forbidden' = TRUE
    BY <1>2, <1>4, ForbidsInPlace DEF Verdict
  <1>5. CASE forbidden' = FALSE /\ forbidden = FALSE
    BY <1>2, <1>5 DEF Promise, Verdict
  <1> QED BY <1>3, <1>4, <1>5

LEMMA CountPromises ==
  ASSUME ControlInvariant, ControlInvariant', NEW id \in FrameIds, NEW t \in Times, CountHomeFrame(id, t)
  PROVE  Promise
  <1>1. /\ stage \in Returning /\ receipt' = receipt
        /\ forbidden' = (forbidden \/ Expired(t))
        /\ stage' = IF leaseHeld' THEN stage
                    ELSE IF forbidden' THEN "home_verified_failed_safe_hold" ELSE "home_barrier_passed"
    BY DEF CountHomeFrame, outcome
  <1>2. leaseHeld' \in BOOLEAN
    BY DEF ControlInvariant, Kinds
  <1>3. Camera = "out" /\ Wrote' = Wrote
    BY <1>1, Stands DEF Wrote
  <1>4. forbidden' = TRUE \/ (forbidden' = FALSE /\ forbidden = FALSE)
    BY <1>1, Zenon DEF ControlInvariant, Kinds
  <1>5. Verdict' = "forbidden" \/ Verdict' = Verdict
    BY <1>4 DEF Verdict
  <1>6. CASE leaseHeld' = TRUE
    <2>1. stage' = stage
      BY <1>1, <1>6
    <2>2. Camera' = "out"
      BY <1>1, <1>6, <2>1 DEF Camera, Returning
    <2> QED BY <1>3, <1>5, <2>2, ForbidsInPlace DEF Promise
  <1>7. CASE leaseHeld' = FALSE
    <2>1. stage' \in {"home_verified_failed_safe_hold", "home_barrier_passed"}
      BY <1>1, <1>7
    <2>2. Camera' = "back"
      BY <1>7, <2>1 DEF Camera
    <2> QED BY <1>3, <1>5, <2>2 DEF Promise, Look!Step, Look!Return, Camera, Verdict, Wrote
  <1> QED BY <1>2, <1>6, <1>7

LEMMA CommitPromises ==
  ASSUME ControlInvariant, NEW t \in Times, NEW safety \in SafetyContexts, Commit(t, safety) PROVE Promise
  <1> PICK done : done = Preview(memory, decision, safety, t)
    OBVIOUS
  <1>1. /\ stage = "source_recheck_passed"
        /\ receipt'.kind = IF done.accepted THEN "commit" ELSE "no_commit"
        /\ IF done.accepted THEN stage' = "committed" /\ UNCHANGED <<leaseHeld, forbidden>>
           ELSE FailedHold
    BY DEF Commit
  <1>2. CASE ~done.accepted
    BY <1>1, <1>2, FailedHoldPromises
  <1>3. CASE done.accepted
    <2>1. Camera = "back" /\ Wrote = FALSE /\ Verdict = "open"
      BY <1>1, Stands DEF Back, Written, ControlInvariant, Kinds, Fate, Failed
    <2>2. Camera' = "back" /\ Verdict' = "open" /\ Wrote' = TRUE
      BY <1>1, <1>3, <2>1 DEF Camera, Verdict, Wrote
    <2> QED BY <2>1, <2>2 DEF Promise, Look!Step, Look!Write, Camera, Verdict, Wrote
  <1> QED BY <1>2, <1>3

LEMMA AfterCommitPromises ==
  ASSUME ControlInvariant, CommitAgain(now) \/ \E valid \in BOOLEAN : CreateShadowActionGeneration(valid)
  PROVE  Promise
  <1>1. /\ stage = "committed" /\ UNCHANGED <<receipt, leaseHeld>>
        /\ \/ stage' = stage /\ forbidden' = forbidden
           \/ stage' = "shadow_replan_failed_safe_hold" /\ forbidden' = TRUE
    BY DEF CommitAgain, CreateShadowActionGeneration, outcome, control
  <1>2. Camera = "back" /\ Camera' = "back" /\ Wrote' = Wrote
    BY <1>1, Stands DEF Back, Written, Camera, Wrote
  <1>3. Verdict' = Verdict \/ Verdict' = "forbidden"
    BY <1>1 DEF Verdict
  <1> QED BY <1>2, <1>3, ForbidsInPlace DEF Promise

LEMMA ResetPromises == ASSUME ResetEpisode PROVE Promise
  <1>1. stage' = "reset_cleared" /\ forbidden' = FALSE /\ receipt' = NoReceipt
    BY DEF ResetEpisode, Cleared
  <1>2. Camera' = "home" /\ Verdict' = "open" /\ Wrote' = FALSE
    BY <1>1 DEF Camera, Verdict, Wrote, NoReceipt, None
  <1> QED BY <1>2 DEF Promise, Look!Step, Look!NewEpisode, Camera, Verdict, Wrote

LEMMA StaysPromises == ASSUME UNCHANGED <<stage, leaseHeld, forbidden, receipt>> PROVE Promise
  BY DEF Promise, Camera, Verdict, Wrote

LEMMA StepPromises ==
  ASSUME ControlInvariant, ControlInvariant', [Next]_activeMemoryVars PROVE Promise
  <1>1. ASSUME NEW t \in Times, Orchestrator(t) PROVE Promise
    <2>1. ASSUME NEW frame \in FrameType, NEW safety \in SafetyContexts, RefuseCollectFrame(frame, safety, t)
          PROVE  Promise
      BY <2>1, RequireReturnPromises DEF RefuseCollectFrame, outcome, Away
    <2>2. ASSUME NEW id \in FrameIds, NEW valid \in BOOLEAN, NEW problem \in Problems,
                 RefuseHomeFrame(id, valid, t, problem)
          PROVE  Promise
      BY <2>2, RequireReturnPromises DEF RefuseHomeFrame, outcome
    <2>3. ASSUME NEW named \in BOOLEAN, RefuseCommit(named, t) PROVE Promise
      <3>1. stage = "source_recheck_passed" /\ FailedHold /\ receipt' = receipt
        BY <2>3 DEF RefuseCommit, outcome
      <3>2. receipt.kind # "commit"
        BY <3>1 DEF ControlInvariant, Fate, Written, NoReceipt, None
      <3> QED BY <3>1, <3>2, FailedHoldPromises
    <2>4. CASE CommitAgain(t)
      <3>1. CommitAgain(now)
        BY <2>4 DEF CommitAgain
      <3> QED BY <3>1, AfterCommitPromises
    <2>5. ASSUME NEW frame \in FrameType, NEW gains \in BOOLEAN, TakeCollectFrame(frame, gains, t)
          PROVE  Promise
      <3>1. /\ stage = "collecting" /\ receipt' = receipt
            /\ \/ UNCHANGED <<stage, leaseHeld, forbidden>>
               \/ stage' = "verified_pending" /\ UNCHANGED <<leaseHeld, forbidden>>
               \/ RequireReturn
        BY <2>5 DEF TakeCollectFrame, control, outcome
      <3>2. CASE RequireReturn
        BY <3>1, <3>2, RequireReturnPromises DEF Away
      <3>3. CASE UNCHANGED <<leaseHeld, forbidden>> /\ stage' \in {stage, "verified_pending"}
        BY <3>1, <3>3 DEF Promise, Camera, Verdict, Wrote
      <3> QED BY <3>1, <3>2, <3>3
    <2>6. ASSUME NEW evidence \in RecheckType, NEW problem \in Problems, RecheckSource(evidence, problem, t)
          PROVE  Promise
      <3>1. /\ stage = "home_barrier_passed" /\ receipt' = receipt
            /\ \/ FailedHold
               \/ stage' = "source_recheck_passed" /\ UNCHANGED <<leaseHeld, forbidden>>
        BY <2>6 DEF RecheckSource
      <3>2. receipt.kind # "commit"
        BY <3>1 DEF ControlInvariant, Fate, Written, NoReceipt, None
      <3>3. CASE FailedHold
        BY <3>1, <3>2, <3>3, FailedHoldPromises
      <3>4. CASE stage' = "source_recheck_passed" /\ UNCHANGED <<leaseHeld, forbidden>>
        BY <3>1, <3>4 DEF Promise, Camera, Verdict, Wrote
      <3> QED BY <3>1, <3>3, <3>4
    <2> QED BY <1>1, <2>1, <2>2, <2>3, <2>4, <2>5, <2>6, BeginPromises, MarkPromises, CountPromises,
               CommitPromises DEF Orchestrator
  <1>2. CASE DeferCandidate
    BY <1>2, RequireReturnPromises DEF DeferCandidate, outcome, Away
  <1>3. ASSUME NEW t \in Times, World(t) PROVE Promise
    BY <1>3, StaysPromises DEF World, UpdateElsewhere, InvalidateElsewhere, outcome, control
  <1>4. CASE UNCHANGED activeMemoryVars
    BY <1>4, StaysPromises DEF activeMemoryVars, outcome, control
  <1> QED BY <1>1, <1>2, <1>3, <1>4, ResetPromises, AfterCommitPromises, NextIs

\* The orchestrator carries out the abstract transaction: the camera comes back whatever fails,
\* a failure is never taken back, and the write follows the return and only if nothing failed.
THEOREM OrchestratorRefines == Spec => CarriesOutTransaction
  <1>1. Init => Look!Start
    BY DEF Init, Look!Start, NoReceipt, None
  <1>2. ControlInvariant /\ ControlInvariant' /\ [Next]_activeMemoryVars => Promise
    BY StepPromises
  <1>3. Promise => [Look!Step]_Look!transactionVars
    BY DEF Promise, Look!transactionVars, Camera, Verdict, Wrote
  <1> QED BY <1>1, <1>2, <1>3, ControlSafe, PTL DEF Spec, CarriesOutTransaction, Look!Transaction

-----------------------------------------------------------------------------
(* The object memory *)

Fields == {"mode", "position", "variance", "observedAt", "stateAt", "observable", "accepted", "reasons"}

\* An object state, as far as the account of its updates goes.
IsState(state) == DOMAIN state = Fields /\ state.accepted \in Nat

Account == IsState(memory) /\ others \in Nat /\ WrittenOnce

LEMMA ForgottenIs == ASSUME NEW t PROVE IsState(Forgotten(t)) /\ Forgotten(t).accepted = 0
  BY DEF IsState, Forgotten, Fields

LEMMA RetainedIs ==
  ASSUME NEW state, IsState(state), NEW t, NEW observable, NEW forced
  PROVE  /\ IsState(Retained(state, t, observable, forced))
         /\ Retained(state, t, observable, forced).accepted = state.accepted
  BY DEF IsState, Retained, Fields

LEMMA RetainedPlace ==
  ASSUME NEW state, IsState(state), NEW t, NEW observable, NEW forced
  PROVE  Retained(state, t, observable, forced).position = state.position
  BY DEF IsState, Retained, Fields

LEMMA ForcedRetained ==
  ASSUME NEW state, IsState(state), NEW t, NEW observable, NEW forced,
         forced # {}, "memory_uninitialized" \notin forced
  PROVE  Retained(state, t, observable, forced).mode = "invalid"
  BY DEF IsState, Retained, Fields

LEMMA InvalidatedIs ==
  ASSUME NEW state, IsState(state), NEW t, NEW reasons
  PROVE  /\ IsState(Invalidated(state, t, reasons))
         /\ Invalidated(state, t, reasons).accepted = state.accepted
  BY DEF IsState, Invalidated, Fields

LEMMA AcceptedIs ==
  ASSUME NEW state, IsState(state), NEW d, NEW t, NEW observable
  PROVE  /\ IsState(Accepted(state, d, t, observable))
         /\ Accepted(state, d, t, observable).accepted = state.accepted + 1
  BY DEF IsState, Accepted, Fields

\* What a call says it did is what the count shows.
Counts(state, done) ==
  /\ IsState(done.state) /\ done.accepted \in BOOLEAN
  /\ done.accepted = TRUE  => done.state.accepted = state.accepted + 1
  /\ done.accepted = FALSE => done.state.accepted = state.accepted

LEMMA RetainedCounts ==
  ASSUME NEW state, IsState(state), NEW t, NEW observable, NEW forced, NEW reasons
  PROVE  Counts(state, Result(Retained(state, t, observable, forced), FALSE, reasons))
  BY RetainedIs DEF Counts, Result

LEMMA AcceptedCounts ==
  ASSUME NEW state, IsState(state), NEW d, NEW t, NEW observable
  PROVE  Counts(state, Result(Accepted(state, d, t, observable), TRUE, {}))
  BY AcceptedIs DEF Counts, Result

LEMMA UpdatedCounts ==
  ASSUME NEW state, IsState(state), NEW d, NEW safety PROVE Counts(state, Updated(state, d, safety))
  BY RetainedCounts, AcceptedCounts, Zenon DEF Updated

LEMMA PreviewCounts ==
  ASSUME NEW state, IsState(state), NEW d, NEW safety, NEW t PROVE Counts(state, Preview(state, d, safety, t))
  BY RetainedCounts, AcceptedCounts, Zenon DEF Preview

LEMMA InvalidateCounts ==
  ASSUME Account, NEW reasons, NEW t, InvalidateMemory(reasons, t), others' = others,
         receipt'.kind = "commit" <=> receipt.kind = "commit"
  PROVE  Account'
  <1> PICK after : after = Invalidated(memory, t, reasons)
    OBVIOUS
  <1>1. memory' = memory \/ memory' = after
    BY DEF InvalidateMemory
  <1>2. IsState(memory) /\ IsState(after) /\ after.accepted = memory.accepted
    BY InvalidatedIs DEF Account
  <1> QED BY <1>1, <1>2 DEF Account, WrittenOnce, IsState

LEMMA SameAccount ==
  ASSUME Account, UNCHANGED <<memory, others>>, receipt'.kind = "commit" <=> receipt.kind = "commit"
  PROVE  Account'
  BY DEF Account, WrittenOnce, IsState

LEMMA CommitCounts ==
  ASSUME ControlInvariant, Account, NEW t \in Times, NEW safety \in SafetyContexts, Commit(t, safety)
  PROVE  Account'
  <1> PICK done : done = Preview(memory, decision, safety, t)
    OBVIOUS
  <1>1. /\ stage = "source_recheck_passed" /\ others' = others
        /\ receipt'.kind = IF done.accepted THEN "commit" ELSE "no_commit"
        /\ memory' = IF done.accepted \/ Applies(safety, done.state) THEN done.state ELSE memory
    BY DEF Commit, outside
  <1>2. receipt.kind # "commit"
    BY <1>1 DEF ControlInvariant, Fate, Written, NoReceipt, None
  <1>3. IsState(memory) /\ Counts(memory, done)
    BY PreviewCounts DEF Account
  <1>4. CASE done.accepted = TRUE
    BY <1>1, <1>2, <1>3, <1>4 DEF Account, WrittenOnce, IsState, Counts
  <1>5. CASE done.accepted = FALSE
    <2>1. receipt'.kind = "no_commit" /\ (memory' = done.state \/ memory' = memory)
      BY <1>1, <1>5
    <2> QED BY <1>1, <1>2, <1>3, <1>5, <2>1 DEF Account, WrittenOnce, IsState, Counts
  <1> QED BY <1>3, <1>4, <1>5 DEF Counts

LEMMA UpdateCounts ==
  ASSUME Account, NEW image \in Images, NEW t \in Times, UpdateElsewhere(image, t) PROVE Account'
  <1> PICK done : done = Updated(memory, Decision(Measured(image, t), <<>>, {}), {})
    OBVIOUS
  <1>1. /\ memory' = done.state /\ receipt' = receipt
        /\ others' = IF done.accepted THEN others + 1 ELSE others
    BY DEF UpdateElsewhere, outcome
  <1>2. IsState(memory) /\ Counts(memory, done)
    BY UpdatedCounts DEF Account
  <1>3. CASE done.accepted = TRUE
    BY <1>1, <1>2, <1>3 DEF Account, WrittenOnce, IsState, Counts
  <1>4. CASE done.accepted = FALSE
    BY <1>1, <1>2, <1>4 DEF Account, WrittenOnce, IsState, Counts
  <1> QED BY <1>2, <1>3, <1>4 DEF Counts

LEMMA AccountStep ==
  ASSUME ControlInvariant, Account, [Next]_activeMemoryVars PROVE Account'
  <1>1. ASSUME NEW t \in Times, Orchestrator(t) PROVE Account'
    <2>1. ASSUME NEW frame \in FrameType, NEW safety \in SafetyContexts, RefuseCollectFrame(frame, safety, t)
          PROVE  Account'
      BY <2>1, InvalidateCounts DEF RefuseCollectFrame, outcome, outside
    <2>2. ASSUME NEW id \in FrameIds, NEW valid \in BOOLEAN, NEW problem \in Problems,
                 RefuseHomeFrame(id, valid, t, problem)
          PROVE  Account'
      BY <2>2, InvalidateCounts, SameAccount DEF RefuseHomeFrame, outcome, outside
    <2>3. ASSUME NEW evidence \in RecheckType, NEW problem \in Problems, RecheckSource(evidence, problem, t)
          PROVE  Account'
      BY <2>3, InvalidateCounts, SameAccount DEF RecheckSource, outside
    <2>4. CASE BeginCollection(t)
      BY <2>4, SameAccount DEF BeginCollection, outcome, outside
    <2>5. ASSUME NEW frame \in FrameType, NEW gains \in BOOLEAN, TakeCollectFrame(frame, gains, t)
          PROVE  Account'
      BY <2>5, SameAccount DEF TakeCollectFrame, outcome, outside
    <2>6. ASSUME NEW named \in BOOLEAN, MarkReturningHome(t, named) PROVE Account'
      BY <2>6, SameAccount DEF MarkReturningHome, outcome, outside
    <2>7. ASSUME NEW id \in FrameIds, CountHomeFrame(id, t) PROVE Account'
      BY <2>7, SameAccount DEF CountHomeFrame, outcome, outside
    <2>8. ASSUME NEW named \in BOOLEAN, RefuseCommit(named, t) PROVE Account'
      BY <2>8, SameAccount DEF RefuseCommit, outcome, outside
    <2>9. CASE CommitAgain(t)
      BY <2>9, SameAccount DEF CommitAgain, outcome, outside
    <2> QED BY <1>1, <2>1, <2>2, <2>3, <2>4, <2>5, <2>6, <2>7, <2>8, <2>9, CommitCounts DEF Orchestrator
  <1>2. ASSUME NEW t \in Times, World(t) PROVE Account'
    BY <1>2, UpdateCounts, InvalidateCounts DEF World, InvalidateElsewhere, outcome, outside
  <1>3. CASE DeferCandidate \/ \E valid \in BOOLEAN : CreateShadowActionGeneration(valid)
    BY <1>3, SameAccount DEF DeferCandidate, CreateShadowActionGeneration, outcome, outside
  <1>4. CASE ResetEpisode
    <2>1. memory' = Forgotten(0) /\ others' = 0 /\ receipt' = NoReceipt
      BY <1>4 DEF ResetEpisode, Cleared
    <2> QED BY <2>1, ForgottenIs DEF Account, WrittenOnce, IsState, NoReceipt, None
  <1>5. CASE UNCHANGED activeMemoryVars
    BY <1>5, SameAccount DEF activeMemoryVars, outcome, outside
  <1> QED BY <1>1, <1>2, <1>3, <1>4, <1>5, NextIs

\* Every accepted update of the memory is accounted for, and the look adds one if it is committed.
THEOREM MemoryAccounted == Spec => []WrittenOnce
  <1>1. Init => Account
    BY ForgottenIs DEF Init, Account, WrittenOnce, NoReceipt, None
  <1>2. ControlInvariant /\ Account /\ [Next]_activeMemoryVars => Account'
    BY AccountStep
  <1>3. Account => WrittenOnce
    BY DEF Account
  <1> QED BY <1>1, <1>2, <1>3, ControlSafe, PTL DEF Spec

OnlyInvalidates(state, done) == done.state.mode = "invalid" /\ done.state.position = state.position

\* A preview that is refused for safety leaves what was remembered, invalidated.
LEMMA RefusedPreview ==
  ASSUME NEW state, IsState(state), NEW d, NEW safety \in SafetyContexts, NEW t, safety # {},
         NEW done, done = Preview(state, d, safety, t), ~done.accepted
  PROVE  OnlyInvalidates(state, done)
  <1>1. PICK forced, reasons :
          /\ safety \subseteq forced /\ "memory_uninitialized" \notin forced
          /\ done = Result(Retained(state, t, FALSE, forced), FALSE, reasons)
    <2> DEFINE whole == Forced(state, safety)
               refusals == MemoryReasons(state, d)
                  \cup When(t - d.measurement.at > MaxPending, "pending_candidate_expired")
                  \cup When(t - d.measurement.rgbAt > MaxAge, "memory_stale_at_commit")
                  \cup When(Aged(d.measurement.image.variance, t - d.measurement.rgbAt) > MaxVariance,
                            "memory_uncertain_at_commit")
                  \cup When(Conflict(state, d.measurement), "measurement_conflict")
               all == whole \cup (refusals \cap Provenance)
    <2>1. safety \subseteq whole
      BY DEF Forced
    <2>2. whole \cup refusals # {}
      BY <2>1
    <2>3. done = Result(Retained(state, t, FALSE, all), FALSE, whole \cup refusals)
      BY <2>2, Zenon DEF Preview
    <2>4. "memory_uninitialized" \notin all
      <3>1. "memory_uninitialized" \notin safety
        BY ObjectStateAssumption DEF SafetyReasons
      <3> QED BY <3>1 DEF Forced, Irreversible, Provenance
    <2> HIDE DEF whole, refusals
    <2>5. safety \subseteq all
      BY <2>1
    <2> HIDE DEF all
    <2> QED BY <2>3, <2>4, <2>5
  <1>2. done.state = Retained(state, t, FALSE, forced) /\ forced # {}
    BY <1>1 DEF Result
  <1>3. Retained(state, t, FALSE, forced).mode = "invalid"
    BY <1>1, <1>2, ForcedRetained, Zenon
  <1>4. Retained(state, t, FALSE, forced).position = state.position
    BY RetainedPlace, Zenon
  <1> QED BY <1>2, <1>3, <1>4 DEF OnlyInvalidates

\* The write replaces exactly the state the look began with, and a refused write leaves only an
\* invalidation of it.
THEOREM NobodyOverwritten == Spec => NothingOverwritten
  <1> DEFINE Exact == (receipt' # receipt /\ receipt' # NoReceipt) =>
                        /\ memory = before
                        /\ receipt'.kind = "commit" => memory'.accepted = before.accepted + 1
                        /\ receipt'.kind = "no_commit" /\ memory' # before =>
                             memory'.mode = "invalid" /\ memory'.position = before.position
  <1>1. ASSUME Account, NEW t \in Times, NEW safety \in SafetyContexts, Commit(t, safety) PROVE Exact
    <2> PICK done : done = Preview(memory, decision, safety, t)
      OBVIOUS
    <2>1. /\ memory = before
          /\ receipt'.kind = IF done.accepted THEN "commit" ELSE "no_commit"
          /\ memory' = IF done.accepted \/ Applies(safety, done.state) THEN done.state ELSE memory
      BY <1>1 DEF Commit, Committable
    <2>2. Counts(memory, done) /\ IsState(memory)
      BY <1>1, PreviewCounts DEF Account
    <2>3. CASE done.accepted = TRUE
      BY <2>1, <2>2, <2>3 DEF Counts
    <2>4. CASE done.accepted = FALSE
      <3>1. memory' # before => safety # {} /\ memory' = done.state
        BY <2>1, <2>4 DEF Applies
      <3>2. safety # {} => OnlyInvalidates(memory, done)
        <4>1. ~done.accepted
          BY <2>4
        <4> QED BY <2>2, <4>1, RefusedPreview, Zenon
      <3> QED BY <2>1, <2>4, <3>1, <3>2 DEF OnlyInvalidates
    <2> QED BY <2>2, <2>3, <2>4 DEF Counts
  <1>2. ASSUME NEW t \in Times, Orchestrator(t), ~ \E safety \in SafetyContexts : Commit(t, safety)
        PROVE  receipt' = receipt
    BY <1>2 DEF Orchestrator, BeginCollection, TakeCollectFrame, RefuseCollectFrame, MarkReturningHome,
       RefuseHomeFrame, CountHomeFrame, RecheckSource, RefuseCommit, CommitAgain, outcome
  <1>3. ASSUME NEW t \in Times, World(t) PROVE receipt' = receipt
    BY <1>3 DEF World, UpdateElsewhere, InvalidateElsewhere, outcome
  <1>4. DeferCandidate \/ (\E valid \in BOOLEAN : CreateShadowActionGeneration(valid)) => receipt' = receipt
    BY DEF DeferCandidate, CreateShadowActionGeneration, outcome
  <1>5. ResetEpisode => receipt' = NoReceipt
    BY DEF ResetEpisode, Cleared
  <1>6. Account /\ [Next]_activeMemoryVars => [Exact]_activeMemoryVars
    BY <1>1, <1>2, <1>3, <1>4, <1>5, NextIs
  <1>7. Init => Account
    BY ForgottenIs DEF Init, Account, WrittenOnce, NoReceipt, None
  <1>8. ControlInvariant /\ Account /\ [Next]_activeMemoryVars => Account'
    BY AccountStep
  <1> QED BY <1>6, <1>7, <1>8, ControlSafe, PTL DEF Spec, NothingOverwritten

-----------------------------------------------------------------------------
(* What is committed was seen *)

Frame == [id : FrameIds, image : Images, at : Int, rgbAt : Int]

\* The stages that follow a candidate, as long as nothing failed or it was written.
Full      == {"verified_pending", "returning_home", "home_barrier_passed", "source_recheck_passed"}
             \cup Written
Homeward  == Full \ {"verified_pending"}
Rechecked == {"source_recheck_passed"} \cup Written

Ordered(seq) == \A i, j \in DOMAIN seq : i < j => seq[i].at < seq[j].at /\ seq[i].id # seq[j].id

Tells(m, frame) == m.image = frame.image /\ m.at = frame.at /\ m.rgbAt = frame.rgbAt

Receipt(frame) ==
  /\ recheckedAt <= receipt.at /\ receipt.at - frame.at <= MaxPending
  /\ receipt.state.position = frame.image.position /\ receipt.state.observedAt = frame.rgbAt

Clocks ==
  /\ frames \in Seq(Frame) /\ Ordered(frames) /\ Ordered(homeFrames)
  /\ homeFrames # <<>> => returnedAt <= homeFrames[1].at

Trail ==
  /\ stage \in Full =>
       Len(frames) = MinFrames /\ candidate # None /\ Tells(decision.measurement, Last(frames))
  /\ stage \in Homeward => Last(frames).at <= returnedAt
  /\ stage \in Rechecked => Last(homeFrames).at <= recheckedAt
  /\ stage \in Written => Receipt(Last(frames))

Sight == Clocks /\ Trail

LEMMA EmptyOrdered == Ordered(<<>>)
  BY DEF Ordered

LEMMA UpTo == ASSUME NEW n \in Nat, NEW i \in 1..n PROVE i = n \/ i < n
  OBVIOUS

LEMMA OneMoreOrdered ==
  ASSUME NEW S, \A x \in S : x.at \in Int, NEW seq \in Seq(S), Ordered(seq), NEW x \in S,
         \A i \in DOMAIN seq : seq[i].id # x.id,
         seq # <<>> => seq[Len(seq)].at < x.at
  PROVE  Ordered(Append(seq, x))
  <1>1. Len(seq) \in Nat /\ DOMAIN seq = 1..Len(seq) /\ DOMAIN Append(seq, x) = 1..Len(seq) + 1
    OBVIOUS
  <1>2. \A i \in 1..Len(seq) : Append(seq, x)[i] = seq[i] /\ seq[i] \in S
    OBVIOUS
  <1>3. Append(seq, x)[Len(seq) + 1] = x
    OBVIOUS
  <1>4. \A i \in 1..Len(seq) : seq[i].at < x.at
    <2> SUFFICES ASSUME NEW i \in 1..Len(seq) PROVE seq[i].at < x.at
      OBVIOUS
    <2>1. Len(seq) \in 1..Len(seq) /\ seq # <<>>
      BY <1>1
    <2>2. seq[Len(seq)].at < x.at /\ seq[Len(seq)].at \in Int /\ seq[i].at \in Int /\ x.at \in Int
      BY <1>2, <2>1
    <2>3. i = Len(seq) \/ seq[i].at < seq[Len(seq)].at
      <3>1. i = Len(seq) \/ i < Len(seq)
        BY <1>1, UpTo
      <3>2. i \in DOMAIN seq /\ Len(seq) \in DOMAIN seq
        BY <1>1, <2>1
      <3> QED BY <3>1, <3>2, Zenon DEF Ordered
    <2> QED BY <2>2, <2>3
  <1> SUFFICES ASSUME NEW i \in 1..Len(seq) + 1, NEW j \in 1..Len(seq) + 1, i < j
               PROVE  /\ Append(seq, x)[i].at < Append(seq, x)[j].at
                      /\ Append(seq, x)[i].id # Append(seq, x)[j].id
    BY <1>1 DEF Ordered
  <1>5. i \in 1..Len(seq)
    BY <1>1
  <1>6. CASE j = Len(seq) + 1
    BY <1>1, <1>2, <1>3, <1>4, <1>5, <1>6
  <1>7. CASE j \in 1..Len(seq)
    BY <1>1, <1>2, <1>5, <1>7 DEF Ordered
  <1> QED BY <1>1, <1>6, <1>7

\* Nothing of what was seen changes, and the stage claims nothing new of it.
LEMMA SameTrail ==
  ASSUME Sight, UNCHANGED <<frames, homeFrames, decision, candidate, returnedAt, recheckedAt, receipt>>,
         stage' = stage \/ stage' \notin Full \/ (stage \in Written /\ stage' \in Written)
  PROVE  Sight'
  <1>1. Clocks'
    BY DEF Sight, Clocks, Ordered
  <1>2. Trail'
    BY DEF Sight, Trail, Tells, Receipt, Homeward, Rechecked, Full, Written
  <1> QED BY <1>1, <1>2 DEF Sight

LEMMA TakeSight ==
  ASSUME ControlInvariant, Sight, NEW frame \in FrameType, NEW gains \in BOOLEAN, NEW t \in Times,
         TakeCollectFrame(frame, gains, t)
  PROVE  Sight'
  <1> PICK m : m = Framed(frame, t)
    OBVIOUS
  <1> PICK new : new = Observed(window, Measured(frame.image, t), {})
    OBVIOUS
  <1>1. /\ stage = "collecting" /\ Acceptable(frame, {}, t)
        /\ frames' = Append(frames, m) /\ decision' = new.decision
        /\ UNCHANGED <<homeFrames, returnedAt, recheckedAt, receipt>>
        /\ \/ stage' = stage
           \/ stage' = "verified_pending" /\ candidate' = "eligible" /\ Len(frames') = MinFrames
           \/ stage' = "return_home_required_no_commit"
    BY DEF TakeCollectFrame, home, outcome, control, RequireReturn, Returning
  <1>2. frame.image \in Images /\ frame.id \in FrameIds /\ frame.image.lag \in Nat /\ t \in Int
    BY Limits, ObjectStateAssumption DEF FrameType, ImageType
  <1>3. /\ m \in Frame /\ m.id = frame.id /\ m.at = t
        /\ m.image = frame.image /\ m.rgbAt = t - frame.image.lag
    BY <1>2 DEF Framed, Frame
  <1>4. frames \in Seq(Frame) /\ Ordered(frames)
    BY DEF Sight, Clocks
  <1>5. frames' \in Seq(Frame) /\ Last(frames') = m
    BY <1>1, <1>3, <1>4, OneMoreFrame DEF Last
  <1>6. Ordered(frames')
    <2>1. \A i \in DOMAIN frames : frames[i].id # m.id
      BY <1>1, <1>3 DEF Acceptable
    <2>2. frames # <<>> => frames[Len(frames)].at < m.at
      <3> SUFFICES ASSUME frames # <<>> PROVE frames[Len(frames)].at < m.at
        OBVIOUS
      <3>1. t > frames[Len(frames)].at
        BY <1>1 DEF Acceptable, Last
      <3>2. frames[Len(frames)] \in Frame
        BY <1>4
      <3> QED BY <1>2, <1>3, <3>1, <3>2 DEF Frame
    <2>3. \A x \in Frame : x.at \in Int
      BY DEF Frame
    <2> PICK old : old = frames
      OBVIOUS
    <2>4. Ordered(Append(old, m))
      <3>1. old \in Seq(Frame) /\ Ordered(old) /\ \A i \in DOMAIN old : old[i].id # m.id
        BY <1>4, <2>1
      <3>2. old # <<>> => old[Len(old)].at < m.at
        BY <2>2
      <3> QED BY <1>3, <2>3, <3>1, <3>2, OneMoreOrdered
    <2> QED BY <1>1, <2>4 DEF Ordered
  <1>7. Tells(decision'.measurement, m)
    <2>1. new.decision.measurement = Measured(frame.image, t)
      BY DEF Observed, Decision
    <2> QED BY <1>1, <1>3, <2>1 DEF Measured, Tells
  <1>8. Clocks'
    BY <1>1, <1>5, <1>6 DEF Sight, Clocks, Ordered
  <1>9. Trail'
    <2>1. CASE stage' = "verified_pending" /\ candidate' = "eligible" /\ Len(frames') = MinFrames
      BY <1>5, <1>7, <2>1 DEF Trail, Tells, Full, Homeward, Rechecked, Written, None
    <2>2. CASE stage' \in {"collecting", "return_home_required_no_commit"}
      BY <2>2 DEF Trail, Full, Homeward, Rechecked, Written
    <2> QED BY <1>1, <2>1, <2>2
  <1> QED BY <1>8, <1>9 DEF Sight

LEMMA MarkSight ==
  ASSUME ControlInvariant, Sight, NEW named \in BOOLEAN, NEW t \in Times, MarkReturningHome(t, named)
  PROVE  Sight'
  <1>1. /\ stage \in {"verified_pending", "return_home_required_no_commit"} /\ returnedAt' = t
        /\ UNCHANGED <<frames, homeFrames, decision, candidate, recheckedAt, receipt>>
        /\ forbidden' = (forbidden \/ ~named \/ t < LastCollect \/ Expired(t))
        /\ stage' = IF forbidden' THEN "returning_home_no_commit" ELSE "returning_home"
    BY DEF MarkReturningHome, seen, outcome
  <1>2. homeFrames = <<>>
    BY <1>1 DEF ControlInvariant, Lease, Away
  <1>3. Clocks'
    BY <1>1, <1>2 DEF Sight, Clocks, Ordered
  <1>4. CASE ~forbidden'
    <2>1. stage = "verified_pending" /\ stage' = "returning_home" /\ ~(t < LastCollect)
      BY <1>1, <1>4 DEF ControlInvariant, Fate, Failed
    <2>2. Len(frames) = MinFrames /\ frames \in Seq(Frame)
      BY <2>1 DEF Sight, Clocks, Trail, Full
    <2>3. frames # <<>> /\ Last(frames) \in Frame
      BY <2>2, Limits DEF Last
    <2>4. Last(frames).at <= t
      <3>1. LastCollect = Last(frames).at
        BY <2>3 DEF LastCollect
      <3>2. Last(frames).at \in Int /\ t \in Int
        BY <2>3, Limits DEF Frame
      <3> QED BY <2>1, <3>1, <3>2
    <2> QED BY <1>1, <1>3, <2>1, <2>4 DEF Sight, Trail, Tells, Full, Homeward, Rechecked, Written
  <1>5. CASE forbidden'
    <2>1. stage' = "returning_home_no_commit"
      BY <1>1, <1>5
    <2> QED BY <1>3, <2>1 DEF Sight, Trail, Full, Homeward, Rechecked, Written
  <1> QED BY <1>4, <1>5

LEMMA CountSight ==
  ASSUME ControlInvariant, Sight, NEW id \in FrameIds, NEW t \in Times, CountHomeFrame(id, t)
  PROVE  Sight'
  <1> PICK frame : frame = [id |-> id, at |-> t]
    OBVIOUS
  <1> PICK old : old = homeFrames
    OBVIOUS
  <1>1. /\ stage \in Returning /\ homeFrames' = Append(old, frame) /\ Timely(t) /\ ~Repeats(id)
        /\ forbidden' = (forbidden \/ Expired(t))
        /\ stage' = IF leaseHeld' THEN stage
                    ELSE IF forbidden' THEN "home_verified_failed_safe_hold" ELSE "home_barrier_passed"
        /\ UNCHANGED <<frames, decision, candidate, returnedAt, recheckedAt, receipt>>
    BY DEF CountHomeFrame, seen, outcome
  <1>2. frame \in HomeFrame /\ frame.id = id /\ frame.at = t /\ t \in Int
    BY Limits DEF HomeFrame
  <1>3. old \in Seq(HomeFrame) /\ Ordered(old) /\ (old # <<>> => returnedAt <= old[1].at)
    BY DEF ControlInvariant, Kinds, Sight, Clocks
  <1>4. Ordered(homeFrames')
    <2>1. \A x \in HomeFrame : x.at \in Int
      BY DEF HomeFrame
    <2>2. \A i \in DOMAIN old : old[i].id # frame.id
      BY <1>1, <1>2 DEF Repeats
    <2>3. old # <<>> => old[Len(old)].at < frame.at
      <3> SUFFICES ASSUME old # <<>> PROVE old[Len(old)].at < frame.at
        OBVIOUS
      <3>1. t > old[Len(old)].at /\ old[Len(old)] \in HomeFrame
        BY <1>1, <1>3 DEF Timely, Last
      <3> QED BY <1>2, <3>1, <2>1
    <2>4. Ordered(Append(old, frame))
      BY <1>2, <1>3, <2>1, <2>2, <2>3, OneMoreOrdered
    <2> QED BY <1>1, <2>4 DEF Ordered
  <1>5. returnedAt' <= homeFrames'[1].at
    <2>1. CASE old = <<>>
      <3>1. Append(old, frame)[1] = frame
        BY <2>1
      <3>2. returnedAt <= t
        BY <1>1, <1>2 DEF Timely
      <3> QED BY <1>1, <1>2, <3>1, <3>2
    <2>2. CASE old # <<>>
      <3>1. Append(old, frame)[1] = old[1]
        BY <1>3, <2>2
      <3> QED BY <1>1, <1>3, <2>2, <3>1
    <2> QED BY <2>1, <2>2
  <1>6. Clocks'
    BY <1>1, <1>4, <1>5 DEF Sight, Clocks, Ordered
  <1>7. \/ stage' \in {stage, "home_verified_failed_safe_hold"}
        \/ stage' = "home_barrier_passed" /\ ~forbidden'
    BY <1>1
  <1>8. stage' = "home_barrier_passed" => stage = "returning_home"
    <2> SUFFICES ASSUME stage' = "home_barrier_passed", stage = "returning_home_no_commit" PROVE FALSE
      BY <1>1 DEF Returning
    <2>1. forbidden = TRUE
      BY DEF ControlInvariant, Fate, Failed
    <2>2. ~forbidden'
      BY <1>7
    <2> QED BY <1>1, <2>1, <2>2
  <1>9. Trail'
    BY <1>1, <1>7, <1>8 DEF Sight, Trail, Tells, Full, Homeward, Rechecked, Written, Returning
  <1> QED BY <1>6, <1>9 DEF Sight

LEMMA RecheckSight ==
  ASSUME ControlInvariant, Sight, NEW evidence \in RecheckType, NEW problem \in Problems, NEW t \in Times,
         RecheckSource(evidence, problem, t)
  PROVE  Sight'
  <1>1. /\ stage = "home_barrier_passed"
        /\ UNCHANGED <<frames, homeFrames, decision, candidate, returnedAt, receipt>>
        /\ \/ stage' = "home_verified_failed_safe_hold" /\ recheckedAt' = recheckedAt
           \/ stage' = "source_recheck_passed" /\ recheckedAt' = t /\ t >= Last(homeFrames).at
    BY DEF RecheckSource, seen, home, FailedHold, SourceHolds
  <1>2. CASE stage' = "home_verified_failed_safe_hold" /\ recheckedAt' = recheckedAt
    BY <1>1, <1>2, SameTrail DEF Full, Written
  <1>3. CASE stage' = "source_recheck_passed" /\ recheckedAt' = t /\ t >= Last(homeFrames).at
    <2>1. Clocks'
      BY <1>1 DEF Sight, Clocks, Ordered
    <2>2. Last(homeFrames).at <= t
      <3>1. homeFrames \in Seq(HomeFrame) /\ Len(homeFrames) = HomeFrames
        BY <1>1 DEF ControlInvariant, Kinds, Lease, Back
      <3>2. Last(homeFrames) \in HomeFrame
        BY <3>1, Limits DEF Last
      <3> QED BY <1>3, <3>2, Limits DEF HomeFrame
    <2>3. Trail'
      BY <1>1, <1>3, <2>2 DEF Sight, Trail, Tells, Full, Homeward, Rechecked, Written
    <2> QED BY <2>1, <2>3 DEF Sight
  <1> QED BY <1>1, <1>2, <1>3

\* An accepted preview is of a candidate that is not too old, and leaves what it measured.
LEMMA AcceptedPreview ==
  ASSUME NEW state, NEW d, NEW safety, NEW t, NEW done, done = Preview(state, d, safety, t), done.accepted = TRUE
  PROVE  done.state = Accepted(state, d, t, FALSE)
  BY DEF Preview, Result

LEMMA CommitSight ==
  ASSUME ControlInvariant, Sight, NEW t \in Times, NEW safety \in SafetyContexts, Commit(t, safety)
  PROVE  Sight'
  <1> PICK done : done = Preview(memory, decision, safety, t)
    OBVIOUS
  <1> PICK last : last = Last(frames)
    OBVIOUS
  <1>1. /\ stage = "source_recheck_passed" /\ t >= recheckedAt /\ ~Expired(t)
        /\ UNCHANGED <<frames, homeFrames, decision, candidate, returnedAt, recheckedAt>>
        /\ receipt'.at = t
        /\ done.accepted => receipt'.state = done.state
        /\ IF done.accepted THEN stage' = "committed" ELSE stage' = "home_verified_failed_safe_hold"
    BY DEF Commit, Committable, FailedHold, seen, home
  <1>2. Clocks'
    BY <1>1 DEF Sight, Clocks, Ordered
  <1>3. CASE ~done.accepted
    <2>1. stage' = "home_verified_failed_safe_hold"
      BY <1>1, <1>3
    <2> QED BY <1>2, <2>1 DEF Sight, Trail, Full, Homeward, Rechecked, Written
  <1>4. CASE done.accepted
    <2>1. stage' = "committed" /\ receipt'.state = done.state
      BY <1>1, <1>4
    <2>2. /\ Len(frames) = MinFrames /\ candidate # None /\ Tells(decision.measurement, last)
          /\ last.at <= returnedAt /\ Last(homeFrames).at <= recheckedAt
      BY <1>1 DEF Sight, Trail, Full, Homeward, Rechecked, Written
    <2>3. t - last.at <= MaxPending
      <3>1. ~(t - decision.measurement.at > MaxPending)
        BY <1>1, <2>2 DEF Expired
      <3>2. last \in Frame
        BY <2>2, Limits DEF Sight, Clocks, Last
      <3>3. last.at \in Int /\ t \in Int /\ decision.measurement.at = last.at
        BY <2>2, <3>2, Limits DEF Frame, Tells
      <3> QED BY <3>1, <3>3, Limits
    <2>4. recheckedAt <= t
      BY <1>1
    <2>5. done.state = Accepted(memory, decision, t, FALSE)
      <3>1. done.accepted = TRUE
        BY <1>4 DEF Preview, Result
      <3> QED BY <3>1, AcceptedPreview, Zenon
    <2>6. /\ receipt'.state.position = last.image.position
          /\ receipt'.state.observedAt = last.rgbAt
      BY <2>1, <2>2, <2>5 DEF Accepted, Tells
    <2>7. Last(frames') = last /\ Last(homeFrames') = Last(homeFrames)
      BY <1>1 DEF Last
    <2>8. Receipt(last)'
      BY <1>1, <2>3, <2>4, <2>6 DEF Receipt
    <2>9. Trail'
      BY <1>1, <2>1, <2>2, <2>7, <2>8 DEF Trail, Tells, Receipt, Full, Homeward, Rechecked, Written
    <2> QED BY <1>2, <2>9 DEF Sight
  <1> QED BY <1>3, <1>4

LEMMA SightStep ==
  ASSUME ControlInvariant, Sight, [Next]_activeMemoryVars PROVE Sight'
  <1>1. ASSUME NEW t \in Times, Orchestrator(t) PROVE Sight'
    <2>1. ASSUME NEW frame \in FrameType, NEW safety \in SafetyContexts, RefuseCollectFrame(frame, safety, t)
          PROVE  Sight'
      BY <2>1, SameTrail DEF RefuseCollectFrame, RequireReturn, seen, home, outcome, Full, Written
    <2>2. ASSUME NEW id \in FrameIds, NEW valid \in BOOLEAN, NEW problem \in Problems,
                 RefuseHomeFrame(id, valid, t, problem)
          PROVE  Sight'
      BY <2>2, SameTrail DEF RefuseHomeFrame, RequireReturn, seen, home, outcome, Full, Written
    <2>3. ASSUME NEW named \in BOOLEAN, RefuseCommit(named, t) PROVE Sight'
      BY <2>3, SameTrail DEF RefuseCommit, FailedHold, seen, home, outcome, Full, Written
    <2>4. CASE CommitAgain(t)
      BY <2>4, SameTrail DEF CommitAgain, seen, home, outcome, Full, Written
    <2>5. CASE BeginCollection(t)
      BY <2>5, SameTrail DEF BeginCollection, seen, home, outcome, Full, Written
    <2> QED BY <1>1, <2>1, <2>2, <2>3, <2>4, <2>5, TakeSight, MarkSight, CountSight, RecheckSight,
               CommitSight DEF Orchestrator
  <1>2. ASSUME NEW t \in Times, World(t) PROVE Sight'
    BY <1>2, SameTrail DEF World, UpdateElsewhere, InvalidateElsewhere, seen, home, outcome, control
  <1>3. CASE DeferCandidate
    BY <1>3, SameTrail DEF DeferCandidate, RequireReturn, seen, home, outcome, Full, Written
  <1>4. ASSUME NEW valid \in BOOLEAN, CreateShadowActionGeneration(valid) PROVE Sight'
    BY <1>4, SameTrail DEF CreateShadowActionGeneration, seen, home, control, Full, Written
  <1>5. CASE ResetEpisode
    <2>1. stage' = "reset_cleared" /\ frames' = <<>> /\ homeFrames' = <<>>
      BY <1>5 DEF ResetEpisode, Cleared
    <2>2. Clocks'
      BY <2>1, NoFrame, EmptyOrdered DEF Clocks, Ordered
    <2>3. Trail'
      BY <2>1 DEF Trail, Full, Homeward, Rechecked, Written
    <2> QED BY <2>2, <2>3 DEF Sight
  <1>6. CASE UNCHANGED activeMemoryVars
    BY <1>6, SameTrail DEF activeMemoryVars, seen, home, outcome, control
  <1> QED BY <1>1, <1>2, <1>3, <1>4, <1>5, <1>6, NextIs

\* What is committed was seen in this look by different frames at increasing times, before the
\* camera was proved home by later ones, and is not too old: whatever times the callers give.
THEOREM CommitWasSeen == Spec => []CommittedWasSeen
  <1>1. Init => Sight
    <2> SUFFICES ASSUME Init PROVE Sight
      OBVIOUS
    <2>1. Clocks
      BY NoFrame, EmptyOrdered DEF Init, Clocks
    <2>2. Trail
      BY DEF Init, Trail, Full, Homeward, Rechecked, Written
    <2> QED BY <2>1, <2>2 DEF Sight
  <1>2. ControlInvariant /\ Sight /\ [Next]_activeMemoryVars => Sight'
    BY SightStep
  <1>3. ControlInvariant /\ Sight => CommittedWasSeen
    <2> SUFFICES ASSUME ControlInvariant, Sight, receipt.kind = "commit" PROVE CommittedWasSeen
      BY DEF CommittedWasSeen
    <2>1. stage \in Written
      BY DEF ControlInvariant, Fate
    <2>2. /\ Len(frames) = MinFrames /\ Last(frames).at <= returnedAt
          /\ Last(homeFrames).at <= recheckedAt /\ Receipt(Last(frames))
      BY <2>1 DEF Sight, Trail, Full, Homeward, Rechecked, Written
    <2>3. Len(homeFrames) = HomeFrames /\ homeFrames # <<>>
      <3>1. Len(homeFrames) = HomeFrames
        BY <2>1 DEF ControlInvariant, Lease, Back
      <3> QED BY <3>1, Limits, NoFrame
    <2>4. returnedAt <= homeFrames[1].at /\ Ordered(frames) /\ Ordered(homeFrames)
      BY <2>3 DEF Sight, Clocks
    <2> QED BY <2>2, <2>3, <2>4 DEF CommittedWasSeen, Receipt, Ordered
  <1> QED BY <1>1, <1>2, <1>3, ControlSafe, PTL DEF Spec
=============================================================================
