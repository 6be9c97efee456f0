---------------------------- MODULE ShadowObserver ----------------------------
(***************************************************************************)
(* ShadowExecutiveObserver and the two places of the replan loop that call *)
(* it.  observe() turns an observation into a snapshot in stages of which  *)
(* each may fail, hands it to the executive, and after any failure         *)
(* rebuilds the executive by replaying the snapshots its ledger held       *)
(* before the call.  The executive and the replay are the real steps of    *)
(* Executive; the observer is enabled.                                     *)
(***************************************************************************)
EXTENDS Executive, FiniteSets

CONSTANTS
  Times,        (* timestamps an observation can carry                        *)
  Strides,      (* control steps one replan may execute                       *)
  OpenEpisodes, (* episodes in which others call observe too, with any step   *)
  MaxCalls,     (* bound: observations recorded per episode                   *)
  MaxLoopStep,  (* bound: the loop's control clock                            *)
  MaxEpisodes   (* bound: resets of the loop                                  *)

ASSUME ObserverAssumption ==
  /\ Times \subseteq Nat /\ Times # {}
  /\ Strides \subseteq Nat /\ Strides # {}
  /\ OpenEpisodes \subseteq Nat
  /\ MaxCalls \in Nat /\ MaxLoopStep \in Nat /\ MaxEpisodes \in Nat

VARIABLES
  ledger,       (* _executive.ledger: the committed snapshots                 *)
  lastTick, lastTime,     (* the executive's clock, _validate_time            *)
  nextTick,     (* _next_executive_tick                                       *)
  lastControl,  (* _last_control_step                                         *)
  records,      (* _records: per call its tick, control step and error        *)
  restoring,    (* while it restores: the error, and what is left to replay   *)
  loopStep,     (* QwenVLAReplanLoop.control_step                             *)
  resetError,   (* _shadow_reset_error is set                                 *)
  episode,      (* history: which reset of the loop the episode began with    *)
  saved         (* history: the executive after its latest accepted tick      *)

execution == <<vars, ledger, lastTick, lastTime>>
observer  == <<nextTick, lastControl, records>>
loop      == <<loopStep, resetError, episode>>
allVars   == <<execution, observer, restoring, loop, saved>>

-----------------------------------------------------------------------------
(* The executive behind its clock *)

NoError == "none"
Idle    == [stage |-> "idle", left |-> <<>>, error |-> NoError]
Silent  == -1

\* Why _validate_time raises, before any state changes.
ClockError(tick, time) ==
  IF lastTick >= 0 /\ tick # lastTick + 1 THEN "tick"
  ELSE IF time < lastTime THEN "time"
  ELSE NoError

Commit(s, tick, time, ep) == [snapshot |-> s, tick |-> tick, time |-> time, episode |-> ep]

\* HierarchicalExecutive.step with its clock; the ledger gets one entry.
Tick(s, tick, time, ep) ==
  /\ ClockError(tick, time) = NoError
  /\ Step(s)
  /\ lastTick' = tick
  /\ lastTime' = time
  /\ ledger' = Append(ledger, Commit(s, tick, time, ep))

\* Mutant: the clock of the old executive survives.
NewExecutiveKeepingClock ==
  /\ status' = "RUNNING"
  /\ phase' = NormalPhases[1]
  /\ subtask' = PhaseSpec[NormalPhases[1]].subtask
  /\ owner' = PhaseSpec[NormalPhases[1]].owner
  /\ age' = 0
  /\ attempts' = 0
  /\ candidate' = NoCandidate
  /\ resume' = NoPhase
  /\ entry' = NoEntry
  /\ streak' = 0
  /\ ledger' = <<>>
  /\ UNCHANGED <<lastTick, lastTime>>

\* HierarchicalExecutive.__init__: a new executive takes the place of this one.
NewExecutive ==
  /\ status' = "RUNNING"
  /\ phase' = NormalPhases[1]
  /\ subtask' = PhaseSpec[NormalPhases[1]].subtask
  /\ owner' = PhaseSpec[NormalPhases[1]].owner
  /\ age' = 0
  /\ attempts' = 0
  /\ candidate' = NoCandidate
  /\ resume' = NoPhase
  /\ entry' = NoEntry
  /\ streak' = 0
  /\ ledger' = <<>>
  /\ lastTick' = Silent
  /\ lastTime' = Silent

-----------------------------------------------------------------------------
(* observe() *)

\* build_deployable_snapshot as observe() calls it: always with an estimate, never with
\* ground truth or an anomaly.
Deployable == {s \in Snapshots : s.estimated /\ ~s.gt /\ ~s.unsafe}

Ready == restoring.stage = "idle"

\* Mutant: the loop asks an observer whose reset failed.
ListeningAnyway == Ready /\ Len(records) < MaxCalls

\* _observe_shadow: not after a reset that failed.
Listening == Ready /\ ~resetError /\ Len(records) < MaxCalls

\* The loop reports the control step at which its chunk began.
Controls == IF episode \in OpenEpisodes THEN 0..MaxLoopStep ELSE {loopStep}

ControlRegressed(control) == control < lastControl

\* One record per call, written when the call ends.
Noted(tick, error) == records' = Append(records, [tick |-> tick, error |-> error])

\* The control step is remembered before anything else can fail.
Heard(control) == lastControl' = IF ControlRegressed(control) THEN lastControl ELSE control

\* The chunk executed some steps before the loop called the observer.
Advance ==
  /\ \E k \in Strides : loopStep + k <= MaxLoopStep /\ loopStep' = loopStep + k
  /\ UNCHANGED <<resetError, episode>>

\* Mutant: a call that fails leaves the executive as the failure left it.
GiveUp(control, error) ==
  /\ Noted(Silent, error)
  /\ Heard(control)
  /\ UNCHANGED <<restoring, nextTick, saved>>

\* The except branch: restore from the snapshots committed before the call.
Restore(control, error) ==
  /\ restoring' = [stage |-> "begin", left |-> ledger, error |-> error]
  /\ Heard(control)
  /\ UNCHANGED <<nextTick, records, saved>>

ObserveStale(control) ==
  /\ Listening
  /\ ControlRegressed(control)
  /\ Restore(control, "control")
  /\ Advance
  /\ UNCHANGED execution

\* Not an ObservationV2Window, or a provider, the estimator or the snapshot raises:
\* five stages between the control step and the executive, all before any state changes.
ObserveWithoutEvidence(control) ==
  /\ Listening
  /\ ~ControlRegressed(control)
  /\ \E error \in {"type", "evidence"} : Restore(control, error)
  /\ Advance
  /\ UNCHANGED execution

ObserveRefused(control, time) ==
  /\ Listening
  /\ ~ControlRegressed(control)
  /\ ClockError(nextTick, time) # NoError
  /\ Restore(control, ClockError(nextTick, time))
  /\ Advance
  /\ UNCHANGED execution

\* step raised after it changed the state, with or without its ledger entry, or its
\* decision was found to claim the authority to act.
ObserveBreaks(control, s, time) ==
  /\ Listening
  /\ ~ControlRegressed(control)
  /\ ClockError(nextTick, time) = NoError
  /\ Step(s)
  /\ lastTick' = nextTick
  /\ lastTime' = time
  /\ \/ UNCHANGED ledger
     \/ ledger' = Append(ledger, Commit(s, nextTick, time, episode))
  /\ Restore(control, "step")
  /\ Advance

ObserveCommits(control, s, time) ==
  /\ Listening
  /\ ~ControlRegressed(control)
  /\ Tick(s, nextTick, time, episode)
  /\ nextTick' = nextTick + 1
  /\ Noted(nextTick, NoError)
  /\ Heard(control)
  /\ saved' = execution'
  /\ Advance
  /\ UNCHANGED restoring

-----------------------------------------------------------------------------
(* _restore_committed_executive.  The code replays into a second executive and keeps   *)
(* it at the end; nobody looks at the first meanwhile, so the model has only one.      *)

RestoreBegins ==
  /\ restoring.stage = "begin"
  /\ NewExecutive
  /\ restoring' = [restoring EXCEPT !.stage = "replay"]
  /\ UNCHANGED <<observer, loop, saved>>

\* Mutant: the replay is one snapshot short.
LeftToReplayShort == Len(restoring.left) > 1

LeftToReplay == restoring.left # <<>>

RestoreReplays ==
  /\ restoring.stage = "replay"
  /\ LeftToReplay
  /\ LET next == Head(restoring.left)
     IN  Tick(next.snapshot, next.tick, next.time, next.episode)
  /\ restoring' = [restoring EXCEPT !.left = Tail(@)]
  /\ UNCHANGED <<observer, loop, saved>>

RestoreEnds ==
  /\ restoring.stage = "replay"
  /\ ~LeftToReplay
  /\ Noted(Silent, restoring.error)
  /\ restoring' = Idle
  /\ UNCHANGED <<execution, nextTick, lastControl, loop, saved>>

-----------------------------------------------------------------------------
(* The loop *)

\* The loop replans without asking an observer whose reset failed.
ReplanUnheard ==
  /\ Ready
  /\ resetError
  /\ Advance
  /\ UNCHANGED <<execution, observer, restoring, saved>>

\* Mutant: a reset that keeps the control step of the previous episode.
ForgetKeepingStep ==
  /\ NewExecutive
  /\ nextTick' = 0
  /\ records' = <<>>
  /\ UNCHANGED lastControl

\* ShadowExecutiveObserver.reset once the provider's reset came back.
Forget ==
  /\ NewExecutive
  /\ nextTick' = 0
  /\ records' = <<>>
  /\ lastControl' = -1

\* QwenVLAReplanLoop.reset, where the provider's reset may raise first.
LoopReset ==
  /\ Ready
  /\ episode < MaxEpisodes
  /\ episode' = episode + 1
  /\ loopStep' = 0
  /\ \/ Forget /\ resetError' = FALSE /\ saved' = execution'
     \/ resetError' = TRUE /\ UNCHANGED <<execution, observer, saved>>
  /\ UNCHANGED restoring

ObserverInit ==
  /\ Init
  /\ ledger = <<>>
  /\ lastTick = Silent
  /\ lastTime = Silent
  /\ nextTick = 0
  /\ lastControl = -1
  /\ records = <<>>
  /\ restoring = Idle
  /\ loopStep = 0
  /\ resetError = FALSE
  /\ episode = 0
  /\ saved = execution

Observe(control) ==
  \/ ObserveStale(control)
  \/ ObserveWithoutEvidence(control)
  \/ \E time \in Times :
       \/ ObserveRefused(control, time)
       \/ \E s \in Deployable :
            ObserveBreaks(control, s, time) \/ ObserveCommits(control, s, time)

RestoreCommitted == RestoreBegins \/ RestoreReplays \/ RestoreEnds

ObserverNext ==
  (\E control \in Controls : Observe(control)) \/ RestoreCommitted \/ ReplanUnheard \/ LoopReset

ObserverSpec == ObserverInit /\ [][ObserverNext]_allVars

\* observe() is one synchronous call: once a restoration has begun it goes on.
ObserverFairSpec == ObserverSpec /\ WF_allVars(RestoreCommitted)
-----------------------------------------------------------------------------
(* Properties *)

Successes == {i \in 1..Len(records) : records[i].error = NoError}

Errors == {NoError, "control", "type", "evidence", "tick", "time", "step"}

Commits == [snapshot : Snapshots, tick : Nat, time : Times, episode : 0..MaxEpisodes]

\* The observer's fields, over the executive's own types.
ObserverTypeOK ==
  /\ TypeOK
  /\ ledger \in Seq(Commits)
  /\ lastTick \in Nat \cup {Silent} /\ lastTime \in Times \cup {Silent}
  /\ nextTick \in Nat
  /\ lastControl \in 0..MaxLoopStep \cup {-1}
  /\ records \in Seq([tick : Nat \cup {Silent}, error : Errors])
  /\ restoring \in [stage : {"idle", "begin", "replay"}, left : Seq(Commits), error : Errors]
  /\ loopStep \in 0..MaxLoopStep /\ resetError \in BOOLEAN /\ episode \in 0..MaxEpisodes

\* Whatever went wrong in a call, and wherever, the executive that remains (its state,
\* its stability count, the phase it would resume, its clock and its ledger) is the one
\* the latest accepted tick left behind.
FailureLeavesNoTrace == Ready => execution = saved

\* The records of the calls that succeeded are the ledger's entries, tick for tick and in
\* their order, and the next tick is the one the executive expects.
RecordsMatchLedger ==
  Ready => /\ {records[i].tick : i \in Successes} = {ledger[i].tick : i \in 1..Len(ledger)}
           /\ \A i, j \in Successes : i < j => records[i].tick < records[j].tick
           /\ \A i \in 1..Len(ledger) : ledger[i].tick = i - 1
           /\ nextTick = Len(ledger)
           /\ lastTick = nextTick - 1

InStep == \A i \in 1..Len(records) : records[i].error \notin {"tick", "control"}

\* The loop is the only caller, and its latest reset worked.
LoopOnly == episode \notin OpenEpisodes /\ ~resetError

\* No failure, retry or reset, failed resets included, and nothing another caller did in an
\* episode before, leaves the observer with a clock that refuses what the loop reports next:
\* a tick that is not the expected one, or a control step before the latest.
NeverOutOfStep == LoopOnly => InStep

\* A ledger never mixes evidence of two episodes, and while the loop still asks, all of
\* it is of the present one.
OneEpisode ==
  /\ \A i \in 1..Len(ledger) : ledger[i].episode = ledger[1].episode
  /\ Ready /\ ~resetError => \A i \in 1..Len(ledger) : ledger[i].episode = episode

\* A restoration is never stuck on a snapshot that the rebuilt executive refuses.
RestorationEnds == ~Ready ~> Ready
=============================================================================
