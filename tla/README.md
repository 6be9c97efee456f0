# A TLA+ development for robot-vla

robot-vla drives a Franka arm in ManiSkill: a vision-language-action policy proposes chunks of
joint targets, a receding-horizon loop executes a prefix of each and infers again, and a
deterministic executive follows the task's phases on evidence from sensors only. Around that
core stand a memory of the object and an active re-observation that may write it, the collection
of corrective data (local DAgger), and training. Source paths below are relative to
`src/src/robot_vla/` unless they start with `src/`.

The development models every part of the system that keeps a protocol:

- the **hierarchical executive** (which phase is active, who may move the robot) and the **shadow
  observer** that feeds it and must rebuild it after a failure;
- the **replan loop** (which plans and references may still influence the next command);
- the **object memory** and its candidate window, the **supervisor** that lets the camera leave
  home to look again, and the **orchestrator** that writes into memory what was seen;
- one **local DAgger episode**, and the **candidate pool** of runners and child processes that
  collects a frozen population of them;
- a **training run** with its checkpoints and logs.

The properties are aimed at the hazards of `PROJECT.json`: what goes wrong only after several
steps, failures, pauses or restarts in an order nobody wrote a test for.

## 1. Inventory

| Component | State it keeps | Operations | What is hard, and what makes it correct |
|---|---|---|---|
| Hierarchical executive, `executive/executive.py`, `contracts.py` | `ExecutiveState` (status, subtask, phase, owner, age, recovery attempts), stability candidate, phase to resume, ledger | `step(snapshot)` with about twenty ways to end | Long sequences of legal ticks: flickering evidence, anomalies while recovering, retries. Correct if it fails closed, stays on the declared graph, counts recoveries, commits only on stable evidence, and ends |
| Task plan compiler, `executive/planning.py` | none (freezes a plan) | `compile` | The plan is data that every property of the executive depends on |
| Shadow observer, `executive/shadow.py`, `estimation.py` | an executive, its committed snapshots, last control step | `reset`, `observe` | One of seven stages failing must leave the executive where it was |
| Replan loop, `runtime/control_loop.py` | control clock, RTC chunk, ensemble, pause, history generation, anomaly count | `replan_and_execute`, `reset`, `clear_action_history`, `pause_for_observation`, `resume_after_observation` | Two clocks that drift apart; failures inside a nested resume; stale plans and stale pause tokens |
| Chunk executor and controller, `execution/chunk_executor.py`, `maniskill_controller.py` | last commanded joint target | `execute`, `stop_for_failure`, `hold_current`, `send_action` | The reference must never outlive a movement it did not command |
| Temporal ensemble and RTC overlap, `execution/temporal_ensemble.py`, `rtc.py` | live chunks | `add_and_compose`, `clear` | Dropping chunks by the clock, alignment in time |
| Rollout driver, `evaluation/maniskill.py` | replan count, environment flags | `run_maniskill_episode` | The reserve of replans against failures that take no step |
| Object memory, `precision/object_memory.py` | remembered state with its reasons, window of agreeing images | `observe`, `update`, `commit_delayed_candidate`, `invalidate_for_safety`, `reset` | An image used twice, a value that outlived its evidence, an irreversible reason that is forgotten |
| Active front re-observation, `precision/active_front_reobserve.py` | transaction state, receipts, latch | about fifteen signals, in any order | Work may resume only after the camera is home again and nothing was touched, whatever failed in between |
| Active front memory, `precision/active_front_memory*.py` | candidate, home barrier, camera lease, receipts | collect, return, home frames, recheck, commit, defer | The memory is shared; a failure must forbid the write on every later path; the lease must come back |
| Local DAgger episode, `sim/local_dagger.py`, `sim/collector.py`, `tasks/pick_place.py` | segment, budgets, tracker | roll-in, takeover, expert phases, settling | Boundary, budgets, success and the environment's limit falling on the same action |
| Candidate pool, `cli/collect_local_dagger*.py` | experiment, one directory per seed, four derived files, a lock | run, resume; the child's publication and record | Kills between any two writes, a child that outlives its runner, a second runner |
| Training, `cli/train_stage1.py`, `training/` | checkpoints and two logs | train, validate, save, link, append, resume | A stop between two writes; a resume that mixes two stories |
| Task tracker and rollout result, `tasks/pick_place.py`, `evaluation/` | stable counts, completed skills | `update`, classification | Order of completion |
| Observation contract and history, `observation.py` | four-frame window | `append`, `window`, `reset` | Contiguity, padding at the start |
| Precision control, shadow, provider, `precision/control.py`, `shadow.py`, `provider.py` | ledger | commands, detections | Thresholds on numbers |
| Trajectory data, `data/` | episode directories | write, sample | Publication by renaming, epoch accounting |
| Policy model, losses, diagnostics, sweeps, scripts | numeric or offline | | No protocol; listed in `PROJECT.json` with the reason |

How they interact. The rollout driver calls the replan loop once per chunk. The loop asks the
policy for a chunk, lets the ensemble (or RTC) combine it with earlier ones, and hands it to the
chunk executor, which asks for an observation and sends one action per environment step; any
failure ends in `hold_current`, which is also a step of the environment. A caller may pause the
loop between two chunks, move the camera, and resume with a fresh window. Once per control step
the shadow observer turns the observation into evidence and calls the executive, which decides
phase, owner and whether the remaining chunk must be dropped. The executive runs in shadow mode:
the loop reports its decisions and does not obey them yet. When the object is not usable for some
ticks, the supervisor lets the camera leave home once per episode; the orchestrator collects
frames, freezes a candidate, waits for the camera to be proved home, rechecks its source and
writes it into the object memory, which other callers read, update and invalidate meanwhile. All
of this is one thread: the interleavings are those of failures, interruptions and callers, not of
threads. The candidate pool is several processes: a runner starts one child per seed, each child
rolls in the policy, hands over to the expert and leaves a dataset and a record; either can be
killed, and a runner is resumed by hand, perhaps while the child of the killed one still runs.
Training is one process that is stopped and resumed by hand.

## 2. Modules

| Module | Models | State and actions |
|---|---|---|
| `PickPlacePlan` | the plan `PickPlacePlanCompiler` freezes for pick-cube-to-region | data: `PlanNormalPhases`, `PlanPhaseSpec`, `PlanAllowedNext` |
| `Executive` | `HierarchicalExecutive.step` for any plan, any evidence | one variable per field; `Step(s)` has one disjunct per way the handler ends; `Record` is `_record`, evaluated after the state change as in the code |
| `ShadowObserver` | `ShadowExecutiveObserver` and the loop's two calls of it | composes `Executive`: `Tick` is its `Step` behind the clock check; one action per way `observe` can go, one per step of the restoration |
| `ReplanLoop` | `QwenVLAReplanLoop`, the executor's loop, the ensemble's buffer, the ManiSkill environment's steps, and the callers of the loop | `mode` says where `replan_and_execute` is; one action per way inference or an executor step can go, one per operation of the caller |
| `ObjectState` | what the calls of the window verifier and of the memory compute | operators on a window, a measurement and an object state |
| `ObjectMemory` | `ExplicitObjectStateMemory` and `ObjectCandidateWindowVerifier` under every order of calls | one action per call, on the operators of `ObjectState` |
| `ActiveFrontSupervisor` | `ActiveFrontReobserveController` | one action per call; the camera, which the code does not see, is external |
| `ActiveViewTransaction` | abstract: what one look promises | `Look`, `Forbid`, `Return`, `Write`, `NewEpisode` |
| `ActiveFrontMemory` | `ActiveFrontStage2MemoryOrchestrator`, on the operators of `ObjectState`, with the other callers of the memory | one action per way a call can go; implements `ActiveViewTransaction` |
| `LocalDagger` | one episode of the collector, and what the pool checks of its record | one action per environment action, replan, anomaly and expert phase |
| `FrozenPopulation` | abstract: what a pool of candidates promises | `Count`, `Judge` |
| `CandidatePool` | runners, children and the disk | one action per write, start, exit and kill; implements `FrozenPopulation` |
| `Stage1Training` | a run of `train_stage1` | one action per write and validation, `Stop`, `Resume` |
| `MC...` | small instances for TLC | |
| `...Proofs` | theorems (section 4) | |

**Executive.** `FailClosed` is the order of checks in `step` (hidden ground truth, missing
estimate, inconsistent evidence, anomaly). `RecoveryStep` is `_step_recovery`, `NormalStep` is
`_step_normal`; each disjunct repeats the early returns before it as guards. A snapshot is the
set of valid modalities, the set of satisfied predicates, the valid parts of the estimate and
three flags; measured values, timestamps and hashes decide nothing in the executive. An enum
member is a string with its Python name. `age` is capped at `AgeCap`, which is at least every
timeout (`ConfigAssumption`), so that `TimedOut` is exact. Of the ledger the model keeps the
latest entry. `streak` is a history variable: the number of consecutive ticks on which all the
evidence for leaving the phase was complete. No action reads it. The check that ticks are
consecutive raises before any state changes and is in `ShadowObserver`.

**ShadowObserver.** A call of `observe` is one action up to its success or its exception:
`ObserveStale` (the control step regressed), `ObserveWithoutEvidence` (the type check, a provider,
the estimator or the snapshot raised; none of them has changed anything), `ObserveRefused` (the
executive's clock check), `ObserveBreaks` (the executive's step raised after it changed the state,
with or without its ledger entry), `ObserveCommits`. After an exception the executive is rebuilt by
`RestoreBegins`, one `RestoreReplays` per committed snapshot, each a real `Step`, and
`RestoreEnds`, which writes the record. `lastControl` is set before anything that can fail later
and is not restored, as in the code. `LoopReset` is the loop's `reset`: the provider's `reset`
comes first, and when it raises nothing else of the observer is reset and the loop stops asking
(`Listening`). In the episodes of `OpenEpisodes` other callers ask too, with any control step; in
the others the loop is alone, and `NeverOutOfStep` is about those. `saved` (history) is the
executive after its latest accepted tick. Evidence is what `build_deployable_snapshot` can
produce: with an estimate, without ground truth and without an anomaly (`Deployable`);
the loop never tells the observer of its own anomalies.

**ReplanLoop.** `env.step` counts steps of the environment, `controlStep` the steps of executed
chunks: `hold_current` advances only the first. That is how plans come to be misaligned, and what
`AlignedHistory` is about. A chunk is three numbers: an identity, the control step it was
proposed at, and (history) the environment step at that moment. Joint values, weights and overlap
masks are left out: which chunks are combined decides the properties, not with what weight.
`GiveBack`, `ReturnClean`, `ReturnAnomaly`, `ReturnFailed` are the three results of
`replan_and_execute` together with what `resume_after_observation` does when its nested replan
did not succeed (pause again under a new `ObservationPause` object that no caller holds: `given`).
`hold_current` may fail (`"hold" \in Faults`), `send_action` may raise before or after the
environment took the step, and the environment may end at any step. A read that raises before the
proposal (`ReadFails`) makes the rollout hold and stop; the loop itself keeps what it remembered, so
`ReferenceWasCommanded` is about a loop that may still act. `Resume` checks what the code checks and
no more (the token, the window, no residual history), so it may also follow a failed rollout or a
finished environment. `driver` is how the loop was built and who drives it: strategy, anomaly budget,
length of the episode, possible faults.

**ObjectState, ObjectMemory.** Positions lie on a line, variances and times are integers; an image
is its position, variance, age, timestamp skew and the rejections its flags cause; none is older
than the episode. A decision of
the verifier carries the window's last image; `UpdateTick` writes it at once, `StageTick` keeps
it in `pending`, and `CommitDelayed` writes it later (`Preview`). What is remembered carries the
reasons for which it may not be used.

**ActiveFrontSupervisor.** `_TRANSITIONS` is the record `Target`. Every call is possible in every
state with true, false, late and repeated content: receipts of another request, another
generation, other frames. Each frame says for itself whether the camera is home, and one that denies
it sends the supervisor to FAILSAFE_RETURN. A reported return is believed, as `advance` believes it:
a caller that reports a return which did not happen is outside the model. `touched` is history: contact, closing or a later phase was reported by
whichever of the three kinds of call hears of it.

**ActiveFrontMemory.** The digests by which the code recognises a state, a frame or a receipt are
replaced by the thing itself. Times are the caller's, and may lie a little behind an earlier
call's (`Lateness`). `UpdateElsewhere` and `InvalidateElsewhere` are the other callers of the
memory. `Look` maps it to `ActiveViewTransaction`: the camera is out while the lease is held, the
verdict is `_commit_forbidden`, and the look is written if there is a commit receipt.

**LocalDagger.** What an action does is whether the active skill's predicate holds after it and
whether the environment says it is over; poses, images and policy outputs are left out. An episode
starts with no skill completed: the collector's first `tracker.update` (`sim/collector.py:705`) sees
the reset scene, whose rest pose is too far from the cube for the first skill to be reached.
`UsageFits`, `AcceptedFits` and `RejectedFits` are the checks with
which the pool reads the record.

**CandidatePool.** Each write is a step of its own; atomic replacement is one step that may leave
its temporary file. `Load` sweeps those of the derived files (`DerivedFiles`) and no others; any
other leftover in the output root would refuse the resume. A kill leaves everything as it is; an interrupt runs the child's clean-up. A
derived file holds the outcomes it was written from, in place of hashes. `Resumable` is the whole
validation of `--resume`. `Damaged` is what the documents want a resume to refuse: a directory
nobody will finish, a record that is not fit.

**Stage1Training.** The trainer is the losses of the epochs it is made of. An epoch that is run
again need not score the same. `experiment.json`, `metrics.jsonl` and `sampler_exposure.jsonl` are
written in place and may be cut short (`Torn`); the last line of the exposure may also lack only its
newline (`ended`), so that the next line is joined to it; `latest.pt` is replaced, the others are hard links
to it, one step each.

## 3. Runs

| Run | Question | Instance |
|---|---|---|
| `Executive` | `TypeOK`, `RunningSupported`, `ReturnsAreCounted`, `RetryReturnsToInterruption`, `HandoverResetsAction`, `GraphOnly`, `ProgressIsStable` | all 20 phases of the compiled plan, two stable ticks, one recovery; a tick's evidence is complete with a combination of verdicts, or has one defect: any modality, predicate or part of the estimate lost (predicates that only end a phase are lost together), hidden ground truth, an anomaly, no estimate |
| `ExecutiveLive` | `NominalEvidenceFinishes`: once the evidence stays complete the task ends, whatever went before | seven kinds of evidence, timeout of three ticks, two recoveries |
| `ShadowObserver` | `FailureLeavesNoTrace`, `RecordsMatchLedger`, `NeverOutOfStep`, `OneEpisode`, `RestorationEnds`: any stage of any call may fail, and in the open episode any control step may be asked for | two stable ticks, three kinds of evidence, two timestamps, four calls per episode, one reset |
| `ReplanLoop` | `HistoryHolds` (`AlignedHistory`, `ReferenceWasCommanded`, `PausedIsClean`), `ResumedOnce`, `RolloutBounded` (`BufferBounded`, `EndsForAReason`) | all three strategies; either every fault with pauses and resets, episodes of 6 steps and one anomaly, or a plain rollout (`PlainRollout`) with episodes of 8 steps and three anomalies; chunks of 5, prefixes of 2 |
| `ReplanLoopStale` | a counterexample to `FreshAfterPause` | windows of four frames, three anomalies, episodes of 12 steps |
| `ObjectMemory` | `RememberedIsFresh`, `WindowAgrees`, `ContactOnSight`, `NoImageTwice`, `NoOperationForgives` | eight images, each good or bad in one respect; three safety contexts; strides of one and two; five time units |
| `ActiveFrontSupervisor` | `FailureIsFinal`, `ResumesFromFreshHome`, `CameraIsOwned`, `CommitsUntouched`: any call at any time | the code's three ticks and four frames, two episodes |
| `ActiveFrontMemory` | `LeaseUntilHome`, `WrittenOnce`, `CommittedWasSeen`, `NothingOverwritten`, `CarriesOutTransaction`: any call, with times that run late, while others write | windows and barriers of two frames, two images, four time units, one foreign write |
| `LocalDagger` | `TakeoverIsBoundary`, `BudgetsHold`, `SignalsClose` | both boundaries; budgets of 5 and 9, chunks of 2, one anomaly |
| `LocalDaggerRefused` | a counterexample to `RecordsAreAdmitted` | as `LocalDagger` |
| `CandidatePool` | `PublishedIsRecorded`, `ResumeNeverStuck`, `SeedRunsOnce`, `KeepsPopulation`, `Finishes` | two runners, four seeds, a gate of two, three kills |
| `Stage1Training` | `BestIsBest`, `RecordedStates` | three epochs, three losses, any checkpoint period, three stops |

Why the bounds are enough. Two stable ticks are the least number at which a count can be reset,
kept wrongly or carried to another key. One recovery lets a second one be refused. Evidence with a
single defect reaches each early return alone; two defects at once are decided by the first check,
whose order the actions keep. Four observed ticks commit a phase, interrupt the next and start its
recovery, and leave one call to fail at any point of it; a loop clock of two lets the loop execute a chunk of
two steps before it asks again. A chunk of 5 with prefixes of 2 overlaps
with two later ones and leaves an odd remainder; 6 steps hold three chunks; two generations allow
a pause, a failed resume, a second pause and an old token. `WindowLength = 4` is the code's, used
where the number matters. A window of two agreeing images can be spread, gapped and restarted, and
five time units hold two of them and a memory that expires; the images of the active look are two,
since a rejected image only refuses a frame, and `ObjectMemory` has the rest. A barrier of two
frames has a first and a last one. Budgets of 5 and 9 let the boundary, the end of a chunk, the
end of either budget, the success and the environment's limit fall on the same action or one
apart. Four seeds have one behind the manifest, one ahead of it, and one more, so that a summary two
records old differs from the legal one; three kills stop a runner, its child and the runner that
resumes. Three epochs have a first, a periodic and a last one, and a stop after each write. The
bounds of the runs that are also proved (section 4) do not matter for what the theorems state.

`MaxGeneration` bounds pauses and resets, `MaxReplans` replans and resumes, `MaxCalls`, `MaxEpisodes` and `MaxLoopStep` the observer's
records, the resets and the loop's clock, `MaxEpisodeSteps` the environment, `AgeCap` the age,
`MaxTime` and `Lateness` the callers' clock, `MaxOthers` foreign writes, `MaxStops` the kills;
nothing else is bounded. `CHECK_DEADLOCK FALSE` is stated wherever the modelled part may stop:
a finished rollout, episode, pool or training run, an observer at the bound of its calls, a
memory at the end of its clock. The executive never stops, and its runs check for deadlock.

Fairness. `FairSpec` of `Executive` is `WF_vars(Next)`: the runtime hands the executive one
snapshot per control tick for as long as the episode runs. It assumes nothing of the evidence;
`NominalEvidenceFinishes` has its hypothesis on the evidence in the formula. `ObserverFairSpec`
has `WF` of the restoration only: it is a loop inside one synchronous call, so once begun it
goes on; nothing makes the loop call the observer. `FairSpec` of `CandidatePool` says that a
process that was not stopped runs on, and that whoever operates the pool starts or resumes it
as long as it can be: without an operator an interrupted pool stays interrupted. Kills are not
fair, and `MaxStops` bounds them, so `Finishes` is about a pool that is not killed for ever.

Mutants. Every property of a passing run has a mutant of a definition (`\* Mutant: ...` in the
modules) under which TLC finds it violated.

### Where the code and its documents differ

Shown by a run:

1. The freshness test of a resume compares the frames' clock with the loop's, which lags by one
   for every hold: a window taken wholly before the pause can pass (`FreshAfterPause`).
2. A formal candidate whose expert takes over and is refused before its first action leaves a
   record that the pool's own validation refuses, on this run and on every `--resume`, and so do
   a few other ends of an episode (`RecordsAreAdmitted`; the finding in `PROJECT.json` lists them).

Met while modelling:

3. A return from DIAGNOSE commits a phase, a critical one included, on one tick of evidence,
   while `src/docs/roadmap.md:219-234` wants `StableForKControlTicks` for every commit.
   `ProgressIsStable` is therefore about a running executive and the way into DIAGNOSE.
4. A retry whose target is not ready costs no budget and recovery phases do not time out, so
   REOBSERVE and DIAGNOSE may alternate for ever on such evidence, while `src/docs/roadmap.md:378`
   asks for no infinite recovery loop. `NominalEvidenceFinishes` is what does hold.
5. The reserve of one replan per control step is called the worst case
   (`evaluation/maniskill.py:334`); if holds may fail, a rollout can run out of it and end without
   a reason. `RolloutBounded` assumes that holds reach the environment.
6. A second `invalidate_for_safety` replaces the reasons of the first (`precision/object_memory.py:778`),
   so that an irreversible one is forgotten after two calls. `NoOperationForgives` shows that one
   call never does.
7. `recheck_source` answers on an expired candidate before it applies the safety reasons of the
   same call, so that the memory stays usable although contact was reported.
8. With a checkpoint period above one, `best.pt` can end up worse than an epoch the metrics name,
   while `_should_save_checkpoint` says that the best one is not bound by the period: the process
   stops between `SaveLatest` and `LinkBest` of an improvement, goes on from an older periodic
   checkpoint without saving until the metrics catch up with the lost `latest.pt`, stops again,
   and resumes from that, whose best loss suppresses later ones. A resume from the `best.pt` of an
   abandoned branch mixes two stories. `BestIsBest` and `RecordedStates` have these as hypotheses.
9. A stop between the checkpoint and the metrics of the same epoch makes `--resume` refuse for
   good, unless a periodic checkpoint of the recorded epochs exists; so does a log line or an
   `experiment.json` that was cut short, or a line of exposure that lost its newline, once the next
   one is joined to it. Nothing is lost or mixed; the operator has to mend it.

## 4. Proofs

Every invariant and every action property that a passing run checks is proved, for all values of
the constants that the named assumptions allow, and so are both refinements. Only the three liveness
properties are not. TLC evaluates every assumption on the instances.

`ExecutiveProofs`: `TypeCorrect`, `RunningIsSupported`, `BudgetHolds`, `RetryReturns`,
`HandoverResets`, `StaysOnGraph`, `ProgressRests`. Assumptions: the normal phases are distinct and
none is a recovery phase (`NormalAssumption`); phase specifications are well formed, exactly the
recovery phases belong to RECOVER_OR_HOLD and are owned by SAFE_HOLD (`PlanAssumption`); the
declared subtask graph has the edges of the normal order and of recovery (`GraphAssumption`, used
by `StaysOnGraph` only); budgets and bounds are naturals (`ConfigAssumption`). `TypeOK` alone is
not inductive. `IInv` adds two parts:

* `Consistent`: a running executive is in a normal phase; a holding one is in a recovery phase
  *and remembers a normal phase to resume*; the attempts are within the budget. Without the second
  conjunct a retry could "return" to no phase, and neither the type nor `RetryReturns` would follow.
* `CountTracksStreak`: the stability candidate is empty, or it is for the transition out of the
  current phase, in a phase other than DIAGNOSE, and its count is at most `streak`. This ties the
  code's counter, which a dozen returns must reset, to the evidence really seen, and is what
  `ProgressRests` needs.

`RecoveryStepKeeps` and `NormalStepKeeps` show the preservation action by action; `StaySettling` is
the one interesting case, where counter and history advance together. `RunningIsSupported` is an
invariant about the ledger entry and uses `IInv` to know the phase a step starts from. The four
action properties first reduce a step to one of eight shapes (`StepHasShape`), then treat each.

The second half of `ExecutiveProofs` is about the observer: `EpisodesStayApart` (`OneEpisode`),
`StaysInStep` (`NeverOutOfStep`), `RecordsTellLedger` (`RecordsMatchLedger`),
`ExecutiveStaysConsistent` (`IInv` again, through failures and restorations) and
`FailuresLeaveNoTrace` (`FailureLeavesNoTrace`), for every plan, every evidence and all bounds. None
of these properties is inductive. `Books` adds how the counters hang together (`Numbered`: ticks are
the positions in the ledger, what is left to replay continues them, `nextTick` is where they end),
that a restoration belongs to a call and a call to a reset that worked (`RestoringListens`), that
everything in the ledger and in the replay is of the present episode while the loop asks
(`Current`), and that the latest control step is not ahead of the loop's (`Heeded`). `RestoreKeeps`
is the one lemma for all the ways a call can fail, whatever it did to the executive first; the
replay is the case where ledger and remainder trade one entry.

That a replay ends where the tick did needs two more ideas. The first is that the executive is a
function of its state and the snapshot: `TurnOf(x, s)` writes that function down, and `StepMakes`
shows, disjunct by disjunct, that every `Step(s)` makes the turn `TurnOf` of the state it starts from.
The code has no clock, no random number and no other input in `step`, which is what
`_restore_committed_executive` relies on without saying so. The second avoids an induction over the
ledger, which the provers cannot do: `Retold` says that *there is* a ledger `L` and a trail `tr` of
executive states, from the fresh executive through one turn for each entry, such that `saved` is the
end of the trail, what was replayed is the beginning of `L` and what is left to replay is the rest of
it, and the executive stands on the trail where its ledger ends. A commit extends the trail by a
state (`CommitTells`), a failure forgets where the executive stands (`RestoreTells`, `BeginTells`),
a replayed entry moves it one state on (`ReplayTells`), and at the end of the replay it stands where
`saved` does.

`ReplanLoopProofs`: `HistoryIsTrue` (`HistoryHolds`) and `EachPauseOnce` (`ResumedOnce`), for every
strategy, horizon, prefix and mixture of faults. `AlignedHistory` says nothing of the middle of a
chunk; `PlansInStep` also counts the steps executed so far, and includes the chunk under way,
which RTC is going to remember. `TokensInOrder` says that tokens are generations already given, and
that the pause that can be resumed is not among the spent ones. The three returns have a lemma
each (`AnomalyKeeps`, `FailureKeeps`, `CleanKeeps`) under which all faults fall; `CleanKeeps` is
where the environment's steps and the clock's must be the same number.

`RolloutsAreBounded` (`RolloutBounded`) is about plain rollouts (`PlainRollout`): nobody pauses the
loop, and the controller has no interruption hook, as `_TrackingManiSkillController`
(`evaluation/maniskill.py:214`) has none. Under interruptions that execute nothing the buffer does
grow. `PlansSpaced` says that live chunks come from different replans, each a whole number of
prefixes before the newest and less than a horizon away from it; the number of those chunks is then
counted by an injection into `0..q`, `q` being the last prefix that begins inside a horizon.
`ReplansTaken` says that each replan that came back took at least one step of the environment as long
as no hold fails, so that the reserve of replans cannot run out before the episode does.

`ObjectMemoryProofs`: `RememberedFresh`, `WindowsAgree`, `ContactNeedsSight`, `ImagesOnlyOnce`,
`NothingForgiven`, and `MemoryTyped` for `MemoryTypeOK`, for all images, safety contexts, limits,
strides and window lengths. The assumptions are that limits are naturals, a window has a frame, and
positions, variances and ages are numbers (`ObjectStateAssumption`, `MemoryAssumption`).
`RememberedIsFresh` speaks of valid memories only and is not inductive: a memory that was invalid for
a while can become valid again by a clean update that keeps what it had. `MemoryOK` says of *every*
remembered position that its variance has grown with all the time since its image, and what the mode
and the reasons say of each other. `WindowOK` adds the high-water marks, so that an image that was
left out of the window cannot come back into it; `DecisionOK` keeps what a pending decision was
when it was staged. Every call either keeps the image it remembers (`KeptState`) or writes a later one
(`WrittenState`); the two action properties follow from that distinction (`MemoryStep`).

`ActiveFrontSupervisorProofs`: `FailuresLast`, `ResumesFresh`, `CameraHasOwner`,
`CommitsOnlyUntouched`, for every length of the barrier. `SupervisorInvariant` adds where the camera
is in each state (`Whereabouts`), that barrier frames are collected in one state and complete in the
later ones (`Barrier`), which states have their receipts (`Receipts`), and that whichever call
hears of contact also closes the latch (`Latched`).

`ActiveFrontMemoryProofs`: `LeaseEndsAtHome`, `MemoryAccounted`, `NobodyOverwritten`,
`CommitWasSeen`, and the refinement `OrchestratorRefines`. `ControlInvariant` ties lease, barrier
and verdict to the stage; its one surprise is that a candidate that expires on the way home
forbids the write before the stage tells (`Fate`). The refinement is step by step: each call is
the abstract step its lemma names (`RequireReturnPromises`, `FailedHoldPromises`, ...) or a
stutter. `CommitWasSeen` needs the order of all times recorded so far, since nothing makes the
callers' clock run forward.

`CandidatePoolProofs`: `FilesTellTheRecords`, `EachSeedRunsOnce`, `ResumesWhenUndamaged`, and the
refinement `PoolKeepsPopulation`, for any number of runners, seeds and kills. `PoolInvariant`
says how far the runner that holds the lock may be apart from the directories and the derived
files at each of its steps (`Advance`), how far the files may be apart from each other (`Disk`,
the part that makes every interruption resumable), and that all rows, in memory and on disk, say
what the records say (`Told`); rows of the same length are then the same rows (`SameRows`), which
is why a resume's comparison succeeds. `LeftoversAreSwept` says that whatever temporary files a
kill left, `Load` removes them all, which a resume requires.

`LocalDaggerProofs`: `TakesOverAtBoundary`, `WithinBudgets`, `SignalsAgree`, for all budgets and
chunk lengths. `PolicyActs` is the heart: every event the policy's controller has to stop at is
one for which a stop has been requested, and conversely. A settle action that ends the session does
not keep the target behind it from being sent: hence the `done` in `BudgetsHold`.

`Stage1TrainingProofs`: `BestOfRun` and `OneStoryOfRun`, for any number of epochs, losses and
intervals. `Sizes` says how many epochs the logs, the trainer and the checkpoints are apart at
each step; `Story` compares best losses: of `best.pt` against all that a resume could start from
(`BestLow`), of the trainer against `best.pt` (`StateLow`), and of a checkpoint a resume would
take against the metrics (`ResumeLow`).

Only model-checked: liveness (`NominalEvidenceFinishes`, `RestorationEnds`, `Finishes`), since
fairness and ENABLED are out of the prover's reach. The two findings are counterexamples and stay with
TLC.

## 5. Not modelled

* Neural networks, losses, optimisation, detection, geometry and other arithmetic on floats: they
  have no protocol. Thresholds are modelled where a state machine turns on them.
* JSON round trips, schemas and hashes: a digest of a thing is the thing.
* Offline analyses, diagnostics, experiments and scripts: they read files, compute and write, once
  and in order.
* Checkpoint sweeps and selection: sequential calls and comparisons of numbers. They resume from
  complete results only.
* Trajectory data: a writer that publishes by renaming, as the candidate's publisher in
  `CandidatePool`; sampling draws numbers.
* Precision control, shadow and provider: the authorisation of a command is a function of
  measurements at one tick; its ledger only grows.
* The first pool command (`cli/collect_local_dagger_pool.py`), which the amended one replaces and
  which has no lock; `--init-checkpoint`, the overfit and the measuring modes of training; two
  trainers on one output, against which the code has no lock.
* In the supervisor and the orchestrator the camera's own motion; in the executive
  `replay_ledger_jsonl`; in the observer the estimator and the derivation of predicates.

What could come next: the supervisor composed with the orchestrator and with the loop's pause, which
the code does not connect yet; an abstract specification of the observer (a ledger and the executive
at its end) for the observer to refine, on the trail of `Retold`.
