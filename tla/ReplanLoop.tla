------------------------------ MODULE ReplanLoop ------------------------------
(***************************************************************************)
(* QwenVLAReplanLoop with its chunk executor and temporal ensemble, driven *)
(* by a rollout: infer a chunk, execute a prefix of it step by step,       *)
(* infer again.  The loop keeps action history across chunks (ensemble     *)
(* proposals, the previous RTC chunk, the command reference) and must      *)
(* forget it whenever the robot has moved other than by its commands.      *)
(*                                                                         *)
(* Two clocks tick.  env.step counts every step of the environment, holds  *)
(* included (environment_steps); controlStep counts only commands of       *)
(* executed chunks.  The fields named env of the loop's own records are    *)
(* history: the value of env.step when the record was made.                *)
(***************************************************************************)
EXTENDS Integers, FiniteSets

CONSTANTS
  Drivers,            (* who drives the loop, and how it was built: see DriverType *)
  ActionHorizon,      (* RobotSpec.action_horizon                                 *)
  ExecuteSteps,       (* RobotSpec.execute_steps                                  *)
  WindowLength,       (* OBSERVATION_HISTORY_LENGTH, the frames a resume needs    *)
  MaxGeneration       (* bound on _history_generation: pauses plus resets         *)

AnyFault == {"read", "inference", "compose", "observation", "chunk_safety", "step_safety",
             "controller_step", "saturation", "veto", "stop", "hold"}

\* The inference strategy and the anomaly budget the loop was built with, the length of an
\* episode, what may go wrong or interrupt a chunk, and whether the caller pauses and clears.
DriverType ==
  [strategy : {"newest-only", "temporal-ensemble", "rtc"}, anomalyReplans : Nat,
   episodeSteps : Nat \ {0}, faults : SUBSET AnyFault, pausing : BOOLEAN]

ASSUME DriverAssumption == Drivers \subseteq DriverType /\ Drivers # {}

ASSUME HorizonAssumption ==
  /\ ExecuteSteps \in Nat \ {0}
  /\ ActionHorizon \in Nat
  /\ ExecuteSteps <= ActionHorizon
  /\ WindowLength \in Nat \ {0}
  /\ MaxGeneration \in Nat

VARIABLES
  driver,       (* the member of Drivers this loop runs under                    *)
  chunks,       (* ensembler._chunks: what they proposed is left out             *)
  rtc,          (* _rtc_previous_chunk                                           *)
  reference,    (* whether executor._previous_command_q is set                   *)
  controlStep,  (* control_step                                                  *)
  anomalies,    (* _consecutive_anomaly_replans                                  *)
  pause,        (* _observation_pause                                            *)
  generation,   (* _history_generation                                           *)
  mode,         (* where replan_and_execute is; "failed" once it gave up         *)
  current,      (* the chunk being executed                                      *)
  executed,     (* executed_steps                                                *)
  resuming,     (* the generation of the pause being resumed, or NotResuming     *)
  replans,      (* replans of the rollout; numbers the chunks                    *)
  env,          (* the environment: steps, done, what moved the robot last       *)
  tokens,       (* ObservationPause objects the caller has been given            *)
  spent,        (* history: generations whose pause has been resumed             *)
  accepted      (* history: the latest window a resume accepted                  *)

history == <<chunks, rtc, reference>>
vars == <<driver, chunks, rtc, reference, controlStep, anomalies, pause, generation, mode,
          current, executed, resuming, replans, env, tokens, spent, accepted>>

NoChunk     == [id |-> 0, origin |-> 0, env |-> 0]
NoPause     == [generation |-> 0, step |-> 0, env |-> 0, given |-> FALSE]
NotResuming == 0
NoWindow    == [last |-> 1, paused |-> 0]

strategy          == driver.strategy
Faults            == driver.faults
Pausing           == driver.pausing
MaxAnomalyReplans == driver.anomalyReplans  (* max_anomaly_replans                  *)
MaxEpisodeSteps   == driver.episodeSteps    (* env._max_episode_steps               *)
MaxReplans        == MaxEpisodeSteps + 1

NewEnv == [step |-> 0, done |-> FALSE, last |-> "reset"]

\* _TrackingManiSkillController.send_action: a finished environment ignores the action,
\* any other step may end the episode and the last one does.
Sent(e, kind) ==
  IF e.done THEN {e}
  ELSE {[step |-> e.step + 1, done |-> d, last |-> kind] :
          d \in {TRUE, e.step + 1 >= MaxEpisodeSteps}}

\* hold_current: one more step of the environment, unless the hold itself fails.
Held(e) == Sent(e, "hold") \cup (IF "hold" \in Faults THEN {e} ELSE {})

-----------------------------------------------------------------------------
(* The three ways replan_and_execute can end *)

\* Mutant: an anomaly keeps the proposals made before it.
ForgetAllButChunks == rtc' = NoChunk /\ reference' = FALSE /\ UNCHANGED chunks

Forget == chunks' = {} /\ rtc' = NoChunk /\ reference' = FALSE

\* Control goes back to the caller after n executed steps of the chunk.
GiveBack(n, next) ==
  /\ controlStep' = controlStep + n
  /\ executed' = 0
  /\ current' = NoChunk
  /\ mode' = next
  /\ resuming' = NotResuming
  /\ UNCHANGED <<driver, generation, replans, tokens, spent, accepted>>

\* resume_after_observation: a replan that did not succeed cleanly pauses again, under
\* a new ObservationPause that nobody is given.
PauseAgain(n) ==
  pause' = [generation |-> resuming, step |-> controlStep + n, env |-> env'.step, given |-> FALSE]

ReturnClean(n) ==
  /\ GiveBack(n, "idle")
  /\ anomalies' = 0
  /\ rtc' = IF strategy = "rtc" THEN current ELSE rtc
  /\ UNCHANGED <<chunks, pause>>

Exhausted == MaxAnomalyReplans = 0 \/ anomalies >= MaxAnomalyReplans

\* _handle_anomaly: forget the history; give up when the budget is spent.
ReturnAnomaly(n) ==
  /\ GiveBack(n, IF Exhausted THEN "failed" ELSE "idle")
  /\ Forget
  /\ anomalies' = IF MaxAnomalyReplans = 0 THEN anomalies ELSE anomalies + 1
  /\ IF resuming # NotResuming THEN PauseAgain(n) ELSE UNCHANGED pause

\* A failure that is no anomaly stops the rollout; only a resume clears the plans then.
ReturnFailed(n) ==
  /\ GiveBack(n, "failed")
  /\ reference' = FALSE
  /\ UNCHANGED anomalies
  /\ IF resuming # NotResuming
       THEN PauseAgain(n) /\ chunks' = {} /\ rtc' = NoChunk
       ELSE UNCHANGED <<pause, chunks, rtc>>

-----------------------------------------------------------------------------
(* replan_and_execute: inference *)

\* The rollout asks for the next chunk while neither done nor failed.
Replan ==
  /\ mode = "idle"
  /\ pause = NoPause
  /\ ~env.done
  /\ replans < MaxReplans
  /\ mode' = "infer"
  /\ replans' = replans + 1
  /\ UNCHANGED <<driver, history, controlStep, anomalies, pause, generation, current,
                 executed, resuming, env, tokens, spent, accepted>>

\* Building the observation of a replan raises: the rollout holds the robot and stops, and
\* the loop, which was not called, keeps what it remembers.
ReadFails ==
  /\ mode = "idle"
  /\ ~env.done
  /\ replans < MaxReplans
  /\ "read" \in Faults
  /\ env' \in Held(env)
  /\ mode' = "failed"
  /\ replans' = replans + 1
  /\ UNCHANGED <<driver, history, controlStep, anomalies, pause, generation, current,
                 executed, resuming, tokens, spent, accepted>>

\* _rtc_previous_overlap: the previous chunk overlaps only if exactly its prefix was executed.
Overlap ==
  IF strategy = "rtc" /\ controlStep - rtc.origin # ExecuteSteps THEN NoChunk ELSE rtc

Proposal == [id |-> replans, origin |-> controlStep, env |-> env.step]

\* Mutant: chunks that no longer reach the present stay in the buffer.
ComposedKeepingAll ==
  IF strategy = "temporal-ensemble" THEN chunks \cup {Proposal} ELSE chunks

\* add_and_compose: drop the chunks that no longer reach the present, add the newest.
Composed ==
  IF strategy = "temporal-ensemble"
    THEN {c \in chunks : c.origin + ActionHorizon > controlStep} \cup {Proposal}
    ELSE chunks

Infer ==
  /\ mode = "infer"
  /\ mode' = "chunk"
  /\ rtc' = Overlap
  /\ chunks' = Composed
  /\ current' = Proposal
  /\ UNCHANGED <<driver, reference, controlStep, anomalies, pause, generation, executed,
                 resuming, replans, env, tokens, spent, accepted>>

InferenceFails ==
  /\ mode = "infer"
  /\ "inference" \in Faults
  /\ env' \in Held(env)
  /\ ReturnAnomaly(0)

\* An exception of the ensemble or of the action adapter reaches the caller.  A resume
\* clears the history and pauses again; otherwise what was composed stays.
ComposeRaises ==
  /\ mode = "infer"
  /\ "compose" \in Faults
  /\ strategy = "temporal-ensemble"
  /\ GiveBack(0, "failed")
  /\ UNCHANGED <<anomalies, env>>
  /\ IF resuming # NotResuming
       THEN PauseAgain(0) /\ Forget
       ELSE chunks' \in {chunks, Composed} /\ UNCHANGED <<pause, rtc, reference>>

-----------------------------------------------------------------------------
(* RecedingHorizonChunkExecutor.execute, one step at a time *)

\* initial_observation or step_observation.
ObservationFails ==
  /\ mode = "chunk"
  /\ "observation" \in Faults
  /\ env' \in Held(env)
  /\ ReturnFailed(executed)

ChunkUnsafe ==
  /\ mode = "chunk"
  /\ "chunk_safety" \in Faults
  /\ executed = 0
  /\ env' \in Held(env)
  /\ ReturnAnomaly(0)

StepUnsafe ==
  /\ mode = "chunk"
  /\ "step_safety" \in Faults
  /\ env' \in Held(env)
  /\ ReturnAnomaly(executed)

\* should_interrupt_before_action: the action is not sent and not counted.
Veto ==
  /\ mode = "chunk"
  /\ "veto" \in Faults
  /\ reference' = FALSE
  /\ UNCHANGED env
  /\ ReturnClean(executed)

\* The controller raises, before or after the environment took the step, and is held.
ControllerFails ==
  /\ mode = "chunk"
  /\ "controller_step" \in Faults
  /\ \E e \in {env} \cup Sent(env, "command") : env' \in Held(e)
  /\ ReturnFailed(executed)

\* The correction was clipped: the target was not commanded, so it is no reference.
SaturatedStep ==
  /\ mode = "chunk"
  /\ "saturation" \in Faults
  /\ env' \in Sent(env, "clipped")
  /\ ReturnAnomaly(executed + 1)

SendStep ==
  /\ mode = "chunk"
  /\ executed + 1 < ExecuteSteps
  /\ env' \in Sent(env, "command")
  /\ executed' = executed + 1
  /\ reference' = TRUE
  /\ UNCHANGED <<driver, chunks, rtc, controlStep, anomalies, pause, generation, mode, current,
                 resuming, replans, tokens, spent, accepted>>

\* The last step of the prefix, or one after which chunk_stop_requested is set.
SendLast ==
  /\ mode = "chunk"
  /\ executed + 1 = ExecuteSteps \/ "stop" \in Faults
  /\ env' \in Sent(env, "command")
  /\ reference' = TRUE
  /\ ReturnClean(executed + 1)

-----------------------------------------------------------------------------
(* The caller between two replans *)

AtBoundary == mode \in {"idle", "failed"}

ClearActionHistory ==
  /\ Pausing
  /\ AtBoundary
  /\ Forget
  /\ UNCHANGED <<driver, controlStep, anomalies, pause, generation, mode, current, executed,
                 resuming, replans, env, tokens, spent, accepted>>

PauseForObservation ==
  /\ Pausing
  /\ AtBoundary
  /\ pause = NoPause
  /\ generation < MaxGeneration
  /\ generation' = generation + 1
  /\ pause' = [generation |-> generation + 1, step |-> controlStep, env |-> env.step, given |-> TRUE]
  /\ tokens' = tokens \cup {generation + 1}
  /\ anomalies' = 0
  /\ Forget
  /\ UNCHANGED <<driver, controlStep, mode, current, executed, resuming, replans, env, spent,
                 accepted>>

\* While paused the caller holds the robot and moves the camera.
CallerHolds ==
  /\ Pausing
  /\ AtBoundary
  /\ pause # NoPause
  /\ env' \in Sent(env, "hold")
  /\ UNCHANGED <<driver, history, controlStep, anomalies, pause, generation, mode, current,
                 executed, resuming, replans, tokens, spent, accepted>>

\* Mutant: pauses are compared by generation, not by identity.
IsPauseOfGeneration(token) == token = pause.generation

\* The identity test on the ObservationPause the caller brings back.
IsThePause(token) == pause.given /\ token = pause.generation

\* resume_after_observation with WindowLength consecutive frames, the last one taken at
\* env step w: the clock is set to that step and a replan follows.  Neither a failed rollout
\* nor a finished environment is looked at; replans is bounded for the model only.
Resume(token, w) ==
  /\ Pausing
  /\ AtBoundary
  /\ pause # NoPause
  /\ replans < MaxReplans
  /\ IsThePause(token)
  /\ w - (WindowLength - 1) > pause.step
  /\ ~reference /\ chunks = {} /\ rtc = NoChunk
  /\ controlStep' = w
  /\ pause' = NoPause
  /\ resuming' = pause.generation
  /\ mode' = "infer"
  /\ replans' = replans + 1
  /\ spent' = spent \cup {token}
  /\ accepted' = [last |-> w, paused |-> pause.env]
  /\ UNCHANGED <<driver, history, anomalies, generation, current, executed, env, tokens>>

\* The next episode: the environment and the loop are reset.
Reset ==
  /\ AtBoundary
  /\ generation < MaxGeneration
  /\ generation' = generation + 1
  /\ Forget
  /\ env' = NewEnv
  /\ controlStep' = 0
  /\ anomalies' = 0
  /\ pause' = NoPause
  /\ mode' = "idle"
  /\ replans' = 0
  /\ UNCHANGED <<driver, current, executed, resuming, tokens, spent, accepted>>

-----------------------------------------------------------------------------
(* Specification *)

Init ==
  /\ driver \in Drivers
  /\ chunks = {}
  /\ rtc = NoChunk
  /\ reference = FALSE
  /\ controlStep = 0
  /\ anomalies = 0
  /\ pause = NoPause
  /\ generation = 0
  /\ mode = "idle"
  /\ current = NoChunk
  /\ executed = 0
  /\ resuming = NotResuming
  /\ replans = 0
  /\ env = NewEnv
  /\ tokens = {}
  /\ spent = {}
  /\ accepted = NoWindow

Execute ==
  \/ Replan           \/ ReadFails    \/ Infer         \/ InferenceFails
  \/ ComposeRaises    \/ Veto         \/ ChunkUnsafe   \/ StepUnsafe
  \/ ObservationFails \/ SendStep     \/ SaturatedStep \/ ControllerFails
  \/ SendLast

Caller ==
  \/ ClearActionHistory \/ PauseForObservation \/ CallerHolds \/ Reset
  \/ \E token \in tokens, w \in (WindowLength - 1)..env.step : Resume(token, w)

Next == Execute \/ Caller

Spec == Init /\ [][Next]_vars

-----------------------------------------------------------------------------
(* Properties *)

ChunkType == [id : Nat, origin : Nat, env : Nat]

\* The loop's records have their types, and a chunk is under way exactly in mode "chunk".
LoopTypeOK ==
  /\ driver \in Drivers
  /\ chunks \subseteq ChunkType
  /\ rtc \in ChunkType
  /\ reference \in BOOLEAN
  /\ controlStep \in Nat
  /\ anomalies \in Nat
  /\ pause \in [generation : Nat, step : Nat, env : Nat, given : BOOLEAN]
  /\ generation \in Nat
  /\ mode \in {"idle", "infer", "chunk", "failed"}
  /\ current \in ChunkType
  /\ executed \in 0..(ExecuteSteps - 1)
  /\ mode # "chunk" => current = NoChunk /\ executed = 0
  /\ resuming \in Nat
  /\ replans \in 0..MaxReplans
  /\ env \in [step : Nat, done : BOOLEAN, last : {"reset", "command", "clipped", "hold"}]
  /\ tokens \subseteq Nat
  /\ spent \subseteq tokens
  /\ accepted \in [last : Nat, paused : Nat]

\* Every plan the loop may still mix into an action is aligned with the robot: since it
\* was proposed, the environment has taken exactly the steps the control clock counted.
\* A hold, a lost step or a clipped plan that was not forgotten would shift it in time.
AlignedHistory ==
  mode \in {"idle", "infer"} /\ ~env.done =>
    /\ \A c \in chunks : controlStep - c.origin = env.step - c.env
    /\ rtc # NoChunk => controlStep - rtc.origin = env.step - rtc.env

\* A command reference survives only while the last thing that moved the robot was an
\* unclipped command of the executor: no hold, reset or saturation in between.  (A rollout
\* that stopped because it could not read the robot keeps its reference and never uses it.)
ReferenceWasCommanded ==
  reference /\ mode # "failed" /\ ~env.done => env.last = "command"

\* A paused loop keeps nothing of the plans made before the pause, and executes nothing.
PausedIsClean ==
  pause # NoPause =>
    AtBoundary /\ chunks = {} /\ rtc = NoChunk /\ ~reference

\* No pause is resumed twice, whichever old ObservationPause the caller brings back and
\* however its resume ended.
ResumedOnce ==
  [][ \A token \in tokens :
        AtBoundary /\ mode' = "infer" /\ resuming' = token => token \notin spent ]_vars

\* What the loop remembers of the past is true of the robot, after every fault, hold,
\* interruption, pause, resume and reset of replan_and_execute and its callers.
HistoryHolds == AlignedHistory /\ ReferenceWasCommanded /\ PausedIsClean

BufferBounded == Cardinality(chunks) * ExecuteSteps < ActionHorizon + ExecuteSteps

EndsForAReason ==
  "hold" \notin Faults => (mode = "idle" /\ ~env.done => replans < MaxReplans)

\* A driver whose controller neither interrupts a chunk nor pauses the loop.
PlainRollout == ~Pausing /\ Faults \cap {"veto", "stop"} = {}

\* Driven by a rollout, which neither pauses nor interrupts, the ensemble mixes at most the
\* chunks one horizon can hold; and the rollout stops because the episode is done or because
\* a failure is reported: as long as every hold reaches the environment, it never just runs
\* out of the replans reserved for it.
RolloutBounded == PlainRollout => BufferBounded /\ EndsForAReason

\* Violated by the code: a window accepted by a resume does not lie wholly before the
\* pause, its newest frame was taken after it.
FreshAfterPause == accepted.last > accepted.paused
=============================================================================
