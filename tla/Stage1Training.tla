--------------------------- MODULE Stage1Training ---------------------------
(***************************************************************************)
(* A stage-1 training run and what it leaves on disk (cli/train_stage1.py, *)
(* training/stage1.py, training/checkpoint.py): checkpoints, each replaced *)
(* atomically, and two logs that only grow.  The process can stop between  *)
(* any two writes, and is resumed by hand from a checkpoint of the run.    *)
(*                                                                         *)
(* Weights and generators are left out: the state of the trainer is what   *)
(* every epoch it is made of scored in validation.  An epoch that is run   *)
(* again need not score the same.                                          *)
(***************************************************************************)
EXTENDS Naturals, Sequences

CONSTANTS
  Epochs,               \* --epochs
  Batches,              \* micro-batches of an epoch
  Accumulation,         \* gradient_accumulation_steps
  IntervalSteps,        \* checkpoint_interval_steps
  Losses,               \* validation losses, ordered numbers
  MaxStops              \* bound: how often the process stops

ASSUME TrainingAssumption ==
  /\ {Epochs, Batches, Accumulation, IntervalSteps} \subseteq Nat \ {0}
  /\ Losses \subseteq Nat \ {0} /\ Losses # {} /\ MaxStops \in Nat

VARIABLES
  every,       \* --checkpoint-every-epochs
  at,          \* where run() is
  state,       \* the trainer: the validation losses of its epochs, and its best
  improved,    \* whether the last validation did
  experiment,  \* experiment.json: "absent", "partial" or "written"
  latest, best,            \* the state in latest.pt and in best.pt: a set of one, or none yet
  periodic,                \* the same for step-N.pt, by the epochs N stands for
  metrics, exposure,       \* losses in metrics.jsonl, and how many epochs sampler_exposure.jsonl has
  ended,       \* whether the last line of sampler_exposure.jsonl has its newline
  fromBest,    \* history: whether the run was ever resumed from best.pt
  stops        \* times the process stopped

checkpointVars == <<latest, best, periodic>>
logVars == <<metrics, exposure, ended>>
runVars == <<every, fromBest, stops>>
trainingVars == <<at, state, improved, experiment, checkpointVars, logVars, runVars>>

\* A line whose write was cut short; no reader of the log gets past it.
Torn == 0

\* best_validation_loss before any validation
NoLoss == 0
NewState == [losses |-> <<>>, best |-> NoLoss]

\* _finish_accumulation_group is called for every full group and for the rest.
StepsPerEpoch == (Batches + Accumulation - 1) \div Accumulation

CompletedEpochs(s) == Len(s.losses)
OptimizerSteps(s) == CompletedEpochs(s) * StepsPerEpoch

-----------------------------------------------------------------------------
(* Starting *)

\* A new run wants an empty output.
StartFresh ==
  /\ at = "off" /\ experiment = "absent"
  /\ at' = "experiment"
  /\ state' = NewState
  /\ UNCHANGED <<improved, experiment, checkpointVars, logVars, runVars>>

\* experiment.json is written in place.
WriteExperiment ==
  /\ at = "experiment"
  /\ experiment' = "written"
  /\ at' = "train"
  /\ UNCHANGED <<state, improved, checkpointVars, logVars, runVars>>

Periodics == UNION {periodic[n] : n \in DOMAIN periodic}
Checkpoints == latest \cup best \cup Periodics

\* Mutant: the logs may be ahead of the checkpoint.
LogsReach(s) == Len(metrics) >= CompletedEpochs(s)

\* _validate_resume_artifacts: both logs are those of the checkpoint's epochs, to the line.
LogsAgree(s) ==
  /\ Len(metrics) = CompletedEpochs(s) /\ exposure = CompletedEpochs(s)
  /\ \A n \in DOMAIN metrics : metrics[n] # Torn

\* Mutant: the best loss of an earlier process is forgotten.
RestoredAfresh(c) == [c EXCEPT !.best = NoLoss]

\* load_stage1_checkpoint
Restored(c) == c

\* --resume from a checkpoint of this run; both logs must exist.
Resume ==
  /\ at = "off" /\ experiment = "written"
  /\ metrics # <<>> /\ exposure # 0
  /\ \E c \in Checkpoints :
       /\ LogsAgree(c)
       /\ CompletedEpochs(c) < Epochs
       /\ state' = Restored(c)
       /\ fromBest' = (fromBest \/ c \notin latest \cup Periodics)
  /\ at' = "train"
  /\ UNCHANGED <<every, improved, experiment, checkpointVars, logVars, stops>>

-----------------------------------------------------------------------------
(* One epoch *)

Better(loss) == state.best = NoLoss \/ loss < state.best

\* _should_save_checkpoint
ShouldSave(epoch, better) == better \/ epoch % every = 0 \/ epoch = Epochs

\* train_epoch, then validate, which also moves the best loss.
TrainAndValidate ==
  /\ at = "train" /\ CompletedEpochs(state) < Epochs
  /\ \E loss \in Losses :
       /\ state' = [losses |-> Append(state.losses, loss),
                    best   |-> IF Better(loss) THEN loss ELSE state.best]
       /\ improved' = Better(loss)
  /\ at' = IF ShouldSave(CompletedEpochs(state'), improved') THEN "latest" ELSE "metrics"
  /\ UNCHANGED <<experiment, checkpointVars, logVars, runVars>>

\* save_stage1_checkpoint_set: latest.pt first; the others are hard links to it.
SaveLatest ==
  /\ at = "latest"
  /\ latest' = {state}
  /\ at' = IF OptimizerSteps(state) % IntervalSteps = 0 THEN "periodic"
           ELSE IF improved THEN "best" ELSE "metrics"
  /\ UNCHANGED <<state, improved, experiment, best, periodic, logVars, runVars>>

LinkPeriodic ==
  /\ at = "periodic"
  /\ periodic' = [periodic EXCEPT ![CompletedEpochs(state)] = latest]
  /\ at' = IF improved THEN "best" ELSE "metrics"
  /\ UNCHANGED <<state, improved, experiment, latest, best, logVars, runVars>>

LinkBest ==
  /\ at = "best"
  /\ best' = latest
  /\ at' = "metrics"
  /\ UNCHANGED <<state, improved, experiment, latest, periodic, logVars, runVars>>

AppendMetric ==
  /\ at = "metrics"
  /\ metrics' = Append(metrics, state.losses[CompletedEpochs(state)])
  /\ at' = "exposure"
  /\ UNCHANGED <<state, improved, experiment, checkpointVars, exposure, ended, runVars>>

\* After a line without its newline the two become one that nobody can read: the log stays
\* behind the metrics for good, and every later resume refuses it.
AppendExposure ==
  /\ at = "exposure"
  /\ exposure' = IF ended THEN exposure + 1 ELSE exposure
  /\ ended' = TRUE
  /\ at' = IF CompletedEpochs(state) = Epochs THEN "done" ELSE "train"
  /\ UNCHANGED <<state, improved, experiment, checkpointVars, metrics, runVars>>

-----------------------------------------------------------------------------
(* Stopping *)

\* The process is killed, or an exception ends it: the gradients are not finite, the disk is
\* full.  What it was writing in place can be cut short: a cut line of exposure refuses every
\* resume as a missing one does, unless nothing but its newline was cut.  (The metrics are then
\* one ahead of exposure, and not resumed from either way.)
Stop ==
  /\ at \notin {"off", "done"} /\ stops < MaxStops
  /\ stops' = stops + 1
  /\ at' = "off"
  /\ \/ UNCHANGED <<experiment, logVars>>
     \/ at = "experiment" /\ experiment' = "partial" /\ UNCHANGED logVars
     \/ at = "metrics" /\ metrics' = Append(metrics, Torn) /\ UNCHANGED <<experiment, exposure, ended>>
     \/ at = "exposure" /\ exposure' = exposure + 1 /\ ended' = FALSE /\ UNCHANGED <<experiment, metrics>>
  /\ UNCHANGED <<every, fromBest, state, improved, checkpointVars>>

Init ==
  /\ every \in 1..Epochs
  /\ at = "off" /\ state = NewState /\ improved = FALSE
  /\ experiment = "absent"
  /\ latest = {} /\ best = {} /\ periodic = [n \in 1..Epochs |-> {}]
  /\ metrics = <<>> /\ exposure = 0 /\ ended = TRUE
  /\ fromBest = FALSE /\ stops = 0

Next ==
  \/ StartFresh \/ WriteExperiment \/ Resume \/ TrainAndValidate
  \/ SaveLatest \/ LinkPeriodic \/ LinkBest \/ AppendMetric \/ AppendExposure
  \/ Stop

Spec == Init /\ [][Next]_trainingVars

-----------------------------------------------------------------------------
(* Properties *)

Lines == {n \in DOMAIN metrics : metrics[n] # Torn}

TypeOK ==
  /\ every \in 1..Epochs /\ stops \in 0..MaxStops /\ fromBest \in BOOLEAN
  /\ at \in {"off", "experiment", "train", "latest", "periodic", "best", "metrics", "exposure", "done"}
  /\ improved \in BOOLEAN
  /\ experiment \in {"absent", "partial", "written"}
  /\ \A s \in {state} \cup Checkpoints :
       s.losses \in Seq(Losses) /\ s.best \in Losses \cup {NoLoss}
  /\ metrics \in Seq(Losses \cup {Torn}) /\ exposure \in 0..Epochs /\ ended \in BOOLEAN

\* Whoever evaluates best.pt of a run that saves every epoch (the default) gets the best epoch
\* of that run: once the metrics name an epoch, best.pt exists, and no epoch they name scored
\* better, however often the run was stopped and from whatever checkpoint it went on.
BestIsBest ==
  every = 1 /\ Lines # {} =>
    /\ best # {}
    /\ \A b \in best, n \in Lines : b.losses[CompletedEpochs(b)] <= metrics[n]

\* Such a run tells one story, if nobody resumes it from
\* best.pt: the checkpoints of the epochs that the metrics name are made of those epochs.
RecordedStates ==
  every = 1 /\ ~fromBest =>
    \A c \in latest \cup Periodics :
      CompletedEpochs(c) <= Len(metrics) =>
        \A n \in DOMAIN c.losses : metrics[n] \in {c.losses[n], Torn}
=============================================================================
