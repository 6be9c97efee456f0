------------------------- MODULE Stage1TrainingProofs -------------------------
(***************************************************************************)
(* Theorems about a stage-1 training run that may be stopped anywhere and  *)
(* resumed from any checkpoint it left: for every number of epochs, every  *)
(* interval of the periodic checkpoints, and any losses.                   *)
(***************************************************************************)
EXTENDS Stage1Training, TLAPS

Trainers == [losses : Seq(Losses), best : Losses \cup {NoLoss}]

\* What a trainer's best loss has to do with its epochs.
Sound(s) ==
  /\ s \in Trainers
  /\ s.losses = <<>> <=> s.best = NoLoss
  /\ s.losses # <<>> => s.best <= s.losses[Len(s.losses)]

Saving == {"latest", "periodic", "best", "metrics"}
Places == Saving \cup {"off", "experiment", "train", "exposure", "done"}

Aligned(n) == (n * StepsPerEpoch) % IntervalSteps = 0

Types ==
  /\ every \in 1..Epochs /\ at \in Places /\ improved \in BOOLEAN /\ fromBest \in BOOLEAN
  /\ Sound(state) /\ Len(state.losses) <= Epochs
  /\ \A s \in Checkpoints : Sound(s) /\ s.losses # <<>>
  /\ \A a, b \in latest : a = b
  /\ \A a, b \in best : a = b
  /\ periodic \in [1..Epochs -> SUBSET Trainers]
  /\ metrics \in Seq(Losses \cup {Torn})

\* How many epochs the logs and the checkpoints are apart.
Sizes ==
  /\ at \in {"train", "exposure", "done"} => Len(state.losses) = Len(metrics)
  /\ at \in Saving => Len(state.losses) = Len(metrics) + 1
  /\ experiment = "absent" => at \in {"off", "experiment"} /\ metrics = <<>> /\ Checkpoints = {}
  /\ at = "experiment" => experiment = "absent" /\ state = NewState
  /\ at # "off" => \A n \in DOMAIN metrics : metrics[n] # Torn
  /\ at \in {"periodic", "best"} => latest = {state}
  /\ at = "periodic" => Aligned(Len(state.losses))
  /\ \A s \in Checkpoints : Len(s.losses) <= Len(metrics) + 1
  /\ \A n \in 1..Epochs : \A s \in periodic[n] : Len(s.losses) = n /\ Aligned(n)

\* What has been saved of the epoch under way.
Saved ==
  /\ at = "metrics" => latest = {state}
  /\ at \in {"best", "metrics"} /\ Aligned(Len(state.losses)) =>
       periodic[Len(state.losses)] = {state}
  /\ at = "best" => improved
  /\ at = "metrics" /\ improved => best = {state}

Old(s) == Len(s.losses) <= Len(metrics)
Whole == \A n \in DOMAIN metrics : metrics[n] # Torn

\* The best loss of x is below what the metrics and the periodic checkpoints of their epochs say.
Lowest(x) ==
  /\ \A n \in Lines : x.best <= metrics[n]
  /\ \A p \in Periodics : Old(p) => x.best <= p.best

\* best.pt against everything a resume could start from.
BestLow ==
  /\ \A b \in best : b.best = b.losses[Len(b.losses)]
  /\ \A b \in best : \A n \in Lines : b.best <= metrics[n]
  /\ Lines # {} => best # {}
  /\ Whole => \A b \in best : \A x \in latest \cup Periodics : Old(x) => b.best <= x.best

\* The trainer against best.pt: only an epoch that improved may be better.
StateLow ==
  /\ at # "off" => Lowest(state)
  /\ at \in {"train", "exposure"} => \A b \in best : b.best <= state.best
  /\ at \in Saving /\ improved => state.best = state.losses[Len(state.losses)]
  /\ at \in Saving /\ ~improved => best # {} /\ \A b \in best : b.best <= state.best

ResumeLow == Whole => \A x \in Checkpoints : Len(x.losses) = Len(metrics) => Lowest(x)

Story == Saved /\ BestLow /\ StateLow /\ ResumeLow

TrainingInvariant == Types /\ Sizes /\ (every = 1 => Story)

-----------------------------------------------------------------------------
(* Appending to a sequence *)

LEMMA Appended ==
  ASSUME NEW S, NEW seq \in Seq(S), NEW x \in S
  PROVE  /\ Append(seq, x) \in Seq(S)
         /\ Len(Append(seq, x)) = Len(seq) + 1
         /\ Len(seq) \in Nat
         /\ Append(seq, x) # <<>>
         /\ \A i \in 1..Len(seq) : Append(seq, x)[i] = seq[i]
         /\ Append(seq, x)[Len(seq) + 1] = x
         /\ DOMAIN seq = 1..Len(seq) /\ DOMAIN Append(seq, x) = 1..Len(seq) + 1
  OBVIOUS

LEMMA Nothing == ASSUME NEW S PROVE <<>> \in Seq(S) /\ Len(<<>>) = 0 /\ DOMAIN <<>> = {}
  OBVIOUS

LEMMA Length == ASSUME NEW S, NEW seq \in Seq(S)
                PROVE Len(seq) \in Nat /\ DOMAIN seq = 1..Len(seq) /\ (seq = <<>> <=> Len(seq) = 0)
  OBVIOUS

LEMMA NewIsSound == Sound(NewState) /\ Len(NewState.losses) = 0
  <1>1. NewState.losses = <<>> /\ NewState.best = NoLoss /\ NewState \in Trainers
    BY Nothing DEF NewState, Trainers
  <1> QED BY <1>1, Nothing DEF Sound

\* One more epoch, if it is better or if it is not.
LEMMA EpochIsSound ==
  ASSUME NEW s, Sound(s), NEW loss \in Losses, NEW t,
         t = [losses |-> Append(s.losses, loss),
              best |-> IF s.best = NoLoss \/ loss < s.best THEN loss ELSE s.best]
  PROVE  /\ Sound(t) /\ t.losses # <<>> /\ t.best \in Losses
         /\ Len(t.losses) = Len(s.losses) + 1
         /\ t.losses[Len(t.losses)] = loss
         /\ s.best # NoLoss => t.best <= s.best
  <1>1. s.losses \in Seq(Losses) /\ s.best \in Losses \cup {NoLoss}
    BY DEF Sound, Trainers
  <1>2. (\A x \in Losses : x \in Nat /\ x # 0) /\ NoLoss = 0
    BY TrainingAssumption DEF NoLoss
  <1>3. /\ t.losses = Append(s.losses, loss)
        /\ t.best = IF s.best = NoLoss \/ loss < s.best THEN loss ELSE s.best
    OBVIOUS
  <1>4. t.best \in Losses /\ t.best <= loss /\ (s.best # NoLoss => t.best <= s.best)
    <2>1. loss \in Nat
      BY <1>2
    <2>2. CASE s.best = NoLoss \/ loss < s.best
      <3>1. t.best = loss
        BY <2>2, <1>3
      <3>2. s.best \in Nat
        BY <1>1, <1>2
      <3>3. s.best # NoLoss => loss < s.best
        BY <2>2
      <3> QED BY <2>1, <3>1, <3>2, <3>3
    <2>3. CASE ~(s.best = NoLoss \/ loss < s.best)
      <3>1. t.best = s.best /\ s.best \in Losses /\ s.best \in Nat
        BY <2>3, <1>1, <1>2, <1>3
      <3> QED BY <2>1, <2>3, <3>1
    <2> QED BY <2>2, <2>3
  <1>5. /\ t.losses \in Seq(Losses) /\ t.losses # <<>> /\ Len(t.losses) = Len(s.losses) + 1
        /\ t.losses[Len(t.losses)] = loss
    BY <1>1, <1>3, Appended
  <1>6. t \in Trainers
    <2>1. t = [losses |-> t.losses, best |-> t.best] /\ t.best \in Losses \cup {NoLoss}
      BY <1>4
    <2> QED BY <1>5, <2>1 DEF Trainers
  <1> QED BY <1>2, <1>4, <1>5, <1>6 DEF Sound

LEMMA InvariantInit == Init => TrainingInvariant
  <1> SUFFICES ASSUME Init PROVE TrainingInvariant
    OBVIOUS
  <1>1. Periodics = {} /\ Checkpoints = {} /\ Lines = {}
    BY Nothing DEF Init, Periodics, Checkpoints, Lines
  <1>2. Types
    <2>1. Sound(state) /\ Len(state.losses) <= Epochs
      BY NewIsSound, TrainingAssumption DEF Init
    <2>2. metrics \in Seq(Losses \cup {Torn}) /\ periodic \in [1..Epochs -> SUBSET Trainers]
      BY Nothing DEF Init
    <2> QED BY <1>1, <2>1, <2>2 DEF Init, Types, Places
  <1>3. Sizes
    BY <1>1, Nothing DEF Init, Sizes, Saving
  <1>4. Story
    BY <1>1 DEF Init, Story, Saved, BestLow, StateLow, ResumeLow, Saving
  <1> QED BY <1>2, <1>3, <1>4 DEF TrainingInvariant

-----------------------------------------------------------------------------
(* Steps that leave checkpoints and metrics alone *)

LEMMA Numbers ==
  /\ \A x \in Losses : x \in Nat /\ x # 0
  /\ NoLoss = 0 /\ Torn = 0 /\ Epochs \in Nat \ {0}
  BY TrainingAssumption DEF NoLoss, Torn

LEMMA SoundNumbers == ASSUME NEW s, Sound(s) PROVE Len(s.losses) \in Nat /\ s.best \in Nat
  <1>1. s.losses \in Seq(Losses) /\ s.best \in Losses \cup {NoLoss}
    BY DEF Sound, Trainers
  <1> QED BY <1>1, Length, Numbers

LEMMA Unmoved ==
  ASSUME UNCHANGED <<latest, best, periodic, metrics>>
  PROVE  /\ Checkpoints' = Checkpoints /\ Periodics' = Periodics /\ Lines' = Lines
         /\ Whole' <=> Whole
         /\ BestLow' <=> BestLow
         /\ ResumeLow' <=> ResumeLow
         /\ state' = state => (Lowest(state)' <=> Lowest(state))
  <1>1. Checkpoints' = Checkpoints /\ Periodics' = Periodics /\ Lines' = Lines /\ (Whole' <=> Whole)
    BY DEF Checkpoints, Periodics, Lines, Whole
  <1>2. BestLow' <=> BestLow
    BY <1>1 DEF BestLow, Old
  <1>3. ResumeLow' <=> ResumeLow
    BY <1>1 DEF ResumeLow, Lowest, Old
  <1>4. state' = state => (Lowest(state)' <=> Lowest(state))
    BY <1>1 DEF Lowest, Old
  <1> QED BY <1>1, <1>2, <1>3, <1>4

LEMMA StartFreshKeeps == ASSUME TrainingInvariant, StartFresh PROVE TrainingInvariant'
  <1>1. /\ at = "off" /\ at' = "experiment" /\ experiment = "absent" /\ experiment' = experiment
        /\ state' = NewState /\ every' = every /\ improved' = improved /\ fromBest' = fromBest
        /\ UNCHANGED <<latest, best, periodic, metrics>>
    BY DEF StartFresh, checkpointVars, logVars, runVars
  <1>2. Checkpoints = {} /\ metrics = <<>> /\ Periodics = {} /\ Lines = {} /\ best = {}
    BY <1>1, Nothing DEF TrainingInvariant, Sizes, Checkpoints, Lines
  <1>3. Types'
    BY <1>1, <1>2, Unmoved, NewIsSound, Numbers DEF TrainingInvariant, Types, Places
  <1>4. Sizes'
    BY <1>1, <1>2, Unmoved, Nothing DEF TrainingInvariant, Sizes, Saving
  <1>5. ASSUME every = 1 PROVE Story'
    <2>1. BestLow' /\ ResumeLow'
      BY <1>1, <1>5, Unmoved DEF TrainingInvariant, Story
    <2>2. Saved' /\ StateLow'
      BY <1>1, <1>2, Unmoved DEF Saved, StateLow, Lowest, Saving
    <2> QED BY <2>1, <2>2 DEF Story
  <1> QED BY <1>1, <1>3, <1>4, <1>5 DEF TrainingInvariant

LEMMA WriteExperimentKeeps == ASSUME TrainingInvariant, WriteExperiment PROVE TrainingInvariant'
  <1>1. /\ at = "experiment" /\ at' = "train" /\ experiment' = "written"
        /\ UNCHANGED <<state, every, improved, fromBest, latest, best, periodic, metrics>>
    BY DEF WriteExperiment, checkpointVars, logVars, runVars
  <1>2. /\ Checkpoints = {} /\ metrics = <<>> /\ Periodics = {} /\ Lines = {} /\ best = {}
        /\ Len(state.losses) = 0
    BY <1>1, Nothing, NewIsSound DEF TrainingInvariant, Sizes, Checkpoints, Lines
  <1>3. Types'
    BY <1>1, <1>2, Unmoved DEF TrainingInvariant, Types, Places, Sound
  <1>4. Sizes'
    BY <1>1, <1>2, Unmoved, Nothing DEF TrainingInvariant, Sizes, Saving
  <1>5. ASSUME every = 1 PROVE Story'
    <2>1. BestLow' /\ ResumeLow'
      BY <1>1, <1>5, Unmoved DEF TrainingInvariant, Story
    <2>2. Saved' /\ StateLow'
      BY <1>1, <1>2, Unmoved DEF Saved, StateLow, Lowest, Saving
    <2> QED BY <2>1, <2>2 DEF Story
  <1> QED BY <1>1, <1>3, <1>4, <1>5 DEF TrainingInvariant

LEMMA ResumeKeeps == ASSUME TrainingInvariant, Resume PROVE TrainingInvariant'
  <1>1. /\ at = "off" /\ at' = "train" /\ experiment = "written" /\ experiment' = experiment
        /\ UNCHANGED <<every, improved, latest, best, periodic, metrics>> /\ metrics # <<>>
    BY DEF Resume, checkpointVars, logVars
  <1>2. /\ state' \in Checkpoints /\ Len(state'.losses) = Len(metrics) /\ Whole
        /\ Len(state'.losses) < Epochs
    BY DEF Resume, LogsAgree, CompletedEpochs, Restored, Whole
  <1>3. Sound(state') /\ state'.losses # <<>>
    BY <1>2 DEF TrainingInvariant, Types
  <1>4. fromBest' \in BOOLEAN
    BY DEF Resume, TrainingInvariant, Types
  <1>5. Types'
    <2>1. Len(state'.losses) <= Epochs
      BY <1>2, <1>3, SoundNumbers, Numbers
    <2>2. Sound(state)'
      BY <1>3 DEF Sound, Trainers
    <2> QED BY <1>1, <1>4, <2>1, <2>2, Unmoved DEF TrainingInvariant, Types, Places, Sound
  <1>6. Sizes'
    BY <1>1, <1>2, Unmoved DEF TrainingInvariant, Sizes, Saving, Whole
  <1>7. ASSUME every = 1 PROVE Story'
    <2>1. BestLow' /\ ResumeLow' /\ BestLow /\ ResumeLow
      BY <1>1, <1>7, Unmoved DEF TrainingInvariant, Story
    <2>2. Saved'
      BY <1>1 DEF Saved
    <2>3. Lowest(state')
      BY <1>2, <2>1 DEF ResumeLow
    <2>4. Lowest(state)'
      BY <1>1, <2>3, Unmoved DEF Lowest, Old
    <2>5. ASSUME NEW b \in best PROVE b.best <= state'.best
      <3>1. CASE state' \in latest \cup Periodics
        <4>1. Old(state')
          <5>1. Len(state'.losses) \in Nat
            BY <1>3, SoundNumbers
          <5> QED BY <1>2, <5>1 DEF Old
        <4> QED BY <1>2, <2>1, <2>5, <3>1, <4>1 DEF BestLow
      <3>2. CASE state' \in best
        <4>1. b = state'
          BY <2>5, <3>2 DEF TrainingInvariant, Types
        <4> QED BY <4>1, <1>3, SoundNumbers
      <3> QED BY <1>2, <3>1, <3>2 DEF Checkpoints
    <2>6. StateLow'
      BY <1>1, <2>4, <2>5 DEF StateLow, Saving
    <2> QED BY <2>1, <2>2, <2>6 DEF Story
  <1> QED BY <1>1, <1>5, <1>6, <1>7 DEF TrainingInvariant

LEMMA EveryEpoch == \A n \in Nat : n % 1 = 0
  OBVIOUS

LEMMA TrainKeeps == ASSUME TrainingInvariant, TrainAndValidate PROVE TrainingInvariant'
  <1>1. /\ at = "train" /\ at' \in {"latest", "metrics"}
        /\ Len(state.losses) < Epochs
        /\ UNCHANGED <<every, fromBest, experiment, latest, best, periodic, metrics>>
    BY DEF TrainAndValidate, checkpointVars, logVars, runVars, CompletedEpochs
  <1>2. PICK loss \in Losses :
          /\ state' = [losses |-> Append(state.losses, loss),
                       best |-> IF state.best = NoLoss \/ loss < state.best THEN loss ELSE state.best]
          /\ improved' = (state.best = NoLoss \/ loss < state.best)
    BY DEF TrainAndValidate, Better
  <1>3. Sound(state) /\ Len(state.losses) \in Nat /\ state.best \in Nat
    BY SoundNumbers DEF TrainingInvariant, Types
  <1>4. /\ Sound(state') /\ state'.losses # <<>> /\ state'.best \in Losses
        /\ Len(state'.losses) = Len(state.losses) + 1
        /\ state'.losses[Len(state'.losses)] = loss
        /\ state.best # NoLoss => state'.best <= state.best
    BY <1>2, <1>3, EpochIsSound
  <1>5. Sound(state)'
    BY <1>4 DEF Sound, Trainers
  <1>6. improved' \in BOOLEAN
    BY <1>2
  <1>7. Types'
    <2>1. Len(state'.losses) <= Epochs
      BY <1>1, <1>3, <1>4, Numbers
    <2> QED BY <1>1, <1>5, <1>6, <2>1, Unmoved DEF TrainingInvariant, Types, Places, Saving, Sound
  <1>8. Len(state.losses) = Len(metrics) /\ Whole
    BY <1>1 DEF TrainingInvariant, Sizes, Whole
  <1>9. Sizes'
    BY <1>1, <1>4, <1>8, Unmoved DEF TrainingInvariant, Sizes, Saving, Whole
  <1>10. ASSUME every = 1 PROVE Story'
    <2>1. at' = "latest"
      <3>1. Len(state'.losses) % every = 0
        <4>1. /\ Len(state'.losses) \in Nat /\ every = 1
          BY <1>10, <1>3, <1>4
        <4>2. Len(state'.losses) % 1 = 0
          BY <4>1, EveryEpoch
        <4> QED BY <4>1, <4>2, Zenon
      <3> QED BY <3>1 DEF TrainAndValidate, ShouldSave, CompletedEpochs
    <2>2. BestLow' /\ ResumeLow' /\ BestLow /\ ResumeLow /\ StateLow
      BY <1>1, <1>10, Unmoved DEF TrainingInvariant, Story
    <2>3. Saved'
      BY <2>1 DEF Saved
    <2>4. state.best = NoLoss => Lines = {} /\ \A p \in Periodics : ~Old(p)
      <3> SUFFICES ASSUME state.best = NoLoss PROVE Lines = {} /\ \A p \in Periodics : ~Old(p)
        OBVIOUS
      <3>1. Len(metrics) = 0 /\ metrics \in Seq(Losses \cup {Torn})
        BY <1>3, <1>8, Nothing DEF Sound, Trainers, TrainingInvariant, Types
      <3>2. Lines = {}
        BY <3>1, Length DEF Lines
      <3>3. ASSUME NEW p \in Periodics PROVE ~Old(p)
        <4>1. p.losses # <<>> /\ p.losses \in Seq(Losses)
          BY DEF TrainingInvariant, Types, Checkpoints, Sound, Trainers
        <4> QED BY <3>1, <4>1, Length DEF Old
      <3> QED BY <3>2, <3>3
    <2>5. Lowest(state')
      <3>1. Lowest(state) /\ state'.best \in Nat
        BY <1>1, <1>4, <2>2, Numbers DEF StateLow
      <3>2. \A n \in Lines : metrics[n] \in Nat
        BY Numbers, Length DEF Lines, TrainingInvariant, Types
      <3>3. \A p \in Periodics : p.best \in Nat
        BY SoundNumbers DEF TrainingInvariant, Types, Checkpoints
      <3> QED BY <1>3, <1>4, <2>4, <3>1, <3>2, <3>3 DEF Lowest
    <2>6. Lowest(state)'
      BY <1>1, <2>5, Unmoved DEF Lowest, Old
    <2>7. improved' => state'.best = state'.losses[Len(state'.losses)]
      BY <1>2, <1>4
    <2>8. ASSUME ~improved' PROVE best # {} /\ \A b \in best : b.best <= state'.best
      <3>1. state.best # NoLoss /\ state'.best = state.best
        BY <1>2, <2>8
      <3>2. Lines # {}
        <4>1. Len(metrics) # 0 /\ metrics \in Seq(Losses \cup {Torn})
          BY <1>3, <1>8, <3>1, Length DEF Sound, Trainers, TrainingInvariant, Types
        <4>2. 1 \in DOMAIN metrics
          BY <4>1, Length
        <4> QED BY <4>2, <1>8 DEF Lines, Whole
      <3> QED BY <1>1, <2>2, <3>1, <3>2 DEF BestLow, StateLow
    <2>9. StateLow'
      BY <1>1, <2>1, <2>6, <2>7, <2>8 DEF StateLow, Saving
    <2> QED BY <2>2, <2>3, <2>9 DEF Story
  <1> QED BY <1>1, <1>7, <1>9, <1>10 DEF TrainingInvariant

LEMMA ExposureKeeps == ASSUME TrainingInvariant, AppendExposure PROVE TrainingInvariant'
  <1>1. /\ at = "exposure" /\ at' \in {"train", "done"}
        /\ UNCHANGED <<state, every, improved, fromBest, experiment, latest, best, periodic, metrics>>
    BY DEF AppendExposure, checkpointVars, runVars
  <1>2. Types'
    BY <1>1, Unmoved DEF TrainingInvariant, Types, Places, Sound
  <1>3. Sizes'
    BY <1>1, Unmoved DEF TrainingInvariant, Sizes, Saving
  <1>4. ASSUME every = 1 PROVE Story'
    <2>1. BestLow' /\ ResumeLow' /\ StateLow
      BY <1>1, <1>4, Unmoved DEF TrainingInvariant, Story
    <2>2. Saved' /\ StateLow'
      BY <1>1, <2>1, Unmoved DEF Saved, StateLow, Saving
    <2> QED BY <2>1, <2>2 DEF Story
  <1> QED BY <1>1, <1>2, <1>3, <1>4 DEF TrainingInvariant

-----------------------------------------------------------------------------
(* Steps that write checkpoints *)

LEMMA UnderWay ==
  ASSUME TrainingInvariant, at \in Saving
  PROVE  /\ Sound(state) /\ state.losses # <<>> /\ state \in Trainers
         /\ Len(state.losses) \in 1..Epochs /\ Len(state.losses) = Len(metrics) + 1
         /\ ~Old(state) /\ Len(state.losses) # Len(metrics) /\ Len(metrics) \in Nat
  <1>1. Sound(state) /\ Len(state.losses) \in Nat /\ Len(state.losses) <= Epochs
    BY SoundNumbers DEF TrainingInvariant, Types
  <1>2. Len(metrics) \in Nat /\ Len(state.losses) = Len(metrics) + 1
    BY Length DEF TrainingInvariant, Types, Sizes
  <1>3. state.losses # <<>>
    BY <1>1, <1>2, Nothing
  <1> QED BY <1>1, <1>2, <1>3, Numbers DEF Sound, Old

LEMMA SaveLatestKeeps == ASSUME TrainingInvariant, SaveLatest PROVE TrainingInvariant'
  <1>1. /\ at = "latest" /\ latest' = {state}
        /\ at' = IF Aligned(Len(state.losses)) THEN "periodic" ELSE IF improved THEN "best" ELSE "metrics"
        /\ UNCHANGED <<state, every, improved, fromBest, experiment, best, periodic, metrics>>
    BY DEF SaveLatest, logVars, runVars, OptimizerSteps, CompletedEpochs, Aligned
  <1>2. /\ Sound(state) /\ state.losses # <<>> /\ ~Old(state) /\ Len(state.losses) # Len(metrics)
        /\ Len(state.losses) = Len(metrics) + 1
    BY <1>1, UnderWay DEF Saving
  <1>3. /\ Periodics' = Periodics /\ Lines' = Lines /\ Whole' = Whole
        /\ Checkpoints' = {state} \cup best \cup Periodics /\ Checkpoints = latest \cup best \cup Periodics
    BY <1>1 DEF Periodics, Lines, Whole, Checkpoints
  <1>4. at' \in {"periodic", "best", "metrics"}
    BY <1>1
  <1>5. Types'
    BY <1>1, <1>2, <1>3, <1>4 DEF TrainingInvariant, Types, Places, Saving, Sound
  <1>6. Sizes'
    BY <1>1, <1>2, <1>3, <1>4 DEF TrainingInvariant, Sizes, Saving, Aligned, StepsPerEpoch
  <1>7. ASSUME every = 1 PROVE Story'
    <2>1. BestLow /\ ResumeLow /\ StateLow
      BY <1>7 DEF TrainingInvariant, Story
    <2>2. BestLow'
      BY <1>1, <1>2, <1>3, <2>1 DEF BestLow, Old
    <2>3. ResumeLow'
      BY <1>1, <1>2, <1>3, <2>1 DEF ResumeLow, Lowest, Old
    <2>4. Saved'
      BY <1>1, <1>4 DEF Saved, Aligned, StepsPerEpoch
    <2>5. StateLow'
      BY <1>1, <1>3, <1>4, <2>1 DEF StateLow, Saving, Lowest, Old
    <2> QED BY <2>2, <2>3, <2>4, <2>5 DEF Story
  <1> QED BY <1>1, <1>5, <1>6, <1>7 DEF TrainingInvariant

LEMMA LinkPeriodicKeeps == ASSUME TrainingInvariant, LinkPeriodic PROVE TrainingInvariant'
  <1> DEFINE k == Len(state.losses)
  <1>1. /\ at = "periodic" /\ at' = IF improved THEN "best" ELSE "metrics"
        /\ periodic' = [periodic EXCEPT ![k] = latest]
        /\ UNCHANGED <<state, every, improved, fromBest, experiment, latest, best, metrics>>
    BY DEF LinkPeriodic, logVars, runVars, CompletedEpochs
  <1>2. /\ Sound(state) /\ state.losses # <<>> /\ ~Old(state) /\ k # Len(metrics)
        /\ k = Len(metrics) + 1 /\ k \in 1..Epochs /\ state \in Trainers
    BY <1>1, UnderWay DEF Saving
  <1>3. latest = {state} /\ Aligned(k)
    BY <1>1 DEF TrainingInvariant, Sizes
  <1>4. /\ periodic \in [1..Epochs -> SUBSET Trainers] /\ periodic'[k] = {state}
        /\ \A n \in 1..Epochs : n # k => periodic'[n] = periodic[n]
    BY <1>1, <1>2, <1>3 DEF TrainingInvariant, Types
  <1>5. \A p \in Periodics' : p \in Periodics \/ p = state
    BY <1>1, <1>2, <1>4 DEF Periodics
  <1>6. /\ Lines' = Lines /\ Whole' = Whole
        /\ \A c \in Checkpoints' : c \in Checkpoints \/ c = state
        /\ \A c \in Checkpoints' : c \in latest \cup best \cup Periodics \/ c = state
    BY <1>1, <1>5 DEF Lines, Whole, Checkpoints
  <1>7. Types'
    <2>1. periodic' \in [1..Epochs -> SUBSET Trainers]
      BY <1>1, <1>2, <1>3, <1>4
    <2>2. \A s \in Checkpoints' : Sound(s) /\ s.losses # <<>>
      BY <1>2, <1>6 DEF TrainingInvariant, Types
    <2>3. \A s \in Checkpoints' : Sound(s)' /\ s.losses # <<>>
      BY <2>2 DEF Sound, Trainers
    <2> QED BY <1>1, <2>1, <2>2, <2>3 DEF TrainingInvariant, Types, Places, Saving, Sound
  <1>8. Sizes'
    <2>1. \A s \in Checkpoints' : Len(s.losses) <= Len(metrics) + 1
      BY <1>2, <1>6 DEF TrainingInvariant, Sizes
    <2>2. \A n \in 1..Epochs : \A s \in periodic'[n] : Len(s.losses) = n /\ Aligned(n)
      BY <1>2, <1>3, <1>4 DEF TrainingInvariant, Sizes
    <2>3. experiment # "absent"
      BY <1>1 DEF TrainingInvariant, Sizes
    <2> QED BY <1>1, <1>2, <1>3, <2>1, <2>2, <2>3 DEF TrainingInvariant, Sizes, Saving, Aligned, StepsPerEpoch
  <1>9. ASSUME every = 1 PROVE Story'
    <2>1. BestLow /\ ResumeLow /\ StateLow
      BY <1>9 DEF TrainingInvariant, Story
    <2>2. \A c \in latest \cup Periodics' : Old(c) => c \in Periodics
      BY <1>2, <1>3, <1>5 DEF Old
    <2>3. BestLow'
      BY <1>1, <1>6, <2>1, <2>2 DEF BestLow, Old
    <2>4. \A x : Lowest(x) => Lowest(x)'
      BY <1>1, <1>6, <2>2 DEF Lowest, Old
    <2>5. ResumeLow'
      <3> SUFFICES ASSUME Whole', NEW x \in Checkpoints', Len(x.losses) = Len(metrics)'
                   PROVE  Lowest(x)'
        BY DEF ResumeLow
      <3>1. x \in Checkpoints /\ Len(x.losses) = Len(metrics)
        BY <1>1, <1>2, <1>6
      <3> QED BY <1>6, <2>1, <2>4, <3>1 DEF ResumeLow
    <2>6. Saved'
      BY <1>1, <1>3, <1>4 DEF Saved
    <2>7. Lowest(state)'
      BY <1>1, <2>1, <2>4 DEF StateLow, Lowest
    <2>8. StateLow'
      BY <1>1, <2>1, <2>7 DEF StateLow, Saving
    <2> QED BY <2>3, <2>5, <2>6, <2>8 DEF Story
  <1> QED BY <1>1, <1>7, <1>8, <1>9 DEF TrainingInvariant

LEMMA LinkBestKeeps == ASSUME TrainingInvariant, LinkBest PROVE TrainingInvariant'
  <1>1. /\ at = "best" /\ at' = "metrics" /\ best' = latest
        /\ UNCHANGED <<state, every, improved, fromBest, experiment, latest, periodic, metrics>>
    BY DEF LinkBest, logVars, runVars
  <1>2. /\ Sound(state) /\ state.losses # <<>> /\ ~Old(state) /\ Len(state.losses) # Len(metrics)
        /\ Len(state.losses) = Len(metrics) + 1 /\ state \in Trainers
    BY <1>1, UnderWay DEF Saving
  <1>3. latest = {state} /\ best' = {state}
    BY <1>1 DEF TrainingInvariant, Sizes
  <1>4. /\ Lines' = Lines /\ Whole' = Whole /\ Periodics' = Periodics
        /\ \A c \in Checkpoints' : c \in Checkpoints
    BY <1>1, <1>3 DEF Lines, Whole, Checkpoints, Periodics
  <1>5. Types'
    BY <1>1, <1>3, <1>4 DEF TrainingInvariant, Types, Places, Saving, Sound
  <1>6. Sizes'
    BY <1>1, <1>2, <1>3, <1>4 DEF TrainingInvariant, Sizes, Saving, Aligned, StepsPerEpoch
  <1>7. ASSUME every = 1 PROVE Story'
    <2>1. BestLow /\ ResumeLow /\ StateLow /\ improved /\ Lowest(state)
      BY <1>1, <1>7 DEF TrainingInvariant, Story, Saved, StateLow
    <2>2. state.best = state.losses[Len(state.losses)]
      BY <1>1, <2>1 DEF StateLow, Saving
    <2>3. \A c \in latest \cup Periodics : Old(c) => c \in Periodics
      BY <1>2, <1>3
    <2>4. BestLow'
      BY <1>1, <1>3, <1>4, <2>1, <2>2, <2>3 DEF BestLow, Old, Lowest
    <2>5. ResumeLow'
      BY <1>1, <1>4, <2>1 DEF ResumeLow, Lowest, Old
    <2>6. Saved'
      BY <1>1, <1>3, <1>7 DEF Saved, TrainingInvariant, Story, Aligned, StepsPerEpoch
    <2>7. StateLow'
      BY <1>1, <1>4, <2>1, <2>2 DEF StateLow, Saving, Lowest, Old
    <2> QED BY <2>4, <2>5, <2>6, <2>7 DEF Story
  <1> QED BY <1>1, <1>5, <1>6, <1>7 DEF TrainingInvariant

-----------------------------------------------------------------------------
(* Steps that write the metrics *)

\* When the metrics are due, the checkpoints up to the epoch under way are its own and old ones.
LEMMA UpToNow ==
  ASSUME TrainingInvariant, every = 1, at = "metrics",
         NEW x \in latest \cup Periodics, Len(x.losses) <= Len(state.losses)
  PROVE  x = state \/ (x \in Periodics /\ Old(x))
  <1> DEFINE k == Len(state.losses)
  <1>1. Saved /\ k = Len(metrics) + 1 /\ Len(metrics) \in Nat
    BY UnderWay DEF Saving, TrainingInvariant, Story
  <1>2. CASE x \in latest
    BY <1>1, <1>2 DEF Saved
  <1>3. CASE x \in Periodics
    <2>1. Len(x.losses) \in Nat
      BY <1>3, SoundNumbers DEF TrainingInvariant, Types, Checkpoints
    <2>2. CASE Len(x.losses) = k
      <3>1. PICK n \in 1..Epochs : x \in periodic[n]
        BY <1>3 DEF Periodics, TrainingInvariant, Types
      <3>2. n = k /\ Aligned(k)
        BY <2>2, <3>1 DEF TrainingInvariant, Sizes
      <3> QED BY <1>1, <3>1, <3>2 DEF Saved
    <2>3. CASE Len(x.losses) # k
      BY <1>1, <1>3, <2>1, <2>3 DEF Old
    <2> QED BY <2>2, <2>3
  <1> QED BY <1>2, <1>3

LEMMA AppendMetricKeeps == ASSUME TrainingInvariant, AppendMetric PROVE TrainingInvariant'
  <1> DEFINE k == Len(state.losses)
             L == state.losses[k]
  <1>1. /\ at = "metrics" /\ at' = "exposure" /\ metrics' = Append(metrics, L)
        /\ UNCHANGED <<state, every, improved, fromBest, experiment, latest, best, periodic>>
    BY DEF AppendMetric, checkpointVars, runVars, CompletedEpochs
  <1>2. /\ Sound(state) /\ state.losses # <<>> /\ k \in 1..Epochs
        /\ k = Len(metrics) + 1 /\ Len(metrics) \in Nat /\ state \in Trainers
    BY <1>1, UnderWay DEF Saving
  <1>3. L \in Losses /\ L # Torn /\ state.best <= L
    BY <1>2, Length, Numbers DEF Sound, Trainers
  <1>4. /\ metrics \in Seq(Losses \cup {Torn}) /\ metrics' \in Seq(Losses \cup {Torn})
        /\ Len(metrics') = k /\ metrics'[k] = L
        /\ DOMAIN metrics = 1..Len(metrics) /\ DOMAIN metrics' = 1..k
        /\ \A i \in 1..Len(metrics) : metrics'[i] = metrics[i]
    <2>1. metrics \in Seq(Losses \cup {Torn}) /\ L \in Losses \cup {Torn}
      BY <1>3 DEF TrainingInvariant, Types
    <2> QED BY <1>1, <1>2, <2>1, Appended
  <1>5. Whole /\ Whole'
    <2>1. Whole
      BY <1>1 DEF TrainingInvariant, Sizes, Whole
    <2> QED BY <1>2, <1>3, <1>4, <2>1 DEF Whole
  <1>6. Periodics' = Periodics /\ Checkpoints' = Checkpoints
    BY <1>1 DEF Checkpoints, Periodics
  <1>7. \A n \in Lines' : n \in Lines \/ n = k
    BY <1>2, <1>4 DEF Lines
  <1>8. Types'
    BY <1>1, <1>4, <1>6 DEF TrainingInvariant, Types, Places, Saving, Sound
  <1>9. Sizes'
    <2>1. \A s \in Checkpoints : Len(s.losses) <= Len(metrics') + 1
      <3> SUFFICES ASSUME NEW s \in Checkpoints PROVE Len(s.losses) <= k + 1
        BY <1>4
      <3>1. Len(s.losses) \in Nat
        BY SoundNumbers DEF TrainingInvariant, Types
      <3> QED BY <1>2, <3>1 DEF TrainingInvariant, Sizes
    <2>2. experiment # "absent"
      BY <1>1 DEF TrainingInvariant, Sizes
    <2> QED BY <1>1, <1>4, <1>5, <1>6, <2>1, <2>2
            DEF TrainingInvariant, Sizes, Saving, Whole, Aligned, StepsPerEpoch
  <1>10. ASSUME every = 1 PROVE Story'
    <2>1. BestLow /\ StateLow /\ Saved
      BY <1>10 DEF TrainingInvariant, Story
    <2>2. best # {} /\ \A b \in best : b.best <= state.best /\ b.best \in Nat
      <3>1. \A b \in best : b.best \in Nat
        BY SoundNumbers DEF TrainingInvariant, Types, Checkpoints
      <3>2. CASE improved
        <4>1. best = {state}
          BY <1>1, <2>1, <3>2 DEF Saved
        <4> QED BY <3>1, <4>1
      <3>3. CASE ~improved
        BY <1>1, <2>1, <3>1, <3>3 DEF StateLow, Saving
      <3> QED BY <3>2, <3>3
    <2>3. \A x \in latest \cup Periodics :
            Len(x.losses) <= k => x = state \/ (x \in Periodics /\ Old(x))
      BY <1>1, <1>10, UpToNow
    <2>4. \A n \in Lines' : \/ n \in Lines /\ metrics'[n] = metrics[n]
                            \/ n = k /\ metrics'[n] = L
      BY <1>4, <1>7 DEF Lines
    <2>5. Lowest(state)'
      <3>1. Lowest(state)
        BY <1>1, <2>1 DEF StateLow
      <3>2. \A n \in Lines' : state.best <= metrics'[n]
        BY <1>3, <2>4, <3>1 DEF Lowest
      <3>3. \A p \in Periodics : Len(p.losses) <= k => state.best <= p.best
        BY <1>2, <2>3, <3>1, SoundNumbers DEF Lowest
      <3> QED BY <1>1, <1>4, <1>6, <3>2, <3>3 DEF Lowest, Old
    <2>6. \A b \in best : \A n \in Lines' : b.best <= metrics'[n]
      <3> SUFFICES ASSUME NEW b \in best, NEW n \in Lines' PROVE b.best <= metrics'[n]
        OBVIOUS
      <3>1. b.best <= L
        BY <1>2, <1>3, <2>2, SoundNumbers, Numbers
      <3> QED BY <2>1, <2>4, <3>1 DEF BestLow
    <2>7. \A b \in best : \A x \in latest \cup Periodics : Len(x.losses) <= k => b.best <= x.best
      BY <1>5, <2>1, <2>2, <2>3 DEF BestLow
    <2>8. BestLow'
      BY <1>1, <1>4, <1>6, <2>1, <2>2, <2>6, <2>7 DEF BestLow, Old
    <2>9. ResumeLow'
      <3> SUFFICES ASSUME NEW x \in Checkpoints, Len(x.losses) = k PROVE Lowest(x)'
        BY <1>4, <1>6 DEF ResumeLow
      <3>1. CASE x \in best
        BY <1>1, <1>4, <1>6, <2>6, <2>7, <3>1 DEF Lowest, Old
      <3>2. CASE x \in latest \cup Periodics
        <4>1. x = state
          BY <1>2, <2>3, <3>2 DEF Old
        <4> QED BY <1>1, <2>5, <4>1 DEF Lowest
      <3> QED BY <3>1, <3>2 DEF Checkpoints
    <2>10. Saved'
      BY <1>1 DEF Saved
    <2>11. StateLow'
      BY <1>1, <2>2, <2>5 DEF StateLow, Saving
    <2> QED BY <2>8, <2>9, <2>10, <2>11 DEF Story
  <1> QED BY <1>1, <1>8, <1>9, <1>10 DEF TrainingInvariant

LEMMA StopKeeps == ASSUME TrainingInvariant, Stop PROVE TrainingInvariant'
  <1>1. /\ at # "off" /\ at' = "off"
        /\ UNCHANGED <<state, every, improved, fromBest, latest, best, periodic>>
    BY DEF Stop, checkpointVars
  <1>2. Checkpoints' = Checkpoints /\ Periodics' = Periodics
    BY <1>1 DEF Checkpoints, Periodics
  <1>3. CASE UNCHANGED metrics /\ (experiment' = experiment \/ experiment' = "partial")
    <2>1. Types'
      BY <1>1, <1>2, <1>3 DEF TrainingInvariant, Types, Places, Saving, Sound
    <2>2. Sizes'
      BY <1>1, <1>2, <1>3 DEF TrainingInvariant, Sizes, Saving, Aligned, StepsPerEpoch
    <2>3. ASSUME every = 1 PROVE Story'
      <3>1. BestLow' /\ ResumeLow'
        BY <1>1, <1>3, <2>3, Unmoved DEF TrainingInvariant, Story
      <3>2. Saved' /\ StateLow'
        BY <1>1 DEF Saved, StateLow, Saving
      <3> QED BY <3>1, <3>2 DEF Story
    <2> QED BY <1>1, <2>1, <2>2, <2>3 DEF TrainingInvariant
  <1>4. CASE at = "metrics" /\ metrics' = Append(metrics, Torn) /\ UNCHANGED experiment
    <2>1. /\ metrics \in Seq(Losses \cup {Torn}) /\ metrics' \in Seq(Losses \cup {Torn})
          /\ Len(metrics) \in Nat /\ Len(metrics') = Len(metrics) + 1
          /\ metrics'[Len(metrics) + 1] = Torn
          /\ DOMAIN metrics = 1..Len(metrics) /\ DOMAIN metrics' = 1..Len(metrics) + 1
          /\ \A i \in 1..Len(metrics) : metrics'[i] = metrics[i]
      <3>1. metrics \in Seq(Losses \cup {Torn}) /\ Torn \in Losses \cup {Torn}
        BY DEF TrainingInvariant, Types
      <3> QED BY <1>4, <3>1, Appended
    <2>2. Lines' = Lines
      BY <2>1 DEF Lines
    <2>3. \A n \in Lines : metrics'[n] = metrics[n]
      BY <2>1 DEF Lines
    <2>4. ~Whole'
      BY <2>1 DEF Whole
    <2>5. Types'
      BY <1>1, <1>2, <2>1 DEF TrainingInvariant, Types, Places, Saving, Sound
    <2>6. Sizes'
      <3>1. \A s \in Checkpoints : Len(s.losses) <= Len(metrics') + 1
        <4> SUFFICES ASSUME NEW s \in Checkpoints PROVE Len(s.losses) <= Len(metrics') + 1
          OBVIOUS
        <4>1. Len(s.losses) \in Nat
          BY SoundNumbers DEF TrainingInvariant, Types
        <4> QED BY <2>1, <4>1 DEF TrainingInvariant, Sizes
      <3>2. experiment # "absent"
        BY <1>4 DEF TrainingInvariant, Sizes
      <3> QED BY <1>1, <1>2, <1>4, <3>1, <3>2
              DEF TrainingInvariant, Sizes, Saving, Aligned, StepsPerEpoch
    <2>7. ASSUME every = 1 PROVE Story'
      <3>1. BestLow
        BY <2>7 DEF TrainingInvariant, Story
      <3>2. BestLow' /\ ResumeLow'
        BY <1>1, <1>2, <2>2, <2>3, <2>4, <3>1 DEF BestLow, ResumeLow
      <3>3. Saved' /\ StateLow'
        BY <1>1 DEF Saved, StateLow, Saving
      <3> QED BY <3>2, <3>3 DEF Story
    <2> QED BY <1>1, <2>5, <2>6, <2>7 DEF TrainingInvariant
  <1> QED BY <1>3, <1>4 DEF Stop, logVars

LEMMA StutterKeeps ==
  ASSUME TrainingInvariant, UNCHANGED trainingVars, every' = every, fromBest' = fromBest
  PROVE  TrainingInvariant'
  <1>1. UNCHANGED <<at, state, improved, experiment, latest, best, periodic, metrics>>
    BY DEF trainingVars, checkpointVars, logVars
  <1>2. Types'
    BY <1>1, Unmoved DEF TrainingInvariant, Types, Sound
  <1>3. Sizes'
    BY <1>1, Unmoved DEF TrainingInvariant, Sizes, Aligned, StepsPerEpoch
  <1>4. ASSUME every = 1 PROVE Story'
    <2>1. BestLow' /\ ResumeLow' /\ (Lowest(state)' <=> Lowest(state))
      BY <1>1, <1>4, Unmoved DEF TrainingInvariant, Story
    <2>2. Saved' /\ StateLow'
      BY <1>1, <1>4, <2>1, Unmoved DEF TrainingInvariant, Story, Saved, StateLow, Aligned, StepsPerEpoch
    <2> QED BY <2>1, <2>2 DEF Story
  <1> QED BY <1>2, <1>3, <1>4 DEF TrainingInvariant

LEMMA InvariantStep == TrainingInvariant /\ [Next]_trainingVars => TrainingInvariant'
  <1> SUFFICES ASSUME TrainingInvariant, [Next]_trainingVars PROVE TrainingInvariant'
    OBVIOUS
  <1>1. CASE UNCHANGED trainingVars
    BY <1>1, StutterKeeps DEF trainingVars, runVars
  <1>2. CASE Next
    BY <1>2, StartFreshKeeps, WriteExperimentKeeps, ResumeKeeps, TrainKeeps, SaveLatestKeeps,
       LinkPeriodicKeeps, LinkBestKeeps, AppendMetricKeeps, ExposureKeeps, StopKeeps DEF Next
  <1> QED BY <1>1, <1>2

\* The checkpoints and the metrics of a run that may be stopped anywhere keep in step.
THEOREM TrainingSafe == Spec => []TrainingInvariant
  <1>1. Init => TrainingInvariant
    BY InvariantInit
  <1>2. TrainingInvariant /\ [Next]_trainingVars => TrainingInvariant'
    BY InvariantStep
  <1> QED BY <1>1, <1>2, PTL DEF Spec

\* Whatever the number of epochs, the interval of the periodic checkpoints and the losses:
\* a run that saves every epoch has, in best.pt, the best of the epochs its metrics name.
THEOREM BestOfRun == Spec => []BestIsBest
  <1>1. TrainingInvariant => BestIsBest
    BY DEF TrainingInvariant, Story, BestLow, BestIsBest, CompletedEpochs
  <1> QED BY <1>1, TrainingSafe, PTL

-----------------------------------------------------------------------------
(* The epochs that checkpoints are made of *)

Agrees(s) == \A i \in DOMAIN s.losses : i <= Len(metrics) => metrics[i] \in {s.losses[i], Torn}

Lineage ==
  /\ at \notin {"off", "experiment"} => Agrees(state)
  /\ \A c \in latest \cup Periodics : Old(c) => Agrees(c)

OneStory == every = 1 /\ ~fromBest => Lineage

LEMMA UnmovedAgrees ==
  ASSUME NEW s, metrics' = metrics, Agrees(s) PROVE Agrees(s)'
  BY DEF Agrees

\* A line is added behind the last one.
LEMMA AddedAgrees ==
  ASSUME NEW s, Sound(s), NEW line \in Losses \cup {Torn},
         metrics \in Seq(Losses \cup {Torn}), metrics' = Append(metrics, line),
         Agrees(s),
         \/ Len(s.losses) <= Len(metrics)
         \/ line \in {s.losses[Len(metrics) + 1], Torn}
  PROVE  Agrees(s)'
  <1>1. DOMAIN s.losses = 1..Len(s.losses) /\ Len(s.losses) \in Nat
    BY Length DEF Sound, Trainers
  <1>2. /\ Len(metrics) \in Nat /\ Len(metrics') = Len(metrics) + 1
        /\ metrics'[Len(metrics) + 1] = line
        /\ \A i \in 1..Len(metrics) : metrics'[i] = metrics[i]
    BY Appended
  <1> SUFFICES ASSUME NEW i \in 1..Len(s.losses), i <= Len(metrics) + 1
               PROVE  metrics'[i] \in {s.losses[i], Torn}
    BY <1>1, <1>2 DEF Agrees
  <1>3. CASE i <= Len(metrics)
    BY <1>1, <1>2, <1>3 DEF Agrees
  <1>4. CASE i = Len(metrics) + 1
    BY <1>1, <1>2, <1>4
  <1> QED BY <1>1, <1>2, <1>3, <1>4

\* What a step that leaves the metrics alone has to show.
LEMMA QuietLineage ==
  ASSUME TrainingInvariant, Lineage, metrics' = metrics,
         \A c \in (latest \cup Periodics)' : c \in latest \cup Periodics \/ ~Old(c),
         at' \notin {"off", "experiment"} => Agrees(state')
  PROVE  Lineage'
  <1>1. \A c \in (latest \cup Periodics)' : Old(c)' => Agrees(c)'
    BY UnmovedAgrees DEF Lineage, Old
  <1>2. at' \notin {"off", "experiment"} => Agrees(state)'
    BY DEF Agrees
  <1> QED BY <1>1, <1>2 DEF Lineage

LEMMA LoggedLineage ==
  ASSUME TrainingInvariant, Lineage, every = 1, at = "metrics",
         NEW line \in {state.losses[Len(state.losses)], Torn},
         metrics' = Append(metrics, line), UNCHANGED <<state, latest, periodic>>
  PROVE  Lineage'
  <1>1. /\ Sound(state) /\ Len(state.losses) = Len(metrics) + 1
        /\ metrics \in Seq(Losses \cup {Torn}) /\ Len(metrics) \in Nat
    BY UnderWay DEF Saving, TrainingInvariant, Types
  <1>2. line \in Losses \cup {Torn}
    BY <1>1, Length DEF Sound, Trainers
  <1>3. Agrees(state)'
    <2>1. Agrees(state)
      BY DEF Lineage
    <2>2. \A s : s = state => Agrees(s)'
      BY <1>1, <1>2, <2>1, AddedAgrees
    <2> QED BY <2>2 DEF Agrees
  <1>4. ASSUME NEW c \in latest \cup Periodics, Old(c)' PROVE Agrees(c)'
    <2>1. Len(c.losses) <= Len(state.losses)
      BY <1>1, <1>2, <1>4, Appended DEF Old
    <2>2. CASE c = state
      BY <1>3, <2>2 DEF Agrees
    <2>3. CASE c \in Periodics /\ Old(c)
      <3>1. Sound(c) /\ Agrees(c)
        BY <2>3 DEF TrainingInvariant, Types, Checkpoints, Lineage
      <3> QED BY <1>1, <1>2, <2>3, <3>1, AddedAgrees DEF Old
    <2> QED BY <2>1, <2>2, <2>3, UpToNow
  <1>5. Periodics' = Periodics
    BY DEF Periodics
  <1> QED BY <1>3, <1>4, <1>5 DEF Lineage

LEMMA LineageStep ==
  ASSUME TrainingInvariant, OneStory, [Next]_trainingVars PROVE OneStory'
  <1> SUFFICES ASSUME every' = 1, ~fromBest' PROVE Lineage'
    BY DEF OneStory
  <1>1. every = 1 /\ ~fromBest
    <2>1. CASE Resume
      <3>1. PICK c : every' = every /\ fromBest' = (fromBest \/ c \notin latest \cup Periodics)
        BY <2>1 DEF Resume
      <3> QED BY <3>1
    <2>2. CASE ~Resume
      <3>1. every' = every /\ fromBest' = fromBest
        BY <2>2 DEF Next, StartFresh, WriteExperiment, TrainAndValidate, SaveLatest, LinkPeriodic,
           LinkBest, AppendMetric, AppendExposure, Stop, trainingVars, runVars
      <3> QED BY <3>1
    <2> QED BY <2>1, <2>2
  <1>2. Lineage
    BY <1>1 DEF OneStory
  <1>3. CASE StartFresh \/ WriteExperiment
    <2>1. UNCHANGED <<metrics, latest, periodic>> /\ (at' = "experiment" \/ state' = NewState)
      BY <1>3 DEF StartFresh, WriteExperiment, checkpointVars, logVars, TrainingInvariant, Sizes
    <2>2. Agrees(NewState)
      BY Nothing DEF Agrees, NewState
    <2> QED BY <1>2, <2>1, <2>2, QuietLineage DEF Periodics
  <1>4. CASE Resume
    <2>1. UNCHANGED <<metrics, latest, periodic>>
      BY <1>4 DEF Resume, checkpointVars, logVars
    <2>2. state' \in latest \cup Periodics /\ Len(state'.losses) = Len(metrics)
      BY <1>4 DEF Resume, Restored, LogsAgree, CompletedEpochs
    <2>3. Old(state')
      BY <2>2, Length DEF Old, TrainingInvariant, Types
    <2>4. Agrees(state')
      BY <1>2, <2>2, <2>3 DEF Lineage
    <2> QED BY <1>2, <2>1, <2>4, QuietLineage DEF Periodics
  <1>5. CASE TrainAndValidate
    <2>1. at = "train" /\ UNCHANGED <<metrics, latest, periodic>>
      BY <1>5 DEF TrainAndValidate, checkpointVars, logVars
    <2>2. PICK loss \in Losses : state'.losses = Append(state.losses, loss)
      BY <1>5 DEF TrainAndValidate
    <2>3. /\ state.losses \in Seq(Losses) /\ Len(state.losses) = Len(metrics)
          /\ Len(metrics) \in Nat
      BY <2>1, Length DEF TrainingInvariant, Types, Sizes, Sound, Trainers
    <2>4. Agrees(state')
      <3>1. Agrees(state)
        BY <1>2, <2>1 DEF Lineage
      <3>2. \A i \in 1..Len(metrics) : i \in DOMAIN state.losses /\ state'.losses[i] = state.losses[i]
        BY <2>2, <2>3, Appended
      <3>3. DOMAIN state'.losses = 1..Len(metrics) + 1
        BY <2>2, <2>3, Appended
      <3> QED BY <2>3, <3>1, <3>2, <3>3 DEF Agrees
    <2> QED BY <1>2, <2>1, <2>4, QuietLineage DEF Periodics
  <1>6. CASE SaveLatest \/ LinkPeriodic \/ LinkBest \/ AppendExposure
    <2>1. /\ UNCHANGED <<metrics, state>> /\ at \notin {"off", "experiment"}
          /\ latest' = latest \/ latest' = {state}
      BY <1>6 DEF SaveLatest, LinkPeriodic, LinkBest, AppendExposure, logVars, checkpointVars
    <2>2. \A p \in Periodics' : p \in Periodics \/ p \in latest
      <3>1. CASE UNCHANGED periodic
        BY <3>1 DEF Periodics
      <3>2. CASE LinkPeriodic
        <4>1. PICK k : periodic' = [periodic EXCEPT ![k] = latest]
          BY <3>2 DEF LinkPeriodic
        <4> QED BY <4>1 DEF Periodics, TrainingInvariant, Types
      <3> QED BY <1>6, <3>1, <3>2 DEF SaveLatest, LinkBest, AppendExposure, checkpointVars
    <2>3. latest' = {state} => ~Old(state) \/ latest' = latest
      BY <1>6, UnderWay DEF SaveLatest, LinkPeriodic, LinkBest, AppendExposure, checkpointVars, Saving
    <2> QED BY <1>2, <2>1, <2>2, <2>3, QuietLineage DEF Lineage
  <1>7. CASE AppendMetric
    BY <1>1, <1>2, <1>7, LoggedLineage DEF AppendMetric, checkpointVars, CompletedEpochs
  <1>8. CASE Stop
    <2>1. at' = "off" /\ UNCHANGED <<state, latest, periodic>>
      BY <1>8 DEF Stop, checkpointVars
    <2>2. CASE UNCHANGED metrics
      BY <1>2, <2>1, <2>2, QuietLineage DEF Periodics
    <2>3. CASE at = "metrics" /\ metrics' = Append(metrics, Torn)
      BY <1>1, <1>2, <2>1, <2>3, LoggedLineage
    <2> QED BY <1>8, <2>2, <2>3 DEF Stop, logVars
  <1>9. CASE UNCHANGED trainingVars
    <2>1. UNCHANGED <<at, state, metrics, latest, periodic>>
      BY <1>9 DEF trainingVars, checkpointVars, logVars
    <2> QED BY <1>2, <2>1, QuietLineage DEF Periodics, Lineage
  <1> QED BY <1>3, <1>4, <1>5, <1>6, <1>7, <1>8, <1>9 DEF Next

\* The checkpoints of a run that saves every epoch, and that nobody resumed from best.pt, are
\* made of the epochs that its metrics name.
THEOREM OneStoryOfRun == Spec => []RecordedStates
  <1>1. Init => OneStory
    <2> SUFFICES ASSUME Init PROVE OneStory
      OBVIOUS
    <2>1. at = "off" /\ latest \cup Periodics = {}
      BY DEF Init, Periodics
    <2> QED BY <2>1 DEF OneStory, Lineage
  <1>2. TrainingInvariant /\ OneStory /\ [Next]_trainingVars => OneStory'
    BY LineageStep
  <1>3. TrainingInvariant /\ OneStory => RecordedStates
    <2> SUFFICES ASSUME TrainingInvariant, OneStory, every = 1, ~fromBest,
                        NEW c \in latest \cup Periodics, CompletedEpochs(c) <= Len(metrics),
                        NEW n \in DOMAIN c.losses
                 PROVE  metrics[n] \in {c.losses[n], Torn}
      BY DEF RecordedStates
    <2>1. Agrees(c)
      BY DEF OneStory, Lineage, Old, CompletedEpochs
    <2>2. DOMAIN c.losses = 1..Len(c.losses) /\ Len(c.losses) \in Nat /\ Len(metrics) \in Nat
      BY Length DEF TrainingInvariant, Types, Checkpoints, Sound, Trainers
    <2> QED BY <2>1, <2>2 DEF Agrees, CompletedEpochs
  <1> QED BY <1>1, <1>2, <1>3, TrainingSafe, PTL DEF Spec
=============================================================================
