--------------------------- MODULE ReplanLoopProofs ---------------------------
(***************************************************************************)
(* Theorems about ReplanLoop, for every set of drivers, every horizon and  *)
(* prefix, every window and any number of pauses.                          *)
(***************************************************************************)
EXTENDS ReplanLoop, FiniteSetTheorems, TLAPS

EnvType == [step : Nat, done : BOOLEAN, last : {"reset", "command", "clipped", "hold"}]

PauseType == [generation : Nat, step : Nat, env : Nat, given : BOOLEAN]

\* Since c was proposed the environment has taken the steps that the control clock counted,
\* the ones of the chunk under way included.
InStep(c) == controlStep + executed - c.origin = env.step - c.env

\* The strengthening of AlignedHistory: it also holds while a chunk is executed, and of that
\* chunk, which RTC is going to remember.
PlansInStep ==
  mode # "failed" /\ ~env.done =>
    /\ \A c \in chunks : InStep(c)
    /\ rtc # NoChunk => InStep(rtc)
    /\ mode = "chunk" => InStep(current)

\* Tokens are generations of pauses; the pause that can be resumed has not been resumed yet.
TokensInOrder ==
  /\ \A t \in tokens \cup spent : t \in 1..generation
  /\ pause.given => pause.generation \notin spent
  /\ AtBoundary => resuming = NotResuming

LoopInvariant ==
  LoopTypeOK /\ PausedIsClean /\ ReferenceWasCommanded /\ PlansInStep /\ TokensInOrder

-----------------------------------------------------------------------------
(* Steps of the environment *)

\* A finished environment stays as it is; any other takes a step of that kind.
Stepped(e, f, kind) ==
  IF e.done THEN f = e ELSE f.step = e.step + 1 /\ f.last = kind

LEMMA SentSteps ==
  ASSUME NEW e \in EnvType, NEW kind \in {"reset", "command", "clipped", "hold"},
         NEW f \in Sent(e, kind)
  PROVE  f \in EnvType /\ Stepped(e, f, kind)
<1>1. CASE e.done
  BY <1>1 DEF Sent, EnvType, Stepped
<1>2. CASE ~e.done
  <2>1. PICK d \in {TRUE, e.step + 1 >= MaxEpisodeSteps} :
          f = [step |-> e.step + 1, done |-> d, last |-> kind]
    BY <1>2 DEF Sent
  <2>2. d \in BOOLEAN
    <3>1. (e.step + 1 >= MaxEpisodeSteps) \in BOOLEAN
      OBVIOUS
    <3> QED BY <3>1
  <2> QED BY <1>2, <2>1, <2>2 DEF EnvType, Stepped
<1> QED BY <1>1, <1>2 DEF EnvType

\* A hold either fails or is a step.
LEMMA HeldSteps ==
  ASSUME NEW e \in EnvType, NEW f \in Held(e)
  PROVE  f \in EnvType /\ (f = e \/ Stepped(e, f, "hold"))
<1>1. f \in Sent(e, "hold") \/ f = e
  BY DEF Held
<1> QED BY <1>1, SentSteps

\* Both keep the type and never bring a finished environment back.
LEMMA HeldAfter ==
  ASSUME NEW e \in EnvType, NEW f \in Held(e)
  PROVE  f \in EnvType
BY HeldSteps

-----------------------------------------------------------------------------
(* The three returns *)

\* Whatever a return does to the history, the pause and the environment, it keeps the types.
LEMMA ReturnsTyped ==
  ASSUME LoopTypeOK, NEW n \in Nat, NEW m \in {"idle", "failed"}, GiveBack(n, m),
         chunks' \subseteq ChunkType, rtc' \in ChunkType, reference' \in BOOLEAN,
         anomalies' \in Nat, pause' \in PauseType, env' \in EnvType
  PROVE  LoopTypeOK'
<1>1. driver' \in Drivers /\ generation' \in Nat /\ accepted' \in [last : Nat, paused : Nat]
  BY DEF LoopTypeOK, GiveBack
<1>2. tokens' \subseteq Nat /\ spent' \subseteq tokens'
  BY DEF LoopTypeOK, GiveBack
<1>3. replans' \in 0..MaxReplans'
  BY DEF LoopTypeOK, GiveBack, MaxReplans, MaxEpisodeSteps
<1>4. controlStep' \in Nat /\ executed' \in 0..(ExecuteSteps - 1) /\ resuming' \in Nat
  BY HorizonAssumption DEF LoopTypeOK, GiveBack, NotResuming
<1>5. /\ current' \in ChunkType /\ mode' \in {"idle", "infer", "chunk", "failed"}
      /\ current' = NoChunk /\ executed' = 0
  BY DEF GiveBack, NoChunk, ChunkType
<1> QED BY <1>1, <1>2, <1>3, <1>4, <1>5 DEF LoopTypeOK, PauseType, EnvType

\* A return that leaves no pause anybody could resume keeps the tokens in order.
LEMMA ReturnsOrdered ==
  ASSUME TokensInOrder, NEW n \in Nat, NEW m \in {"idle", "failed"}, GiveBack(n, m),
         ~pause'.given
  PROVE  TokensInOrder'
<1>1. resuming' = NotResuming
  BY DEF GiveBack
<1>2. tokens' = tokens /\ spent' = spent /\ generation' = generation
  BY DEF GiveBack
<1>3. \A t \in tokens' \cup spent' : t \in 1..generation'
  BY <1>2 DEF TokensInOrder
<1> QED BY <1>1, <1>3 DEF TokensInOrder

\* Nobody can resume a pause made by a resume that failed, or no pause.
LEMMA PausedAgain ==
  ASSUME LoopTypeOK, NEW n \in Nat, env' \in EnvType, PauseAgain(n)
  PROVE  pause' \in PauseType /\ ~pause'.given
<1>1. PICK s \in Nat : s = controlStep + n
  BY DEF LoopTypeOK
<1>2. PICK e \in Nat : e = env'.step
  BY DEF EnvType
<1>3. PICK g \in Nat : g = resuming
  BY DEF LoopTypeOK
<1>4. pause' = [generation |-> g, step |-> s, env |-> e, given |-> FALSE]
  BY <1>1, <1>2, <1>3 DEF PauseAgain
<1> QED BY <1>4 DEF PauseType

LEMMA NotPaused ==
  ASSUME pause' = NoPause
  PROVE  pause' \in PauseType /\ ~pause'.given
<1>1. NoPause \in PauseType /\ ~NoPause.given
  BY DEF NoPause, PauseType
<1> QED BY <1>1

\* After an anomaly nothing of the past is left.
LEMMA AnomalyKeeps ==
  ASSUME LoopInvariant, mode \in {"infer", "chunk"}, NEW n \in Nat, ReturnAnomaly(n),
         env' \in EnvType
  PROVE  LoopInvariant'
<1>1. PICK m \in {"idle", "failed"} : GiveBack(n, m)
  BY DEF ReturnAnomaly
<1>2. chunks' = {} /\ rtc' = NoChunk /\ ~reference' /\ mode' \in {"idle", "failed"}
  BY <1>1 DEF ReturnAnomaly, GiveBack, Forget
<1>3. pause = NoPause
  BY DEF LoopInvariant, PausedIsClean, AtBoundary
<1>4. pause' = NoPause \/ PauseAgain(n)
  BY <1>3 DEF ReturnAnomaly
<1>5. pause' \in PauseType /\ ~pause'.given
  BY <1>4, PausedAgain, NotPaused DEF LoopInvariant
<1>6. anomalies' \in Nat
  BY DEF ReturnAnomaly, LoopInvariant, LoopTypeOK
<1>7. chunks' \subseteq ChunkType /\ rtc' \in ChunkType /\ reference' \in BOOLEAN
  BY DEF ReturnAnomaly, Forget, NoChunk, ChunkType
<1>8. LoopTypeOK'
  BY <1>1, <1>5, <1>6, <1>7, ReturnsTyped DEF LoopInvariant
<1>9. PausedIsClean' /\ ReferenceWasCommanded' /\ PlansInStep'
  BY <1>2 DEF PausedIsClean, ReferenceWasCommanded, PlansInStep, AtBoundary
<1>10. TokensInOrder'
  BY <1>1, <1>5, ReturnsOrdered DEF LoopInvariant
<1> QED BY <1>8, <1>9, <1>10 DEF LoopInvariant

\* A failure stops the rollout; what is left of its plans is never used again.
LEMMA FailureKeeps ==
  ASSUME LoopInvariant, mode \in {"infer", "chunk"}, NEW n \in Nat, ReturnFailed(n),
         env' \in EnvType
  PROVE  LoopInvariant'
<1>1. GiveBack(n, "failed")
  BY DEF ReturnFailed
<1>2. ~reference' /\ reference' \in BOOLEAN /\ mode' = "failed" /\ anomalies' = anomalies
  BY DEF ReturnFailed, GiveBack
<1>3. pause = NoPause
  BY DEF LoopInvariant, PausedIsClean, AtBoundary
<1>4. \/ pause' = NoPause /\ chunks' = chunks /\ rtc' = rtc
      \/ PauseAgain(n) /\ chunks' = {} /\ rtc' = NoChunk
  BY <1>3 DEF ReturnFailed
<1>5. pause' \in PauseType /\ ~pause'.given
  BY <1>4, PausedAgain, NotPaused DEF LoopInvariant
<1>6. chunks' \subseteq ChunkType /\ rtc' \in ChunkType /\ anomalies' \in Nat
  BY <1>2, <1>4 DEF LoopInvariant, LoopTypeOK, NoChunk, ChunkType
<1>7. LoopTypeOK'
  BY <1>1, <1>2, <1>5, <1>6, ReturnsTyped DEF LoopInvariant
<1>8. PausedIsClean' /\ ReferenceWasCommanded' /\ PlansInStep'
  BY <1>2, <1>4 DEF PausedIsClean, ReferenceWasCommanded, PlansInStep, AtBoundary
<1>9. TokensInOrder'
  BY <1>1, <1>5, ReturnsOrdered DEF LoopInvariant
<1> QED BY <1>7, <1>8, <1>9 DEF LoopInvariant

\* A clean return keeps the plans, and RTC the chunk just executed: they stay in step as long
\* as the environment took exactly the n - executed steps the return adds to the clock.
LEMMA CleanKeeps ==
  ASSUME LoopInvariant, mode = "chunk", NEW n \in Nat, ReturnClean(n), env' \in EnvType,
         reference' \in BOOLEAN, reference' /\ ~env'.done => env'.last = "command",
         ~env'.done => ~env.done /\ env'.step - env.step = n - executed
  PROVE  LoopInvariant'
<1>1. GiveBack(n, "idle")
  BY DEF ReturnClean
<1>2. /\ mode' = "idle" /\ anomalies' = 0 /\ chunks' = chunks /\ pause' = pause
      /\ rtc' \in {rtc, current} /\ controlStep' = controlStep + n /\ executed' = 0
  BY DEF ReturnClean, GiveBack
<1>3. pause = NoPause
  BY DEF LoopInvariant, PausedIsClean, AtBoundary
<1>4. LoopTypeOK'
  <2>1. chunks' \subseteq ChunkType /\ rtc' \in ChunkType
    BY <1>2 DEF LoopInvariant, LoopTypeOK
  <2>2. pause' \in PauseType /\ anomalies' \in Nat
    BY <1>2 DEF LoopInvariant, LoopTypeOK, PauseType
  <2> QED BY <1>1, <2>1, <2>2, ReturnsTyped DEF LoopInvariant
<1>5. PausedIsClean' /\ ReferenceWasCommanded'
  BY <1>2, <1>3 DEF PausedIsClean, ReferenceWasCommanded
<1>6. ASSUME ~env'.done, NEW c \in ChunkType, InStep(c)
      PROVE  controlStep' + executed' - c.origin = env'.step - c.env
  BY <1>2, <1>6 DEF InStep, LoopInvariant, LoopTypeOK, EnvType, ChunkType
<1>7. PlansInStep'
  <2> SUFFICES ASSUME ~env'.done
               PROVE  /\ \A c \in chunks' : InStep(c)'
                      /\ rtc' # NoChunk => InStep(rtc)'
    BY <1>2 DEF PlansInStep
  <2>1. ~env.done
    OBVIOUS
  <2>2. ASSUME NEW c \in chunks'
        PROVE  InStep(c)'
    <3>1. c \in ChunkType /\ InStep(c)
      BY <1>2, <2>1, <2>2 DEF LoopInvariant, LoopTypeOK, PlansInStep
    <3> QED BY <3>1, <1>6 DEF InStep
  <2>3. ASSUME rtc' # NoChunk
        PROVE  InStep(rtc)'
    <3>1. PICK r : r = rtc'
      OBVIOUS
    <3>2. r \in ChunkType /\ InStep(r)
      BY <1>2, <2>1, <2>3, <3>1 DEF LoopInvariant, LoopTypeOK, PlansInStep
    <3>3. controlStep' + executed' - r.origin = env'.step - r.env
      BY <3>2, <1>6
    <3> QED BY <3>1, <3>3 DEF InStep
  <2> QED BY <2>2, <2>3
<1>8. ~pause'.given
  BY <1>2, <1>3 DEF NoPause
<1>9. TokensInOrder'
  BY <1>1, <1>8, ReturnsOrdered DEF LoopInvariant
<1> QED BY <1>4, <1>5, <1>7, <1>9 DEF LoopInvariant
-----------------------------------------------------------------------------
(* The other steps, one by one *)

LEMMA InvariantEnv ==
  ASSUME LoopInvariant
  PROVE  env \in EnvType
BY DEF LoopInvariant, LoopTypeOK, EnvType

LEMMA ReplanKeeps ==
  ASSUME LoopInvariant, Replan
  PROVE  LoopInvariant'
<1> USE DEF LoopInvariant
<1>1. /\ mode = "idle" /\ mode' = "infer" /\ pause = NoPause /\ replans' = replans + 1
      /\ replans < MaxReplans /\ pause' = pause
  BY DEF Replan
<1>2. /\ UNCHANGED <<driver, controlStep, anomalies, generation>>
      /\ UNCHANGED <<current, executed, resuming, env, tokens, spent, accepted>>
      /\ UNCHANGED <<chunks, rtc, reference>>
  BY DEF Replan, history
<1>3. LoopTypeOK'
  <2>1. replans' \in 0..MaxReplans' /\ MaxReplans' = MaxReplans
    BY <1>1, <1>2, DriverAssumption DEF LoopTypeOK, MaxReplans, MaxEpisodeSteps, DriverType
  <2> QED BY <1>1, <1>2, <2>1 DEF LoopTypeOK
<1>4. PausedIsClean' /\ ReferenceWasCommanded'
  BY <1>1, <1>2 DEF PausedIsClean, ReferenceWasCommanded
<1>5. PlansInStep'
  BY <1>1, <1>2 DEF PlansInStep, InStep
<1>6. TokensInOrder'
  BY <1>1, <1>2 DEF TokensInOrder, AtBoundary
<1> QED BY <1>3, <1>4, <1>5, <1>6

\* A rollout that could not read the robot stops; what the loop remembers is not used again.
LEMMA ReadFailsKeeps ==
  ASSUME LoopInvariant, ReadFails
  PROVE  LoopInvariant'
<1> USE DEF LoopInvariant
<1>1. /\ mode = "idle" /\ mode' = "failed" /\ replans < MaxReplans /\ replans' = replans + 1
      /\ env' \in Held(env)
  BY DEF ReadFails
<1>2. /\ UNCHANGED <<driver, controlStep, anomalies, pause, generation>>
      /\ UNCHANGED <<current, executed, resuming, tokens, spent, accepted>>
      /\ UNCHANGED <<chunks, rtc, reference>>
  BY DEF ReadFails, history
<1>3. LoopTypeOK'
  <2>1. replans' \in 0..MaxReplans' /\ MaxReplans' = MaxReplans
    BY <1>1, <1>2, DriverAssumption DEF LoopTypeOK, MaxReplans, MaxEpisodeSteps, DriverType
  <2>2. env' \in EnvType
    BY <1>1, InvariantEnv, HeldAfter
  <2> QED BY <1>1, <1>2, <2>1, <2>2 DEF LoopTypeOK, EnvType
<1>4. PausedIsClean' /\ ReferenceWasCommanded' /\ PlansInStep'
  BY <1>1, <1>2 DEF PausedIsClean, ReferenceWasCommanded, PlansInStep, AtBoundary
<1>5. TokensInOrder'
  BY <1>1, <1>2 DEF TokensInOrder, AtBoundary
<1> QED BY <1>3, <1>4, <1>5

\* What an inference adds to the plans was proposed now.
LEMMA InferKeeps ==
  ASSUME LoopInvariant, Infer
  PROVE  LoopInvariant'
<1> USE DEF LoopInvariant
<1>1. mode = "infer" /\ mode' = "chunk" /\ rtc' = Overlap /\ chunks' = Composed /\ current' = Proposal
  BY DEF Infer
<1>2. /\ UNCHANGED <<driver, reference, controlStep, anomalies, pause, generation>>
      /\ UNCHANGED <<executed, resuming, replans, env, tokens, spent, accepted>>
  BY DEF Infer
<1>3. pause = NoPause /\ executed = 0
  BY <1>1 DEF PausedIsClean, AtBoundary, LoopTypeOK
<1>4. Proposal \in ChunkType /\ NoChunk \in ChunkType
  <2>1. replans \in Nat
    BY DriverAssumption DEF LoopTypeOK, MaxReplans, MaxEpisodeSteps, DriverType
  <2> QED BY <2>1 DEF Proposal, NoChunk, ChunkType, LoopTypeOK
<1>5. Overlap \in {rtc, NoChunk} /\ Composed \subseteq chunks \cup {Proposal}
  BY DEF Overlap, Composed
<1>6. LoopTypeOK'
  <2>1. chunks' \subseteq ChunkType /\ rtc' \in ChunkType /\ current' \in ChunkType
    BY <1>1, <1>4, <1>5 DEF LoopTypeOK
  <2>2. replans' \in 0..MaxReplans'
    BY <1>2 DEF LoopTypeOK, MaxReplans, MaxEpisodeSteps
  <2> QED BY <1>1, <1>2, <2>1, <2>2 DEF LoopTypeOK
<1>7. PausedIsClean' /\ ReferenceWasCommanded'
  BY <1>1, <1>2, <1>3 DEF PausedIsClean, ReferenceWasCommanded
<1>8. PlansInStep'
  <2>1. InStep(Proposal)
    BY <1>3 DEF InStep, Proposal, LoopTypeOK
  <2>2. ASSUME NEW c, InStep(c)
        PROVE  InStep(c)'
    BY <1>2, <2>2 DEF InStep
  <2>3. PICK p : p = Proposal
    OBVIOUS
  <2>4. PICK r : r = Overlap
    OBVIOUS
  <2>5. ASSUME ~env'.done
        PROVE  /\ \A c \in chunks' : InStep(c)'
               /\ rtc' # NoChunk => InStep(rtc)'
               /\ InStep(current)'
    <3>1. ~env.done
      BY <1>2, <2>5
    <3>2. \A c \in chunks' : InStep(c)'
      BY <1>1, <1>5, <2>1, <2>2, <3>1 DEF PlansInStep
    <3>3. r # NoChunk => InStep(r)
      BY <1>1, <1>5, <2>4, <3>1 DEF PlansInStep
    <3>4. r # NoChunk => controlStep' + executed' - r.origin = env'.step - r.env
      BY <3>3, <1>2 DEF InStep
    <3>5. controlStep' + executed' - p.origin = env'.step - p.env
      BY <2>1, <2>3, <1>2 DEF InStep
    <3>6. rtc' = r /\ current' = p
      BY <1>1, <2>3, <2>4
    <3> QED BY <3>2, <3>4, <3>5, <3>6 DEF InStep
  <2> QED BY <2>5 DEF PlansInStep
<1>9. TokensInOrder'
  BY <1>1, <1>2 DEF TokensInOrder, AtBoundary
<1> QED BY <1>6, <1>7, <1>8, <1>9

LEMMA ComposeRaisesKeeps ==
  ASSUME LoopInvariant, ComposeRaises
  PROVE  LoopInvariant'
<1> USE DEF LoopInvariant
<1>1. mode = "infer" /\ GiveBack(0, "failed") /\ anomalies' = anomalies /\ env' = env
  BY DEF ComposeRaises
<1>2. mode' = "failed"
  BY <1>1 DEF GiveBack
<1>3. pause = NoPause
  BY <1>1 DEF PausedIsClean, AtBoundary
<1>4. \/ PauseAgain(0) /\ chunks' = {} /\ rtc' = NoChunk /\ reference' = FALSE
      \/ /\ chunks' \subseteq chunks \cup {Proposal} /\ pause' = NoPause
         /\ rtc' = rtc /\ reference' = reference
  BY <1>3 DEF ComposeRaises, Forget, Composed
<1>5. pause' \in PauseType /\ ~pause'.given
  BY <1>1, <1>4, PausedAgain, NotPaused, InvariantEnv
<1>6. chunks' \subseteq ChunkType /\ rtc' \in ChunkType /\ reference' \in BOOLEAN
  <2>1. replans \in Nat
    BY DriverAssumption DEF LoopTypeOK, MaxReplans, MaxEpisodeSteps, DriverType
  <2>2. Proposal \in ChunkType /\ NoChunk \in ChunkType
    BY <2>1 DEF Proposal, NoChunk, ChunkType, LoopTypeOK
  <2> QED BY <1>4, <2>2 DEF LoopTypeOK
<1>7. LoopTypeOK'
  <2>1. env' \in EnvType /\ anomalies' \in Nat
    BY <1>1, InvariantEnv DEF LoopTypeOK
  <2> QED BY <1>1, <1>5, <1>6, <2>1, ReturnsTyped
<1>8. PausedIsClean' /\ PlansInStep'
  BY <1>2, <1>4 DEF PausedIsClean, PlansInStep, AtBoundary
<1>9. ReferenceWasCommanded'
  BY <1>2 DEF ReferenceWasCommanded
<1>10. TokensInOrder'
  BY <1>1, <1>5, ReturnsOrdered
<1> QED BY <1>7, <1>8, <1>9, <1>10

\* A veto sends nothing: neither clock moves for it.
LEMMA VetoKeeps ==
  ASSUME LoopInvariant, Veto
  PROVE  LoopInvariant'
<1>1. mode = "chunk" /\ reference' = FALSE /\ env' = env /\ ReturnClean(executed)
  BY DEF Veto
<1>2. executed \in Nat /\ env.step \in Nat
  BY HorizonAssumption DEF LoopInvariant, LoopTypeOK
<1>3. env'.step - env.step = executed - executed
  BY <1>1, <1>2
<1>4. reference' \in BOOLEAN /\ ~reference'
  BY <1>1
<1>5. env' \in EnvType
  BY <1>1, InvariantEnv
<1>6. ~env'.done => ~env.done /\ env'.step - env.step = executed - executed
  BY <1>1, <1>3
<1> QED BY <1>1, <1>2, <1>4, <1>5, <1>6, CleanKeeps

\* The last command counts once on both clocks, unless it ended the episode.
LEMMA SendLastKeeps ==
  ASSUME LoopInvariant, SendLast
  PROVE  LoopInvariant'
<1>1. mode = "chunk" /\ reference' = TRUE /\ ReturnClean(executed + 1) /\ env' \in Sent(env, "command")
  BY DEF SendLast
<1>2. executed \in Nat /\ executed + 1 \in Nat /\ env \in EnvType /\ env.step \in Nat
  BY HorizonAssumption, InvariantEnv DEF LoopInvariant, LoopTypeOK
<1>3. PICK f : f = env'
  OBVIOUS
<1>4. f \in EnvType /\ Stepped(env, f, "command")
  BY <1>1, <1>2, <1>3, SentSteps
<1>5. env' \in EnvType
  BY <1>3, <1>4
<1>6. reference' /\ ~env'.done => env'.last = "command"
  BY <1>3, <1>4 DEF Stepped
<1>7. ~f.done => ~env.done /\ f.step = env.step + 1
  BY <1>4 DEF Stepped
<1>8. f.step = env.step + 1 => f.step - env.step = executed + 1 - executed
  BY <1>2
<1>9. ~env'.done => ~env.done /\ env'.step - env.step = executed + 1 - executed
  BY <1>3, <1>7, <1>8
<1>10. reference' \in BOOLEAN
  BY <1>1
<1> QED BY <1>1, <1>2, <1>5, <1>6, <1>9, <1>10, CleanKeeps

\* A command in the middle of the prefix moves both clocks by one.
LEMMA SendStepKeeps ==
  ASSUME LoopInvariant, SendStep
  PROVE  LoopInvariant'
<1> USE DEF LoopInvariant
<1>1. /\ mode = "chunk" /\ executed + 1 < ExecuteSteps /\ env' \in Sent(env, "command")
      /\ executed' = executed + 1 /\ reference' = TRUE
      /\ UNCHANGED <<driver, chunks, rtc, controlStep, anomalies, pause, generation>>
      /\ UNCHANGED <<mode, current, resuming, replans, tokens, spent, accepted>>
  BY DEF SendStep
<1>2. executed \in Nat /\ executed + 1 \in 0..(ExecuteSteps - 1) /\ controlStep \in Nat
  BY <1>1, HorizonAssumption DEF LoopTypeOK
<1>3. PICK f : f = env'
  OBVIOUS
<1>4. f \in EnvType /\ Stepped(env, f, "command")
  BY <1>1, <1>3, SentSteps, InvariantEnv
<1>5. LoopTypeOK'
  <2>1. env' \in EnvType
    BY <1>3, <1>4
  <2>2. replans' \in 0..MaxReplans'
    BY <1>1 DEF LoopTypeOK, MaxReplans, MaxEpisodeSteps
  <2> QED BY <1>1, <1>2, <2>1, <2>2 DEF LoopTypeOK, EnvType
<1>6. PausedIsClean'
  BY <1>1 DEF PausedIsClean, AtBoundary
<1>7. ReferenceWasCommanded'
  BY <1>3, <1>4 DEF ReferenceWasCommanded, Stepped
<1>8. PlansInStep'
  <2> SUFFICES ASSUME ~env'.done
               PROVE  /\ \A c \in chunks' : InStep(c)'
                      /\ rtc' # NoChunk => InStep(rtc)'
                      /\ InStep(current)'
    BY <1>1 DEF PlansInStep
  <2>1. ~env.done /\ f.step = env.step + 1
    BY <1>3, <1>4 DEF Stepped
  <2>2. ASSUME NEW c \in ChunkType, InStep(c)
        PROVE  controlStep' + executed' - c.origin = env'.step - c.env
    <3>1. controlStep' = controlStep /\ executed' = executed + 1 /\ env'.step = env.step + 1
      BY <1>1, <1>3, <2>1
    <3>2. controlStep + executed - c.origin = env.step - c.env
      BY <2>2 DEF InStep
    <3>3. c.origin \in Nat /\ c.env \in Nat /\ env.step \in Nat
      BY <2>2 DEF ChunkType, LoopTypeOK
    <3> QED BY <1>2, <3>1, <3>2, <3>3
  <2>3. \A c \in chunks' : InStep(c)'
    BY <1>1, <2>1, <2>2 DEF PlansInStep, LoopTypeOK, InStep
  <2>4. rtc' # NoChunk => InStep(rtc)'
    BY <1>1, <2>1, <2>2 DEF PlansInStep, LoopTypeOK, InStep
  <2>5. InStep(current)'
    <3>1. PICK c \in ChunkType : c = current
      BY DEF LoopTypeOK
    <3>2. InStep(c)
      BY <1>1, <2>1, <3>1 DEF PlansInStep
    <3>3. controlStep' + executed' - c.origin = env'.step - c.env
      BY <2>2, <3>2
    <3>4. current' = c
      BY <1>1, <3>1
    <3> QED BY <3>3, <3>4 DEF InStep
  <2> QED BY <2>3, <2>4, <2>5
<1>9. TokensInOrder'
  BY <1>1 DEF TokensInOrder, AtBoundary
<1> QED BY <1>5, <1>6, <1>7, <1>8, <1>9

LEMMA ClearKeeps ==
  ASSUME LoopInvariant, ClearActionHistory
  PROVE  LoopInvariant'
<1> USE DEF LoopInvariant
<1>1. /\ UNCHANGED <<driver, controlStep, anomalies, pause, generation, mode, current>>
      /\ UNCHANGED <<executed, resuming, replans, env, tokens, spent, accepted>>
      /\ chunks' = {} /\ rtc' = NoChunk /\ reference' = FALSE /\ AtBoundary
  BY DEF ClearActionHistory, Forget
<1>2. LoopTypeOK'
  <2>1. replans' \in 0..MaxReplans'
    BY <1>1 DEF LoopTypeOK, MaxReplans, MaxEpisodeSteps
  <2> QED BY <1>1, <2>1 DEF LoopTypeOK, NoChunk, ChunkType
<1>3. PausedIsClean' /\ ReferenceWasCommanded' /\ PlansInStep'
  BY <1>1 DEF PausedIsClean, ReferenceWasCommanded, PlansInStep, AtBoundary
<1>4. TokensInOrder'
  BY <1>1 DEF TokensInOrder, AtBoundary
<1> QED BY <1>2, <1>3, <1>4

\* A new pause has a generation nobody has resumed.
LEMMA PauseKeeps ==
  ASSUME LoopInvariant, PauseForObservation
  PROVE  LoopInvariant'
<1> USE DEF LoopInvariant
<1>1. /\ UNCHANGED <<driver, controlStep, mode, current, executed, resuming, replans>>
      /\ UNCHANGED <<env, spent, accepted>>
      /\ generation' = generation + 1 /\ anomalies' = 0 /\ AtBoundary
      /\ tokens' = tokens \cup {generation + 1}
      /\ pause' = [generation |-> generation + 1, step |-> controlStep, env |-> env.step,
                   given |-> TRUE]
      /\ chunks' = {} /\ rtc' = NoChunk /\ reference' = FALSE
  BY DEF PauseForObservation, Forget
<1>2. LoopTypeOK'
  <2>1. replans' \in 0..MaxReplans'
    BY <1>1 DEF LoopTypeOK, MaxReplans, MaxEpisodeSteps
  <2>2. pause' \in PauseType /\ generation' \in Nat
    BY <1>1 DEF LoopTypeOK, PauseType
  <2>3. tokens' \subseteq Nat /\ spent' \subseteq tokens'
    BY <1>1 DEF LoopTypeOK
  <2> QED BY <1>1, <2>1, <2>2, <2>3 DEF LoopTypeOK, NoChunk, ChunkType, PauseType
<1>3. PausedIsClean' /\ ReferenceWasCommanded' /\ PlansInStep'
  BY <1>1 DEF PausedIsClean, ReferenceWasCommanded, PlansInStep, AtBoundary
<1>4. TokensInOrder'
  <2>1. \A t \in tokens' \cup spent' : t \in 1..generation'
    BY <1>1 DEF TokensInOrder, LoopTypeOK
  <2>2. pause'.generation = generation + 1
    BY <1>1
  <2>3. generation + 1 \notin spent
    BY DEF TokensInOrder, LoopTypeOK
  <2>4. AtBoundary' => resuming' = NotResuming
    BY <1>1 DEF TokensInOrder
  <2> QED BY <1>1, <2>1, <2>2, <2>3, <2>4 DEF TokensInOrder
<1> QED BY <1>2, <1>3, <1>4

LEMMA CallerHoldsKeeps ==
  ASSUME LoopInvariant, CallerHolds
  PROVE  LoopInvariant'
<1> USE DEF LoopInvariant
<1>1. /\ UNCHANGED <<driver, controlStep, anomalies, pause, generation, mode, current>>
      /\ UNCHANGED <<executed, resuming, replans, tokens, spent, accepted>>
      /\ UNCHANGED <<chunks, rtc, reference>>
      /\ AtBoundary /\ pause # NoPause /\ env' \in Sent(env, "hold")
  BY DEF CallerHolds, history
<1>2. chunks = {} /\ rtc = NoChunk /\ ~reference /\ mode # "chunk"
  BY <1>1 DEF PausedIsClean, AtBoundary
<1>3. env' \in EnvType
  BY <1>1, SentSteps, InvariantEnv
<1>4. LoopTypeOK'
  <2>1. replans' \in 0..MaxReplans'
    BY <1>1 DEF LoopTypeOK, MaxReplans, MaxEpisodeSteps
  <2> QED BY <1>1, <1>3, <2>1 DEF LoopTypeOK, EnvType
<1>5. PausedIsClean' /\ ReferenceWasCommanded' /\ PlansInStep'
  BY <1>1, <1>2 DEF PausedIsClean, ReferenceWasCommanded, PlansInStep, AtBoundary
<1>6. TokensInOrder'
  BY <1>1 DEF TokensInOrder, AtBoundary
<1> QED BY <1>4, <1>5, <1>6

\* A resume starts from nothing, and spends the pause.
LEMMA ResumeKeeps ==
  ASSUME LoopInvariant, NEW token \in tokens, NEW w \in (WindowLength - 1)..env.step,
         Resume(token, w)
  PROVE  LoopInvariant'
<1> USE DEF LoopInvariant
<1>1. /\ UNCHANGED <<driver, anomalies, generation, current, executed, env, tokens>>
      /\ UNCHANGED <<chunks, rtc, reference>>
      /\ ~reference /\ chunks = {} /\ rtc = NoChunk /\ AtBoundary /\ mode' = "infer"
      /\ controlStep' = w /\ pause' = NoPause /\ resuming' = pause.generation
      /\ replans < MaxReplans /\ replans' = replans + 1 /\ spent' = spent \cup {token}
      /\ accepted' = [last |-> w, paused |-> pause.env]
  BY DEF Resume, history
<1>2. w \in Nat
  BY HorizonAssumption DEF LoopTypeOK
<1>3. LoopTypeOK'
  <2>1. replans' \in 0..MaxReplans'
    BY <1>1, DriverAssumption DEF LoopTypeOK, MaxReplans, MaxEpisodeSteps, DriverType
  <2>2. pause' \in PauseType /\ resuming' \in Nat
    BY <1>1 DEF LoopTypeOK, PauseType, NoPause
  <2>3. accepted' \in [last : Nat, paused : Nat] /\ spent' \subseteq tokens'
    BY <1>1, <1>2 DEF LoopTypeOK
  <2> QED BY <1>1, <1>2, <2>1, <2>2, <2>3 DEF LoopTypeOK, PauseType, AtBoundary
<1>4. PausedIsClean' /\ ReferenceWasCommanded' /\ PlansInStep'
  BY <1>1 DEF PausedIsClean, ReferenceWasCommanded, PlansInStep
<1>5. TokensInOrder'
  <2>1. ~pause'.given
    BY <1>1, NotPaused
  <2> QED BY <1>1, <2>1 DEF TokensInOrder, AtBoundary
<1> QED BY <1>3, <1>4, <1>5

LEMMA ResetKeeps ==
  ASSUME LoopInvariant, Reset
  PROVE  LoopInvariant'
<1> USE DEF LoopInvariant
<1>1. /\ UNCHANGED <<driver, current, executed, resuming, tokens, spent, accepted>>
      /\ AtBoundary /\ generation' = generation + 1 /\ env' = NewEnv /\ controlStep' = 0
      /\ anomalies' = 0 /\ pause' = NoPause /\ mode' = "idle" /\ replans' = 0
      /\ chunks' = {} /\ rtc' = NoChunk /\ reference' = FALSE
  BY DEF Reset, Forget
<1>2. LoopTypeOK'
  <2>1. replans' \in 0..MaxReplans'
    BY <1>1, DriverAssumption DEF LoopTypeOK, MaxReplans, MaxEpisodeSteps, DriverType
  <2>2. pause' \in PauseType /\ generation' \in Nat /\ env' \in EnvType
    BY <1>1 DEF LoopTypeOK, PauseType, NoPause, NewEnv, EnvType
  <2>3. current' = NoChunk /\ executed' = 0
    BY <1>1 DEF LoopTypeOK, AtBoundary
  <2> QED BY <1>1, <2>1, <2>2, <2>3 DEF LoopTypeOK, NoChunk, ChunkType, PauseType, EnvType
<1>3. PausedIsClean' /\ ReferenceWasCommanded' /\ PlansInStep'
  BY <1>1 DEF PausedIsClean, ReferenceWasCommanded, PlansInStep
<1>4. TokensInOrder'
  <2>1. ~pause'.given
    BY <1>1, NotPaused
  <2>2. \A t \in tokens' \cup spent' : t \in 1..generation'
    BY <1>1 DEF TokensInOrder, LoopTypeOK
  <2>3. resuming' = NotResuming
    BY <1>1 DEF TokensInOrder
  <2> QED BY <2>1, <2>2, <2>3 DEF TokensInOrder
<1> QED BY <1>2, <1>3, <1>4

-----------------------------------------------------------------------------
(* The invariant *)

LEMMA InitiallyInStep ==
  ASSUME Init
  PROVE  LoopInvariant
<1>1. LoopTypeOK
  <2>1. replans \in 0..MaxReplans /\ driver \in Drivers
    BY DriverAssumption DEF Init, MaxReplans, MaxEpisodeSteps, DriverType
  <2>2. chunks \subseteq ChunkType /\ NoChunk \in ChunkType
    BY DEF Init, NoChunk, ChunkType
  <2>3. NoPause \in PauseType /\ NewEnv \in EnvType /\ NoWindow \in [last : Nat, paused : Nat]
    BY DEF NoPause, PauseType, NewEnv, EnvType, NoWindow
  <2>4. executed \in 0..(ExecuteSteps - 1)
    BY HorizonAssumption DEF Init
  <2> QED BY <2>1, <2>2, <2>3, <2>4 DEF Init, LoopTypeOK, NotResuming, PauseType, EnvType
<1>2. PausedIsClean /\ ReferenceWasCommanded /\ PlansInStep
  BY DEF Init, PausedIsClean, ReferenceWasCommanded, PlansInStep
<1>3. TokensInOrder
  BY DEF Init, TokensInOrder, NoPause
<1> QED BY <1>1, <1>2, <1>3 DEF LoopInvariant

\* Every way a chunk can fail ends in one of the returns.
LEMMA FaultKeeps ==
  ASSUME LoopInvariant,
         \/ InferenceFails   \/ ObservationFails \/ ChunkUnsafe \/ StepUnsafe
         \/ ControllerFails  \/ SaturatedStep
  PROVE  LoopInvariant'
<1>1. env \in EnvType /\ executed \in Nat /\ executed + 1 \in Nat
  BY InvariantEnv, HorizonAssumption DEF LoopInvariant, LoopTypeOK
<1>2. CASE InferenceFails
  <2>1. env' \in EnvType
    BY <1>1, <1>2, HeldAfter DEF InferenceFails
  <2> QED BY <1>2, <2>1, AnomalyKeeps DEF InferenceFails
<1>3. CASE ObservationFails
  <2>1. env' \in EnvType
    BY <1>1, <1>3, HeldAfter DEF ObservationFails
  <2> QED BY <1>1, <1>3, <2>1, FailureKeeps DEF ObservationFails
<1>4. CASE ChunkUnsafe
  <2>1. env' \in EnvType
    BY <1>1, <1>4, HeldAfter DEF ChunkUnsafe
  <2> QED BY <1>4, <2>1, AnomalyKeeps DEF ChunkUnsafe
<1>5. CASE StepUnsafe
  <2>1. env' \in EnvType
    BY <1>1, <1>5, HeldAfter DEF StepUnsafe
  <2> QED BY <1>1, <1>5, <2>1, AnomalyKeeps DEF StepUnsafe
<1>6. CASE ControllerFails
  <2>1. PICK e \in {env} \cup Sent(env, "command") : env' \in Held(e)
    BY <1>6 DEF ControllerFails
  <2>2. e \in EnvType
    BY <1>1, <2>1, SentSteps
  <2>3. env' \in EnvType
    BY <2>1, <2>2, HeldAfter
  <2> QED BY <1>1, <1>6, <2>3, FailureKeeps DEF ControllerFails
<1>7. CASE SaturatedStep
  <2>1. env' \in EnvType
    BY <1>1, <1>7, SentSteps DEF SaturatedStep
  <2> QED BY <1>1, <1>7, <2>1, AnomalyKeeps DEF SaturatedStep
<1> QED BY <1>2, <1>3, <1>4, <1>5, <1>6, <1>7

\* A step that changes nothing keeps it.
LEMMA StutterKeeps ==
  ASSUME LoopInvariant, UNCHANGED vars
  PROVE  LoopInvariant'
<1>1. /\ UNCHANGED <<driver, chunks, rtc, reference, controlStep, anomalies, pause>>
      /\ UNCHANGED <<generation, mode, current, executed, resuming, replans, env>>
      /\ UNCHANGED <<tokens, spent, accepted>>
  BY DEF vars
<1>2. LoopTypeOK'
  BY <1>1 DEF LoopInvariant, LoopTypeOK, MaxReplans, MaxEpisodeSteps
<1>3. PausedIsClean' /\ ReferenceWasCommanded'
  BY <1>1 DEF LoopInvariant, PausedIsClean, ReferenceWasCommanded, AtBoundary
<1>4. PlansInStep'
  BY <1>1 DEF LoopInvariant, PlansInStep, InStep
<1>5. TokensInOrder'
  BY <1>1 DEF LoopInvariant, TokensInOrder, AtBoundary
<1> QED BY <1>2, <1>3, <1>4, <1>5 DEF LoopInvariant

\* The inductive invariant holds: types, plans in step with the robot also in the middle of
\* a chunk, a reference only after a command, and pauses that nobody has resumed yet.
THEOREM LoopSafe == Spec => []LoopInvariant
<1>1. Init => LoopInvariant
  BY InitiallyInStep
<1>2. LoopInvariant /\ [Next]_vars => LoopInvariant'
  <2> SUFFICES ASSUME LoopInvariant, [Next]_vars
               PROVE  LoopInvariant'
    OBVIOUS
  <2>1. CASE Execute
    BY <2>1, FaultKeeps, ReplanKeeps, ReadFailsKeeps, InferKeeps, ComposeRaisesKeeps, VetoKeeps,
       SendStepKeeps, SendLastKeeps DEF Execute
  <2>2. CASE Caller
    BY <2>2, ClearKeeps, PauseKeeps, CallerHoldsKeeps, ResetKeeps, ResumeKeeps DEF Caller
  <2>3. CASE UNCHANGED vars
    BY <2>3, StutterKeeps
  <2> QED BY <2>1, <2>2, <2>3 DEF Next
<1> QED BY <1>1, <1>2, PTL DEF Spec

\* What the loop remembers of the past is true of the robot, for every inference strategy,
\* every mixture of faults and every use of pause, resume, clear and reset.
THEOREM HistoryIsTrue == Spec => []HistoryHolds
<1>1. LoopInvariant => HistoryHolds
  <2> SUFFICES ASSUME LoopInvariant
               PROVE  AlignedHistory
    BY DEF LoopInvariant, HistoryHolds
  <2> SUFFICES ASSUME mode \in {"idle", "infer"}, ~env.done
               PROVE  /\ \A c \in chunks : controlStep - c.origin = env.step - c.env
                      /\ rtc # NoChunk => controlStep - rtc.origin = env.step - rtc.env
    BY DEF AlignedHistory
  <2>1. executed = 0 /\ controlStep \in Nat /\ chunks \subseteq ChunkType /\ rtc \in ChunkType
    BY DEF LoopInvariant, LoopTypeOK
  <2>2. ASSUME NEW c \in ChunkType, InStep(c)
        PROVE  controlStep - c.origin = env.step - c.env
    BY <2>1, <2>2 DEF InStep, ChunkType
  <2>3. (\A c \in chunks : InStep(c)) /\ (rtc # NoChunk => InStep(rtc))
    BY DEF LoopInvariant, PlansInStep
  <2> QED BY <2>1, <2>2, <2>3
<1> QED BY <1>1, LoopSafe, PTL

\* No pause is resumed twice: the only step that resumes one spends its generation, and a
\* pause made by a resume that failed is given to nobody.
THEOREM EachPauseOnce == Spec => ResumedOnce
<1>1. LoopInvariant /\ [Next]_vars =>
        [\A token \in tokens :
           AtBoundary /\ mode' = "infer" /\ resuming' = token => token \notin spent]_vars
  <2> SUFFICES ASSUME LoopInvariant, Next, NEW token \in tokens,
                      AtBoundary, mode' = "infer", resuming' = token
               PROVE  token \notin spent
    OBVIOUS
  <2>1. token # NotResuming /\ resuming = NotResuming
    BY DEF LoopInvariant, TokensInOrder, NotResuming, AtBoundary
  <2>2. ~Execute
    <3>1. ~Replan /\ ~ReadFails
      BY <2>1 DEF Replan, ReadFails
    <3>2. mode \notin {"infer", "chunk"}
      BY DEF AtBoundary
    <3> QED BY <3>1, <3>2 DEF Execute, Infer, InferenceFails, ComposeRaises, ObservationFails,
                ChunkUnsafe, StepUnsafe, Veto, ControllerFails, SaturatedStep, SendStep, SendLast
  <2>3. PICK t \in tokens, w \in (WindowLength - 1)..env.step : Resume(t, w)
    BY <2>2 DEF Next, Caller, AtBoundary, ClearActionHistory, PauseForObservation, CallerHolds, Reset
  <2>4. pause.given /\ resuming' = pause.generation
    BY <2>3 DEF Resume, IsThePause
  <2> QED BY <2>4 DEF LoopInvariant, TokensInOrder
<1> QED BY <1>1, LoopSafe, PTL DEF Spec, ResumedOnce
-----------------------------------------------------------------------------
(* A plain rollout: how many chunks it mixes, and why it stops *)

\* c was proposed a whole number of prefixes before z, and its horizon still reaches z.
Spaced(c, z) == \E k \in Nat : c.origin + k * ExecuteSteps = z /\ k * ExecuteSteps < ActionHorizon

\* The chunks of the buffer all come from different replans, each a whole prefix after the
\* one before; z is when the newest was made.
SpacedFrom(z) ==
  /\ mode = "chunk" => z = controlStep
  /\ mode \in {"idle", "infer"} /\ chunks # {} => z + ExecuteSteps = controlStep
  /\ \A c \in chunks : Spaced(c, z)

PlansSpaced ==
  /\ strategy # "temporal-ensemble" => chunks = {}
  /\ \E z \in Nat : SpacedFrom(z)
  /\ \A c, d \in chunks : c.origin = d.origin => c = d

\* Every replan that came back has taken a step of the environment.
ReplansTaken ==
  ~env.done =>
    /\ env.step < MaxEpisodeSteps
    /\ mode = "idle" => replans <= env.step
    /\ mode \in {"infer", "chunk"} => replans <= env.step + 1

\* The strengthening of RolloutBounded.
RolloutInvariant ==
  PlainRollout => PlansSpaced /\ ("hold" \notin Faults => ReplansTaken)

\* The facts a plain rollout's driver gives.
LEMMA PlainFacts ==
  ASSUME LoopInvariant, PlainRollout
  PROVE  /\ ~Pausing /\ "veto" \notin Faults /\ "stop" \notin Faults
         /\ MaxEpisodeSteps \in Nat \ {0}
BY DriverAssumption DEF LoopInvariant, LoopTypeOK, DriverType, MaxEpisodeSteps, PlainRollout

\* An unfinished environment is short of the end of its episode.
LEMMA SentInTime ==
  ASSUME NEW e \in EnvType, NEW kind \in {"reset", "command", "clipped", "hold"},
         NEW f \in Sent(e, kind), ~f.done, MaxEpisodeSteps \in Nat
  PROVE  ~e.done /\ f.step = e.step + 1 /\ f.step < MaxEpisodeSteps
<1>1. ~e.done
  BY DEF Sent
<1>2. PICK d \in {TRUE, e.step + 1 >= MaxEpisodeSteps} :
        f = [step |-> e.step + 1, done |-> d, last |-> kind]
  BY <1>1 DEF Sent
<1>3. f.step = e.step + 1 /\ ~d
  BY <1>2
<1>4. ~(e.step + 1 >= MaxEpisodeSteps)
  BY <1>2, <1>3
<1>5. e.step + 1 < MaxEpisodeSteps
  BY <1>4 DEF EnvType
<1> QED BY <1>1, <1>3, <1>5

LEMMA HeldInTime ==
  ASSUME NEW e \in EnvType, NEW f \in Held(e), ~f.done, MaxEpisodeSteps \in Nat,
         "hold" \notin Faults
  PROVE  ~e.done /\ f.step = e.step + 1 /\ f.step < MaxEpisodeSteps
<1>1. f \in Sent(e, "hold")
  BY DEF Held
<1> QED BY <1>1, SentInTime

\* An empty buffer is spaced, wherever the rollout goes on from.
LEMMA EmptySpaced ==
  ASSUME chunks' = {}, controlStep' \in Nat
  PROVE  PlansSpaced'
<1>1. SpacedFrom(controlStep)'
  BY DEF SpacedFrom
<1> QED BY <1>1 DEF PlansSpaced

LEMMA FailedSpaced ==
  ASSUME PlansSpaced, mode' = "failed", chunks' = chunks, driver' = driver
  PROVE  PlansSpaced'
<1>1. PICK z \in Nat : SpacedFrom(z)
  BY DEF PlansSpaced
<1>2. SpacedFrom(z)'
  BY <1>1 DEF SpacedFrom
<1> QED BY <1>2 DEF PlansSpaced, strategy

\* What add_and_compose keeps is spaced from now on: the newest chunk is a prefix older than
\* the present, and those that no longer reach it are dropped.
LEMMA ComposedSpaced ==
  ASSUME LoopInvariant, PlansSpaced, mode = "infer"
  PROVE  /\ \A c \in Composed : Spaced(c, controlStep)
         /\ \A c, d \in Composed : c.origin = d.origin => c = d
<1> DEFINE present == controlStep
<1>1. present \in Nat /\ chunks \subseteq ChunkType
  BY DEF LoopInvariant, LoopTypeOK
<1>2. PICK z \in Nat : SpacedFrom(z)
  BY DEF PlansSpaced
<1>3. Spaced(Proposal, controlStep)
  <2>1. Proposal.origin = present
    BY DEF Proposal
  <2>2. Proposal.origin + 0 * ExecuteSteps = present /\ 0 * ExecuteSteps < ActionHorizon
    BY <1>1, <2>1, HorizonAssumption
  <2> QED BY <2>2 DEF Spaced
<1>4. ASSUME NEW c \in chunks
      PROVE  c.origin < present /\ (c.origin + ActionHorizon > present => Spaced(c, controlStep))
  <2>1. z + ExecuteSteps = present
    BY <1>2, <1>4 DEF SpacedFrom
  <2>2. PICK k \in Nat : c.origin + k * ExecuteSteps = z /\ k * ExecuteSteps < ActionHorizon
    BY <1>2, <1>4 DEF SpacedFrom, Spaced
  <2>3. c.origin \in Nat
    BY <1>1, <1>4 DEF ChunkType
  <2>4. PICK m \in Nat : m = k * ExecuteSteps
    BY HorizonAssumption
  <2>5. (k + 1) * ExecuteSteps = m + ExecuteSteps
    BY <2>4, HorizonAssumption
  <2>6. c.origin + (m + ExecuteSteps) = present
    BY <1>1, <2>1, <2>2, <2>3, <2>4, HorizonAssumption
  <2>7. c.origin < present
    BY <1>1, <2>3, <2>4, <2>6, HorizonAssumption
  <2>8. ASSUME c.origin + ActionHorizon > present
        PROVE  Spaced(c, controlStep)
    <3>1. m + ExecuteSteps < ActionHorizon
      BY <1>1, <2>3, <2>4, <2>6, <2>8, HorizonAssumption
    <3>2. /\ c.origin + (k + 1) * ExecuteSteps = present
          /\ (k + 1) * ExecuteSteps < ActionHorizon
      BY <2>5, <2>6, <3>1
    <3>3. k + 1 \in Nat
      OBVIOUS
    <3> QED BY <3>2, <3>3 DEF Spaced
  <2> QED BY <2>7, <2>8
<1>5. \A c \in Composed : Spaced(c, controlStep)
  BY <1>3, <1>4 DEF Composed, PlansSpaced
<1>6. \A c \in chunks : c.origin # Proposal.origin
  <2>1. Proposal.origin = present
    BY DEF Proposal
  <2> QED BY <1>1, <1>4, <2>1 DEF ChunkType
<1>7. Composed \subseteq chunks \cup {Proposal}
  BY DEF Composed
<1>8. \A c, d \in Composed : c.origin = d.origin => c = d
  BY <1>6, <1>7 DEF PlansSpaced
<1> QED BY <1>5, <1>8

\* An inference proposes from the present.
LEMMA InferSpaced ==
  ASSUME LoopInvariant, PlansSpaced, Infer
  PROVE  PlansSpaced'
<1>1. /\ mode = "infer" /\ mode' = "chunk" /\ chunks' = Composed
      /\ controlStep' = controlStep /\ driver' = driver
  BY DEF Infer
<1>2. controlStep \in Nat
  BY DEF LoopInvariant, LoopTypeOK
<1>3. /\ \A c \in Composed : Spaced(c, controlStep)
      /\ \A c, d \in Composed : c.origin = d.origin => c = d
  BY <1>1, ComposedSpaced
<1>4. PICK z \in Nat : z = controlStep
  BY <1>2
<1>5. \A c \in chunks' : Spaced(c, z)
  BY <1>1, <1>3, <1>4
<1>6. SpacedFrom(z)'
  BY <1>1, <1>4, <1>5 DEF SpacedFrom
<1>7. strategy' # "temporal-ensemble" => chunks' = {}
  BY <1>1 DEF strategy, Composed, PlansSpaced
<1> QED BY <1>1, <1>3, <1>6, <1>7 DEF PlansSpaced

\* What was composed when the ensemble raised is spaced too; the rollout stops there.
LEMMA RaisedSpaced ==
  ASSUME LoopInvariant, PlansSpaced, ComposeRaises
  PROVE  PlansSpaced'
<1>1. /\ mode = "infer" /\ mode' = "failed" /\ driver' = driver
      /\ strategy = "temporal-ensemble"
      /\ chunks' \in {{}, chunks, Composed} /\ controlStep' = controlStep + 0
  BY DEF ComposeRaises, GiveBack, Forget
<1>2. controlStep \in Nat
  BY DEF LoopInvariant, LoopTypeOK
<1>3. CASE chunks' = {}
  BY <1>1, <1>2, <1>3, EmptySpaced
<1>4. CASE chunks' = chunks
  BY <1>1, <1>4, FailedSpaced
<1>5. CASE chunks' = Composed
  <2>1. /\ \A c \in Composed : Spaced(c, controlStep)
        /\ \A c, d \in Composed : c.origin = d.origin => c = d
    BY <1>1, ComposedSpaced
  <2>2. PICK z \in Nat : z = controlStep
    BY <1>2
  <2>3. \A c \in chunks' : Spaced(c, z)
    BY <1>5, <2>1, <2>2
  <2>4. SpacedFrom(z)'
    BY <1>1, <2>3 DEF SpacedFrom
  <2> QED BY <1>1, <1>5, <2>1, <2>4 DEF PlansSpaced, strategy
<1> QED BY <1>1, <1>3, <1>4, <1>5

\* A rollout is given back control after a whole prefix, or after it forgot everything, or
\* it stops.
LEMMA StepSpaced ==
  ASSUME LoopInvariant, LoopInvariant', PlansSpaced, PlainRollout, Next
  PROVE  PlansSpaced'
<1> USE DEF history
<1>1. controlStep \in Nat /\ controlStep' \in Nat
  BY DEF LoopInvariant, LoopTypeOK
<1>2. ~Pausing /\ "veto" \notin Faults /\ "stop" \notin Faults
  BY PlainFacts
<1>3. CASE Infer
  BY <1>3, InferSpaced
<1>4. CASE ComposeRaises
  BY <1>4, RaisedSpaced
<1>5. CASE InferenceFails \/ ChunkUnsafe \/ StepUnsafe \/ SaturatedStep \/ Reset
  <2>1. chunks' = {}
    BY <1>5 DEF InferenceFails, ChunkUnsafe, StepUnsafe, SaturatedStep, Reset, ReturnAnomaly, Forget
  <2> QED BY <1>1, <2>1, EmptySpaced
<1>6. CASE ReadFails \/ ObservationFails \/ ControllerFails
  <2>1. \/ chunks' = {}
        \/ mode' = "failed" /\ chunks' = chunks /\ driver' = driver
    BY <1>6 DEF ReadFails, ObservationFails, ControllerFails, ReturnFailed, GiveBack
  <2> QED BY <1>1, <2>1, EmptySpaced, FailedSpaced
<1>7. PICK z \in Nat : SpacedFrom(z)
  BY DEF PlansSpaced
<1>8. CASE Replan \/ SendStep
  <2>1. /\ chunks' = chunks /\ controlStep' = controlStep /\ driver' = driver
        /\ \/ mode = "idle" /\ mode' = "infer"
           \/ mode' = mode
    BY <1>8 DEF Replan, SendStep
  <2>2. SpacedFrom(z)'
    BY <1>7, <2>1 DEF SpacedFrom
  <2> QED BY <2>1, <2>2 DEF PlansSpaced, strategy
<1>9. CASE SendLast
  <2>1. /\ mode = "chunk" /\ mode' = "idle" /\ chunks' = chunks /\ driver' = driver
        /\ controlStep' = controlStep + (executed + 1) /\ executed + 1 = ExecuteSteps
    BY <1>2, <1>9 DEF SendLast, ReturnClean, GiveBack
  <2>2. SpacedFrom(z)'
    BY <1>7, <2>1 DEF SpacedFrom
  <2> QED BY <2>1, <2>2 DEF PlansSpaced, strategy
<1> QED BY <1>2, <1>3, <1>4, <1>5, <1>6, <1>8, <1>9 DEF Next, Execute, Caller, Veto,
        ClearActionHistory, PauseForObservation, CallerHolds, Resume

\* A replan of a plain rollout that gives control back, and does not stop it, has taken a
\* step of the environment: the hold after an anomaly or the commands of the prefix.
LEMMA StepTaken ==
  ASSUME LoopInvariant, LoopInvariant', PlainRollout, "hold" \notin Faults, ReplansTaken, Next
  PROVE  ReplansTaken'
<1> USE DEF history
<1>1. ~Pausing /\ "veto" \notin Faults /\ "stop" \notin Faults /\ MaxEpisodeSteps \in Nat \ {0}
  BY PlainFacts
<1>2. env \in EnvType /\ env.step \in Nat /\ replans \in Nat
  BY <1>1, InvariantEnv DEF LoopInvariant, LoopTypeOK, EnvType, MaxReplans
<1>3. MaxEpisodeSteps' = MaxEpisodeSteps
  BY DEF Next, Execute, Caller, Replan, ReadFails, Infer, InferenceFails, ComposeRaises,
         ObservationFails, ChunkUnsafe, StepUnsafe, Veto, ControllerFails, SaturatedStep, SendStep, SendLast,
         ReturnAnomaly, ReturnFailed, ReturnClean, GiveBack, ClearActionHistory,
         PauseForObservation, CallerHolds, Reset, Resume, MaxEpisodeSteps
<1>4. PICK f : f = env'
  OBVIOUS
<1> SUFFICES ASSUME ~f.done
             PROVE  /\ f.step < MaxEpisodeSteps
                    /\ mode' = "idle" => replans' <= f.step
                    /\ mode' \in {"infer", "chunk"} => replans' <= f.step + 1
  BY <1>3, <1>4 DEF ReplansTaken
<1>5. ASSUME f \in Held(env) \cup Sent(env, "command") \cup Sent(env, "clipped")
      PROVE  /\ f.step = env.step + 1 /\ f.step < MaxEpisodeSteps
             /\ mode \in {"infer", "chunk"} => replans <= env.step + 1
  BY <1>1, <1>2, <1>5, HeldInTime, SentInTime DEF ReplansTaken
<1>6. CASE InferenceFails \/ ChunkUnsafe \/ StepUnsafe \/ SaturatedStep
  <2>1. /\ mode \in {"infer", "chunk"} /\ mode' \in {"idle", "failed"} /\ replans' = replans
        /\ f \in Held(env) \cup Sent(env, "clipped")
    BY <1>4, <1>6 DEF InferenceFails, ChunkUnsafe, StepUnsafe, SaturatedStep, ReturnAnomaly, GiveBack
  <2> QED BY <1>5, <2>1
<1>7. CASE SendStep \/ SendLast
  <2>1. /\ mode = "chunk" /\ mode' \in {"idle", "chunk"} /\ replans' = replans
        /\ f \in Sent(env, "command")
    BY <1>4, <1>7 DEF SendStep, SendLast, ReturnClean, GiveBack
  <2> QED BY <1>2, <1>5, <2>1
<1>8. CASE ReadFails \/ ObservationFails \/ ComposeRaises
  <2>1. mode' = "failed" /\ (f \in Held(env) \/ f = env)
    BY <1>4, <1>8 DEF ReadFails, ObservationFails, ComposeRaises, ReturnFailed, GiveBack
  <2>2. f.step < MaxEpisodeSteps
    BY <1>5, <2>1 DEF ReplansTaken
  <2> QED BY <2>1, <2>2
<1>9. CASE ControllerFails
  <2>1. PICK e \in {env} \cup Sent(env, "command") : f \in Held(e)
    BY <1>4, <1>9 DEF ControllerFails
  <2>2. e \in EnvType
    BY <1>2, <2>1, SentSteps
  <2>3. f.step < MaxEpisodeSteps
    BY <1>1, <2>1, <2>2, HeldInTime
  <2>4. mode' = "failed"
    BY <1>9 DEF ControllerFails, ReturnFailed, GiveBack
  <2> QED BY <2>3, <2>4
<1>10. CASE Replan
  <2>1. mode = "idle" /\ mode' = "infer" /\ replans' = replans + 1 /\ f = env
    BY <1>4, <1>10 DEF Replan
  <2> QED BY <1>2, <2>1 DEF ReplansTaken
<1>11. CASE Infer
  <2>1. mode = "infer" /\ mode' = "chunk" /\ replans' = replans /\ f = env
    BY <1>4, <1>11 DEF Infer
  <2> QED BY <2>1 DEF ReplansTaken
<1>12. CASE Reset
  <2>1. mode' = "idle" /\ replans' = 0 /\ f.step = 0
    BY <1>4, <1>12 DEF Reset, NewEnv
  <2> QED BY <1>1, <2>1
<1> QED BY <1>1, <1>6, <1>7, <1>8, <1>9, <1>10, <1>11, <1>12 DEF Next, Execute, Caller, Veto,
        ClearActionHistory, PauseForObservation, CallerHolds, Resume

LEMMA RolloutInitially ==
  ASSUME Init
  PROVE  RolloutInvariant
<1>1. LoopInvariant
  BY InitiallyInStep
<1>2. ASSUME PlainRollout
      PROVE  ReplansTaken
  <2>1. MaxEpisodeSteps \in Nat \ {0}
    BY <1>1, <1>2, PlainFacts
  <2> QED BY <2>1 DEF Init, NewEnv, ReplansTaken
<1>3. SpacedFrom(0)
  BY DEF Init, SpacedFrom
<1>4. PlansSpaced
  BY <1>3 DEF Init, PlansSpaced
<1> QED BY <1>2, <1>4 DEF RolloutInvariant

LEMMA RolloutKeeps ==
  ASSUME LoopInvariant, LoopInvariant', RolloutInvariant, [Next]_vars
  PROVE  RolloutInvariant'
<1>1. CASE Next
  <2>1. driver' = driver
    BY <1>1 DEF Next, Execute, Caller, Replan, ReadFails, Infer, InferenceFails, ComposeRaises,
         ObservationFails, ChunkUnsafe, StepUnsafe, Veto, ControllerFails, SaturatedStep,
         SendStep, SendLast, ReturnAnomaly, ReturnFailed, ReturnClean, GiveBack,
         ClearActionHistory, PauseForObservation, CallerHolds, Reset, Resume
  <2>2. PlainRollout' = PlainRollout /\ Faults' = Faults
    BY <2>1 DEF PlainRollout, Pausing, Faults
  <2> QED BY <1>1, <2>2, StepSpaced, StepTaken DEF RolloutInvariant
<1>2. CASE UNCHANGED vars
  BY <1>2 DEF vars, history, RolloutInvariant, PlainRollout, Pausing, Faults, PlansSpaced, SpacedFrom,
              strategy, ReplansTaken, MaxEpisodeSteps
<1> QED BY <1>1, <1>2

-----------------------------------------------------------------------------
(* Counting the chunks *)

LEMMA TimesGrows ==
  ASSUME NEW a \in Nat, NEW b \in Nat, NEW c \in Nat, a <= b
  PROVE  a * c <= b * c
<1>1. PICK d \in Nat : b = a + d
  <2>1. b - a \in Nat /\ b = a + (b - a)
    OBVIOUS
  <2> QED BY <2>1
<1>2. b * c = a * c + d * c
  BY <1>1
<1>3. a * c \in Nat /\ d * c \in Nat
  OBVIOUS
<1> QED BY <1>2, <1>3

\* Different chunks lie different numbers of prefixes in the past, and a horizon holds only
\* so many.
LEMMA SpacedIsBounded ==
  ASSUME LoopInvariant, PlansSpaced
  PROVE  BufferBounded
<1> DEFINE q == (ActionHorizon - 1) \div ExecuteSteps
<1>1. ExecuteSteps \in Nat \ {0} /\ ActionHorizon \in Nat /\ ActionHorizon - 1 \in Nat
  BY HorizonAssumption
<1>2. q \in Nat /\ q * ExecuteSteps <= ActionHorizon - 1 /\ (q + 1) * ExecuteSteps > ActionHorizon - 1
  BY <1>1
<1> HIDE DEF q
<1>3. PICK z \in Nat : SpacedFrom(z)
  BY DEF PlansSpaced
<1> DEFINE Back(c) == CHOOSE k \in Nat : c.origin + k * ExecuteSteps = z
                                         /\ k * ExecuteSteps < ActionHorizon
           back == [c \in chunks |-> Back(c)]
<1>4. ASSUME NEW c \in chunks
      PROVE  /\ Back(c) \in Nat /\ c.origin + Back(c) * ExecuteSteps = z
             /\ Back(c) * ExecuteSteps < ActionHorizon
  BY <1>3 DEF SpacedFrom, Spaced
<1>5. ASSUME NEW c \in chunks
      PROVE  Back(c) \in 0..q
  <2>1. PICK k \in Nat : k = Back(c) /\ k * ExecuteSteps < ActionHorizon
    BY <1>4
  <2>2. ASSUME k >= q + 1
        PROVE  FALSE
    <3>1. (q + 1) * ExecuteSteps <= k * ExecuteSteps
      BY <1>1, <1>2, <2>2, TimesGrows
    <3>2. k * ExecuteSteps \in Nat /\ (q + 1) * ExecuteSteps \in Nat
      BY <1>1, <1>2
    <3> QED BY <1>1, <1>2, <2>1, <3>1, <3>2
  <2> QED BY <1>2, <2>1, <2>2
<1>6. ASSUME NEW c \in chunks, NEW d \in chunks, Back(c) = Back(d)
      PROVE  c = d
  <2>1. PICK k \in Nat : k = Back(c)
    BY <1>4
  <2>2. PICK m \in Nat : m = k * ExecuteSteps
    BY <1>1
  <2>3. c.origin + m = z /\ d.origin + m = z
    BY <1>4, <1>6, <2>1, <2>2
  <2>4. c.origin \in Nat /\ d.origin \in Nat
    BY DEF LoopInvariant, LoopTypeOK, ChunkType
  <2>5. PICK a \in Nat, b \in Nat : a = c.origin /\ b = d.origin
    BY <2>4
  <2>6. a + m = z /\ b + m = z
    BY <2>3, <2>5
  <2>7. a = b
    BY <2>6
  <2> QED BY <2>5, <2>7 DEF PlansSpaced
<1>7. back \in Injection(chunks, 0..q)
  <2>1. back \in [chunks -> 0..q]
    BY <1>5
  <2>2. \A c, d \in chunks : back[c] = back[d] => c = d
    BY <1>6
  <2> QED BY <2>1, <2>2 DEF Injection, IsInjective
<1>8. IsFiniteSet(0..q) /\ Cardinality(0..q) = q + 1
  BY <1>2, FS_Interval
<1>9. IsFiniteSet(chunks) /\ Cardinality(chunks) <= q + 1
  BY <1>7, <1>8, FS_Injection
<1>10. PICK n \in Nat : n = Cardinality(chunks) /\ n <= q + 1
  BY <1>9, FS_CardinalityType
<1>11. n * ExecuteSteps <= (q + 1) * ExecuteSteps
  BY <1>1, <1>2, <1>10, TimesGrows
<1>12. (q + 1) * ExecuteSteps = q * ExecuteSteps + ExecuteSteps
  BY <1>1, <1>2
<1>13. PICK r \in Nat : r = q * ExecuteSteps
  BY <1>1, <1>2
<1>14. PICK p \in Nat : p = n * ExecuteSteps
  BY <1>1
<1>15. p < ActionHorizon + ExecuteSteps
  BY <1>1, <1>2, <1>11, <1>12, <1>13, <1>14
<1> QED BY <1>10, <1>14, <1>15 DEF BufferBounded

\* A plain rollout's ensemble never mixes more chunks than one horizon can hold, and while
\* holds reach the environment the rollout never just runs out of replans: for every
\* strategy, horizon, prefix, episode length and anomaly budget.
THEOREM RolloutsAreBounded == Spec => []RolloutBounded
<1>1. LoopInvariant /\ RolloutInvariant => RolloutBounded
  <2> SUFFICES ASSUME LoopInvariant, RolloutInvariant, PlainRollout
               PROVE  BufferBounded /\ EndsForAReason
    BY DEF RolloutBounded
  <2>1. BufferBounded
    BY SpacedIsBounded DEF RolloutInvariant
  <2>2. ASSUME "hold" \notin Faults, mode = "idle", ~env.done
        PROVE  replans < MaxReplans
    <3>1. MaxEpisodeSteps \in Nat /\ env.step \in Nat /\ replans \in Nat
      BY PlainFacts DEF LoopInvariant, LoopTypeOK, MaxReplans
    <3> QED BY <2>2, <3>1 DEF RolloutInvariant, ReplansTaken, MaxReplans
  <2> QED BY <2>1, <2>2 DEF EndsForAReason
<1>2. Init => RolloutInvariant
  BY RolloutInitially
<1>3. LoopInvariant /\ LoopInvariant' /\ RolloutInvariant /\ [Next]_vars => RolloutInvariant'
  BY RolloutKeeps
<1> QED BY <1>1, <1>2, <1>3, LoopSafe, PTL DEF Spec
=============================================================================
