--------------------------- MODULE LocalDaggerProofs ---------------------------
(***************************************************************************)
(* Theorems about one episode of the amended local DAgger collection, for  *)
(* every budget, chunk length, tolerance and length of the expert's holds. *)
(***************************************************************************)
EXTENDS LocalDagger, TLAPS

Rolling == {"replan", "chunk", "failed", "replanned", "boundary"}
Driving == Moves \cup Holds \cup {"built"}

Types ==
  /\ boundary \in {"reach_grasp", "grasp_lift"}
  /\ at \in Rolling \cup Driving \cup {"ended"}
  /\ steps \in Nat /\ steps <= EnvLimit /\ completed \in 0..5 /\ stable \in Nat
  /\ crossed \in 0..steps /\ takeover \in 0..steps
  /\ last \in [terminated : BOOLEAN, truncated : BOOLEAN]
  /\ stop \in BOOLEAN /\ early \in BOOLEAN /\ spent \in BOOLEAN /\ done \in BOOLEAN

\* The recorder, the tracker and the environment agree on the actions so far.
Counted ==
  /\ last.truncated <=> steps >= EnvLimit
  /\ completed < Target <=> crossed = NoStep
  /\ crossed <= PolicyLimit

\* Every event that the policy's controller has to stop at is one it has asked a stop for.
PolicyActs ==
  at \in Rolling =>
    /\ takeover = NoStep /\ exhausted = "none" /\ outcome = "running"
    /\ steps <= PolicyLimit
    /\ crossed # NoStep => steps = crossed /\ stop
    /\ early => stop
    /\ spent => stop /\ steps = PolicyLimit /\ crossed = NoStep
    /\ done => stop
    /\ last.terminated => done
    /\ steps = PolicyLimit => stop
    /\ stop => crossed # NoStep \/ early \/ spent
    /\ at \in {"replan", "chunk"} => ~stop
    /\ at = "boundary" => crossed # NoStep

ExpertActs ==
  at \in Driving =>
    /\ takeover = crossed /\ crossed # NoStep
    /\ exhausted = "none" /\ outcome = "running"
    /\ ~last.truncated
    /\ last.terminated => done
    /\ done \/ steps - takeover < ExpertLimit
    /\ at = "built" => TaskCompleted

\* The episode that has ended is as its reason says.
EndedWell ==
  at = "ended" =>
    /\ outcome \in Reasons \cup {"accepted"}
    /\ takeover = NoStep \/ takeover = crossed
    /\ takeover = NoStep => steps <= PolicyLimit /\ (crossed # NoStep => steps = crossed)
    /\ takeover # NoStep => done \/ steps - takeover <= ExpertLimit
    /\ outcome = "accepted" => steps < EnvLimit /\ TaskCompleted
    /\ outcome = "time limit" <=> last.truncated
    /\ outcome = "expert budget" <=> exhausted = "expert"
    /\ outcome = "policy budget" <=> exhausted = "policy"
    /\ outcome = "expert budget" =>
         /\ takeover # NoStep /\ ~last.terminated
         /\ done \/ steps - takeover = ExpertLimit
    /\ outcome = "policy budget" => steps = PolicyLimit /\ takeover = NoStep /\ crossed = NoStep

DaggerInvariant == Types /\ Counted /\ PolicyActs /\ ExpertActs /\ EndedWell

-----------------------------------------------------------------------------
(* Numbers and places *)

LEMMA Numbers ==
  /\ PolicyLimit \in Nat \ {0} /\ ExpertLimit \in Nat \ {0} /\ EnvLimit \in Nat
  /\ EnvLimit = PolicyLimit + ExpertLimit
  /\ StableGrasp \in Nat \ {0} /\ StablePlace \in Nat \ {0} /\ NoStep = 0
  BY LocalDaggerAssumption DEF EnvLimit, NoStep

LEMMA Differences ==
  ASSUME NEW x \in Nat, NEW y \in Nat
  PROVE  /\ x - y < ExpertLimit => x - y <= ExpertLimit
         /\ x - y >= ExpertLimit /\ x - y <= ExpertLimit => x - y = ExpertLimit
         /\ ~(x - y >= ExpertLimit) => x - y < ExpertLimit
  BY Numbers

LEMMA Below == ASSUME NEW x \in Nat, NEW y \in 0..x PROVE y \in Nat
  OBVIOUS

LEMMA Deadlines ==
  ASSUME NEW x \in Nat
  PROVE  /\ ~(x >= EnvLimit) => x < EnvLimit
         /\ x <= EnvLimit => (x = EnvLimit <=> x >= EnvLimit)
  BY Numbers

LEMMA TargetRange == Target \in {1, 2}
  BY DEF Target

\* The tracker never takes a skill back.
LEMMA TrackerClimbs ==
  ASSUME completed \in 0..5, stable \in Nat, NEW holds \in BOOLEAN
  PROVE  /\ Tracked(holds).completed \in completed..5
         /\ Tracked(holds).stable \in Nat
  <1>1. CASE completed \in {0, 2, 3}
    BY <1>1 DEF Tracked
  <1>2. CASE completed = 1 \/ completed = 4
    BY <1>2 DEF Tracked
  <1>3. CASE completed = 5
    BY <1>3 DEF Tracked
  <1> QED BY <1>1, <1>2, <1>3

\* One action, whoever takes it.
LEMMA OneAction ==
  ASSUME Types, Counted, UNCHANGED boundary, steps < EnvLimit,
         NEW holds \in BOOLEAN, NEW terminated \in BOOLEAN, Act(holds, terminated)
  PROVE  /\ steps' = steps + 1 /\ steps' <= EnvLimit
         /\ completed' \in completed..5 /\ stable' \in Nat
         /\ crossed' \in 0..steps'
         /\ last' \in [terminated : BOOLEAN, truncated : BOOLEAN]
         /\ last'.terminated = terminated
         /\ last'.truncated <=> steps' >= EnvLimit
         /\ completed' < Target' <=> crossed' = NoStep
         /\ crossed # NoStep => crossed' = crossed
         /\ crossed = NoStep /\ crossed' # NoStep => crossed' = steps'
         /\ completed < Target /\ completed' >= Target <=> crossed = NoStep /\ crossed' # NoStep
         /\ Target' = Target
  <1>1. /\ steps' = steps + 1 /\ completed' = Tracked(holds).completed
        /\ stable' = Tracked(holds).stable
        /\ crossed' = IF completed < Target /\ completed' >= Target THEN steps + 1 ELSE crossed
        /\ last' = [terminated |-> terminated, truncated |-> steps + 1 >= EnvLimit]
    BY DEF Act
  <1>2. completed' \in completed..5 /\ stable' \in Nat /\ completed \in 0..5
    BY <1>1, TrackerClimbs DEF Types
  <1>3. Target' = Target /\ Target \in {1, 2}
    BY TargetRange DEF Target
  <1>4. steps' \in Nat /\ steps' <= EnvLimit /\ steps \in Nat
    BY <1>1, Numbers DEF Types
  <1>5. (steps + 1 >= EnvLimit) \in BOOLEAN
    BY Numbers, <1>4
  <1>6. /\ last' \in [terminated : BOOLEAN, truncated : BOOLEAN]
        /\ last'.terminated = terminated /\ (last'.truncated <=> steps' >= EnvLimit)
    BY <1>1, <1>5
  <1>7. crossed \in 0..steps /\ (completed < Target <=> crossed = NoStep)
    BY DEF Types, Counted
  <1> QED BY <1>1, <1>2, <1>3, <1>4, <1>6, <1>7, Numbers

LEMMA InvariantInit == Init => DaggerInvariant
  <1> SUFFICES ASSUME Init PROVE DaggerInvariant
    OBVIOUS
  <1>1. at \in Rolling /\ at = "replan" /\ at \notin Driving
    BY DEF Init, Rolling, Driving, Moves, Holds
  <1>2. Types
    <2>1. steps = 0 /\ crossed = 0 /\ takeover = 0 /\ completed = 0 /\ stable = 0
      BY DEF Init, NoStep
    <2>2. steps <= EnvLimit /\ crossed \in 0..steps /\ takeover \in 0..steps /\ completed \in 0..5
      BY <2>1, Numbers
    <2>3. last \in [terminated : BOOLEAN, truncated : BOOLEAN]
      BY DEF Init
    <2>4. stop \in BOOLEAN /\ early \in BOOLEAN /\ spent \in BOOLEAN /\ done \in BOOLEAN
      BY DEF Init
    <2>5. boundary \in {"reach_grasp", "grasp_lift"} /\ steps \in Nat /\ stable \in Nat
      BY <2>1 DEF Init
    <2> QED BY <1>1, <2>2, <2>3, <2>4, <2>5, Zenon DEF Types
  <1>3. Counted
    BY Numbers, TargetRange DEF Init, Counted
  <1>4. PolicyActs
    BY <1>1, Numbers DEF Init, PolicyActs
  <1> QED BY <1>1, <1>2, <1>3, <1>4 DEF DaggerInvariant, ExpertActs, EndedWell

-----------------------------------------------------------------------------
(* The policy *)

LEMMA Apart ==
  /\ \A p \in Rolling : p \notin Driving /\ p # "ended"
  /\ \A p \in Driving : p \notin Rolling /\ p # "ended"
  /\ \A p \in Moves \cup Holds : p \in Driving /\ p # "built"
  /\ "ended" \notin Rolling \cup Driving
  BY DEF Rolling, Driving, Moves, Holds

\* An action of the policy, before which it has no reason to stop.
LEMMA SendKeeps ==
  ASSUME DaggerInvariant, at \in {"replan", "chunk"},
         \E holds, terminated \in BOOLEAN : Send(holds, terminated),
         at' \in {"failed", "replanned", "chunk"}, at' = "chunk" => ~stop',
         UNCHANGED <<boundary, takeover, exhausted, outcome>>
  PROVE  DaggerInvariant'
  <1>1. at \in Rolling /\ at' \in Rolling /\ at' \notin Driving /\ at' # "ended" /\ at' # "boundary"
        /\ at' # "replan"
    BY Apart DEF Rolling
  <1>2. PICK holds \in BOOLEAN, terminated \in BOOLEAN : Send(holds, terminated)
    OBVIOUS
  <1>3. /\ ~stop /\ ~early /\ ~spent /\ ~done /\ crossed = NoStep /\ steps < PolicyLimit
        /\ takeover = NoStep /\ exhausted = "none" /\ outcome = "running"
    BY <1>1, Numbers DEF DaggerInvariant, PolicyActs, Types
  <1>4. Act(holds, terminated) /\ steps < EnvLimit /\ steps \in Nat
    BY <1>2, <1>3, Numbers DEF Send, DaggerInvariant, Types
  <1>5. /\ steps' = steps + 1 /\ steps' <= EnvLimit
        /\ completed' \in completed..5 /\ stable' \in Nat /\ crossed' \in 0..steps'
        /\ last' \in [terminated : BOOLEAN, truncated : BOOLEAN]
        /\ last'.truncated <=> steps' >= EnvLimit
        /\ completed' < Target' <=> crossed' = NoStep
        /\ crossed' # NoStep => crossed' = steps'
        /\ completed < Target /\ completed' >= Target <=> crossed' # NoStep
    BY <1>3, <1>4, OneAction DEF DaggerInvariant
  <1> DEFINE crosses == completed < Target /\ completed' >= Target
  <1> DEFINE used == ~crosses /\ ~Over /\ steps' >= PolicyLimit
  <1>6. /\ done' \in BOOLEAN /\ early' \in BOOLEAN /\ spent' \in BOOLEAN /\ stop' \in BOOLEAN
        /\ done' <=> Over
        /\ early' <=> Over /\ ~crosses
        /\ spent' <=> used
        /\ stop' <=> crosses \/ Over \/ used
    <2>1. /\ done' = (done \/ Over)
          /\ early' = (early \/ (Over /\ ~crosses))
          /\ spent' = (spent \/ (~Stops(crosses) /\ PolicySpent))
          /\ stop' = (stop \/ Stops(crosses) \/ (~Stops(crosses) /\ PolicySpent))
      BY <1>2 DEF Send
    <2>2. (Stops(crosses) <=> crosses \/ Over) /\ (PolicySpent <=> steps' >= PolicyLimit)
      BY DEF Stops, PolicySpent
    <2>3. (~Stops(crosses) /\ PolicySpent) <=> used
      BY <2>2
    <2> HIDE DEF crosses, used
    <2> QED BY <1>3, <2>1, <2>2, <2>3, Zenon
  <1>7. (Over <=> last'.terminated \/ last'.truncated) /\ (crosses <=> crossed' # NoStep)
    BY <1>5 DEF Over
  <1>8. Types'
    <2>2. takeover' \in 0..steps'
      BY <1>3, <1>4, <1>5, Numbers
    <2>3. completed' \in 0..5
      BY <1>5 DEF DaggerInvariant, Types
    <2> QED BY <1>1, <1>4, <1>5, <1>6, <2>2, <2>3, Numbers DEF DaggerInvariant, Types, EnvLimit
  <1>9. Counted'
    BY <1>3, <1>4, <1>5, Numbers DEF Counted, EnvLimit
  <1>10. PolicyActs'
    <2>1. steps' <= PolicyLimit
      BY <1>3, <1>4, <1>5, Numbers
    <2>2. /\ crossed' # NoStep => steps' = crossed' /\ stop'
          /\ early' => stop'
          /\ spent' => stop' /\ steps' = PolicyLimit /\ crossed' = NoStep
          /\ done' => stop'
          /\ last'.terminated => done'
          /\ steps' = PolicyLimit => stop'
          /\ stop' => crossed' # NoStep \/ early' \/ spent'
      BY <1>3, <1>4, <1>5, <1>6, <1>7, <2>1, Numbers
    <2> QED BY <1>1, <1>3, <2>1, <2>2 DEF PolicyActs
  <1> QED BY <1>1, <1>8, <1>9, <1>10 DEF DaggerInvariant, ExpertActs, EndedWell

LEMMA ReplanKeeps == ASSUME DaggerInvariant, Replan PROVE DaggerInvariant'
  <1>1. /\ at = "replan" /\ at' = "chunk"
        /\ UNCHANGED <<boundary, steps, completed, stable, crossed, last, stop, early, spent, done,
                       takeover, exhausted, outcome>>
    BY DEF Replan, trackVars, policyVars
  <1>2. at \in Rolling /\ at' \in Rolling /\ at' \notin Driving
    BY <1>1, Apart DEF Rolling
  <1> QED BY <1>1, <1>2
          DEF DaggerInvariant, Types, Counted, PolicyActs, ExpertActs, EndedWell, Target

LEMMA PolicyKeeps ==
  ASSUME DaggerInvariant, PolicyAction \/ Hold \/ Saturate PROVE DaggerInvariant'
  <1>1. /\ at \in {"replan", "chunk"}
        /\ \E holds, terminated \in BOOLEAN : Send(holds, terminated)
        /\ at' \in {"failed", "replanned", "chunk"} /\ (at' = "chunk" => ~stop')
        /\ UNCHANGED <<boundary, takeover, exhausted, outcome>>
    BY DEF PolicyAction, Hold, Saturate, AfterAnomaly
  <1> QED BY <1>1, SendKeeps

LEMMA ControllerFailsKeeps == ASSUME DaggerInvariant, ControllerFails PROVE DaggerInvariant'
  <1>1. /\ at = "chunk" /\ at' = "failed"
        /\ UNCHANGED <<boundary, steps, completed, stable, crossed, last, stop, early, spent, done,
                       takeover, exhausted, outcome>>
    BY DEF ControllerFails, trackVars, policyVars
  <1>2. at \in Rolling /\ at' \in Rolling /\ at' \notin Driving
    BY <1>1, Apart DEF Rolling
  <1> QED BY <1>1, <1>2
          DEF DaggerInvariant, Types, Counted, PolicyActs, ExpertActs, EndedWell, Target

LEMMA PolicyIsNotTruncated ==
  ASSUME DaggerInvariant, steps <= PolicyLimit PROVE ~last.truncated /\ steps < EnvLimit
  BY Numbers DEF DaggerInvariant, Types, Counted

LEMMA JudgeKeeps == ASSUME DaggerInvariant, Judge PROVE DaggerInvariant'
  <1>1. /\ at \in {"failed", "replanned"} /\ at \in Rolling
        /\ UNCHANGED <<boundary, steps, completed, stable, crossed, last, stop, early, spent, done,
                       takeover>>
    BY DEF Judge, trackVars, policyVars, Rolling
  <1>2. Target' = Target /\ EnvLimit' = EnvLimit /\ completed \in 0..5 /\ Target \in {1, 2}
    BY <1>1, TargetRange DEF Target, EnvLimit, DaggerInvariant, Types
  <1>3. Counted'
    BY <1>1, <1>2 DEF DaggerInvariant, Counted
  <1>4. /\ takeover = NoStep /\ exhausted = "none" /\ outcome = "running" /\ steps <= PolicyLimit
        /\ ~last.truncated /\ steps < EnvLimit
    BY <1>1, PolicyIsNotTruncated DEF DaggerInvariant, PolicyActs
  <1>5. \/ /\ at' = "ended" /\ outcome' \in {"rollin failed", "ended before boundary"}
           /\ exhausted' = exhausted
        \/ /\ at' = "ended" /\ outcome' = "policy budget" /\ exhausted' = "policy" /\ spent
        \/ /\ at' \in {"boundary", "replan"} /\ ~early /\ ~spent
           /\ at' = "boundary" <=> completed >= Target
           /\ UNCHANGED <<outcome, exhausted>>
    BY DEF Judge, Ends
  <1>6. CASE at' = "ended" /\ outcome' \in {"rollin failed", "ended before boundary"}
                           /\ exhausted' = exhausted
    <2>1. at' \notin Rolling /\ at' \notin Driving
      BY <1>6, Apart
    <2>2. EndedWell'
      BY <1>1, <1>4, <1>6 DEF DaggerInvariant, PolicyActs, EndedWell, Reasons
    <2> QED BY <1>1, <1>3, <1>6, <2>1, <2>2 DEF DaggerInvariant, Types, PolicyActs, ExpertActs
  <1>7. CASE at' = "ended" /\ outcome' = "policy budget" /\ exhausted' = "policy" /\ spent
    <2>1. at' \notin Rolling /\ at' \notin Driving
      BY <1>7, Apart
    <2>2. EndedWell'
      BY <1>1, <1>4, <1>7 DEF DaggerInvariant, PolicyActs, EndedWell, Reasons
    <2> QED BY <1>1, <1>3, <1>7, <2>1, <2>2 DEF DaggerInvariant, Types, PolicyActs, ExpertActs
  <1>8. CASE /\ at' \in {"boundary", "replan"} /\ ~early /\ ~spent
             /\ at' = "boundary" <=> completed >= Target
             /\ UNCHANGED <<outcome, exhausted>>
    <2>1. at' \in Rolling /\ at' \notin Driving /\ at' # "ended" /\ at' # "chunk"
      BY <1>8, Apart DEF Rolling
    <2>2. at' = "boundary" <=> crossed # NoStep
      BY <1>2, <1>8 DEF DaggerInvariant, Counted
    <2>3. PolicyActs'
      BY <1>1, <1>8, <2>1, <2>2 DEF DaggerInvariant, PolicyActs
    <2> QED BY <1>1, <1>3, <2>1, <2>3 DEF DaggerInvariant, Types, ExpertActs, EndedWell
  <1> QED BY <1>5, <1>6, <1>7, <1>8

-----------------------------------------------------------------------------
(* The expert *)

LEMMA TakeOverKeeps == ASSUME DaggerInvariant, TakeOver PROVE DaggerInvariant'
  <1>1. /\ at = "boundary" /\ at \in Rolling
        /\ UNCHANGED <<boundary, steps, completed, stable, crossed, last, stop, early, spent, done,
                       exhausted>>
    BY DEF TakeOver, trackVars, policyVars, Rolling
  <1>2. Counted'
    BY <1>1 DEF DaggerInvariant, Counted, Target
  <1>3. /\ takeover = NoStep /\ exhausted = "none" /\ outcome = "running" /\ steps <= PolicyLimit
        /\ crossed # NoStep /\ steps = crossed /\ (last.terminated => done)
        /\ ~last.truncated /\ steps < EnvLimit
    BY <1>1, PolicyIsNotTruncated DEF DaggerInvariant, PolicyActs
  <1>4. CASE done
    <2>1. at' = "ended" /\ outcome' = "boundary ended" /\ takeover' = takeover
      BY <1>4 DEF TakeOver, Ends
    <2>2. at' \notin Rolling /\ at' \notin Driving
      BY <2>1, Apart
    <2>3. EndedWell'
      BY <1>1, <1>3, <2>1 DEF EndedWell, Reasons
    <2> QED BY <1>1, <1>2, <2>1, <2>2, <2>3 DEF DaggerInvariant, Types, PolicyActs, ExpertActs
  <1>5. CASE ~done
    <2>1. takeover' = steps /\ outcome' = outcome /\ at' \in {"approach", "grasp"}
      BY <1>5 DEF TakeOver, Enter
    <2>2. at' \in Driving /\ at' \notin Rolling /\ at' # "ended" /\ at' # "built"
      BY <2>1, Apart DEF Driving, Moves, Holds
    <2>3. ExpertActs'
      BY <1>1, <1>3, <2>1, <2>2, Numbers DEF ExpertActs, DaggerInvariant, Types
    <2>4. Types'
      BY <1>1, <2>1, <2>2 DEF DaggerInvariant, Types
    <2> QED BY <1>2, <2>2, <2>3, <2>4 DEF DaggerInvariant, PolicyActs, EndedWell
  <1> QED BY <1>4, <1>5

\* An action of the expert, on its path or while the arm settles.
LEMMA DriveKeeps ==
  ASSUME DaggerInvariant, Executing, Step,
         UNCHANGED <<boundary, stop, early, spent, takeover>>
  PROVE  DaggerInvariant'
  <1>1. at \in Driving /\ at # "built" /\ at \notin Rolling /\ at # "ended"
    BY Apart DEF Executing
  <1>2. /\ takeover = crossed /\ crossed # NoStep /\ exhausted = "none" /\ outcome = "running"
        /\ steps < EnvLimit /\ (done \/ steps - takeover < ExpertLimit)
    BY <1>1, Numbers DEF DaggerInvariant, ExpertActs, Counted, Types
  <1>3. PICK holds \in BOOLEAN, terminated \in BOOLEAN, success \in BOOLEAN :
          /\ Act(holds, terminated)
          /\ CASE ExpertSpent -> Ends("expert budget") /\ exhausted' = "expert" /\ UNCHANGED done
               [] ~ExpertSpent /\ last'.truncated ->
                    Ends("time limit") /\ UNCHANGED <<done, exhausted>>
               [] ~ExpertSpent /\ ~last'.truncated /\ terminated /\ ~(success /\ completed' = 5) ->
                    Ends("inconsistent end") /\ UNCHANGED <<done, exhausted>>
               [] OTHER -> done' = (done \/ terminated) /\ UNCHANGED <<at, outcome, exhausted>>
    BY DEF Step
  <1>4. /\ steps' = steps + 1 /\ steps' <= EnvLimit
        /\ completed' \in completed..5 /\ stable' \in Nat /\ crossed' \in 0..steps'
        /\ last' \in [terminated : BOOLEAN, truncated : BOOLEAN]
        /\ last'.terminated = terminated
        /\ last'.truncated <=> steps' >= EnvLimit
        /\ completed' < Target' <=> crossed' = NoStep
        /\ crossed' = crossed
    BY <1>2, <1>3, OneAction DEF DaggerInvariant
  <1>5. steps \in Nat /\ steps' \in Nat /\ takeover \in 0..steps /\ takeover' = takeover
        /\ done \in BOOLEAN
    BY <1>4 DEF DaggerInvariant, Types
  <1>6. Counted'
    BY <1>4 DEF DaggerInvariant, Counted, EnvLimit
  <1>7. ASSUME at' \in Rolling \cup Driving \cup {"ended"}, done' \in BOOLEAN PROVE Types'
    <2>1. completed' \in 0..5 /\ takeover' \in 0..steps'
      BY <1>4, <1>5 DEF DaggerInvariant, Types
    <2> QED BY <1>4, <1>5, <1>7, <2>1 DEF DaggerInvariant, Types, EnvLimit
  <1>8. ExpertSpent <=> ~last'.terminated /\ ~last'.truncated /\ steps' - takeover >= ExpertLimit
    BY DEF ExpertSpent
  <1>9. done \/ steps' - takeover' <= ExpertLimit
    BY <1>2, <1>4, <1>5, Numbers
  <1>10. \/ Ends("expert budget") /\ exhausted' = "expert" /\ UNCHANGED done /\ ExpertSpent
         \/ Ends("time limit") /\ UNCHANGED <<done, exhausted>> /\ last'.truncated
         \/ Ends("inconsistent end") /\ UNCHANGED <<done, exhausted>> /\ ~last'.truncated
         \/ /\ done' = (done \/ terminated) /\ UNCHANGED <<at, outcome, exhausted>>
            /\ ~ExpertSpent /\ ~last'.truncated
    BY <1>3
  <1>11. ASSUME at' = "ended", done' = done, takeover' # NoStep,
                \/ outcome' = "expert budget" /\ exhausted' = "expert" /\ ExpertSpent
                \/ outcome' = "time limit" /\ exhausted' = exhausted /\ last'.truncated
                \/ outcome' = "inconsistent end" /\ exhausted' = exhausted /\ ~last'.truncated
         PROVE  DaggerInvariant'
    <2>1. at' \notin Rolling /\ at' \notin Driving
      BY <1>11, Apart
    <2>2. EndedWell'
      <3>1. takeover' = crossed'
        BY <1>2, <1>4, <1>5
      <3>2. ExpertSpent => done' \/ steps' - takeover' = ExpertLimit
        <4>1. ExpertSpent => steps' - takeover >= ExpertLimit
          BY <1>8
        <4>2. steps' \in Nat /\ takeover \in Nat /\ takeover' = takeover
          BY <1>5
        <4>3. done' \/ steps' - takeover' <= ExpertLimit
          BY <1>9, <1>11, Zenon
        <4> QED BY <4>1, <4>2, <4>3, Differences, Zenon
      <3>3. ExpertSpent => ~last'.terminated /\ ~last'.truncated
        BY <1>8
      <3> QED BY <1>2, <1>9, <1>11, <3>1, <3>2, <3>3 DEF EndedWell, Reasons
    <2> QED BY <1>5, <1>6, <1>7, <1>11, <2>1, <2>2 DEF DaggerInvariant, PolicyActs, ExpertActs
  <1>12. ASSUME done' = (done \/ terminated), UNCHANGED <<at, outcome, exhausted>>,
                ~ExpertSpent, ~last'.truncated
         PROVE  DaggerInvariant'
    <2>1. done' \in BOOLEAN /\ (done' <=> done \/ terminated)
      BY <1>5, <1>12
    <2>2. last'.terminated => done'
      BY <1>4, <2>1
    <2>3. done' \/ steps' - takeover' < ExpertLimit
      <3>1. last'.terminated \/ ~(steps' - takeover >= ExpertLimit)
        BY <1>8, <1>12
      <3>2. done' \/ ~(steps' - takeover >= ExpertLimit)
        BY <2>2, <3>1
      <3>3. steps' \in Nat /\ takeover \in Nat /\ takeover' = takeover
        BY <1>5
      <3> QED BY <3>2, <3>3, Differences, Zenon
    <2>4. ExpertActs'
      BY <1>1, <1>2, <1>4, <1>5, <1>12, <2>2, <2>3 DEF ExpertActs
    <2> QED BY <1>1, <1>6, <1>7, <1>12, <2>1, <2>4 DEF DaggerInvariant, PolicyActs, EndedWell
  <1>13. takeover' # NoStep
    BY <1>2, <1>5
  <1> QED BY <1>10, <1>11, <1>12, <1>13 DEF Ends

\* A step of the expert's that is no action: the next phase, or the end.
LEMMA ThinkKeeps ==
  ASSUME DaggerInvariant, at \in Driving,
         UNCHANGED <<boundary, trackVars, policyVars, done, takeover, exhausted>>,
         \/ /\ at' = "ended" /\ outcome' \in Reasons \cup {"accepted"}
            /\ outcome' \notin {"time limit", "expert budget", "policy budget"}
            /\ outcome' = "accepted" => at = "built"
         \/ /\ at' \in Driving /\ outcome' = outcome
            /\ at' = "built" => TaskCompleted
  PROVE  DaggerInvariant'
  <1>1. UNCHANGED <<steps, completed, stable, crossed, last, stop, early, spent>>
    BY DEF trackVars, policyVars
  <1>2. Counted'
    BY <1>1 DEF DaggerInvariant, Counted, Target
  <1>3. /\ takeover = crossed /\ crossed # NoStep /\ exhausted = "none" /\ outcome = "running"
        /\ ~last.truncated /\ steps < EnvLimit /\ steps \in Nat /\ takeover \in 0..steps
        /\ (done \/ steps - takeover < ExpertLimit) /\ (at = "built" => TaskCompleted)
        /\ (last.terminated => done)
    <2>1. /\ takeover = crossed /\ crossed # NoStep /\ exhausted = "none" /\ outcome = "running"
          /\ ~last.truncated /\ (at = "built" => TaskCompleted) /\ (last.terminated => done)
          /\ (done \/ steps - takeover < ExpertLimit)
      BY DEF DaggerInvariant, ExpertActs
    <2>2. steps \in Nat /\ takeover \in 0..steps /\ ~(steps >= EnvLimit)
      BY <2>1 DEF DaggerInvariant, Counted, Types
    <2> QED BY <2>1, <2>2, Deadlines, Zenon
  <1>4. CASE /\ at' = "ended" /\ outcome' \in Reasons \cup {"accepted"}
             /\ outcome' \notin {"time limit", "expert budget", "policy budget"}
             /\ outcome' = "accepted" => at = "built"
    <2>1. at' \notin Rolling /\ at' \notin Driving
      BY <1>4, Apart
    <2>2. EndedWell'
      <3>1. done \/ steps - takeover <= ExpertLimit
        <4>1. takeover \in Nat
          BY <1>3, Below, Zenon
        <4> QED BY <1>3, <4>1, Differences, Zenon
      <3> QED BY <1>1, <1>3, <1>4, <3>1 DEF EndedWell, TaskCompleted, EnvLimit
    <2> QED BY <1>1, <1>2, <1>4, <2>1, <2>2 DEF DaggerInvariant, Types, PolicyActs, ExpertActs
  <1>5. CASE at' \in Driving /\ outcome' = outcome /\ (at' = "built" => TaskCompleted)
    <2>1. at' \notin Rolling /\ at' # "ended"
      BY <1>5, Apart
    <2>2. ExpertActs'
      BY <1>1, <1>3, <1>5 DEF ExpertActs, TaskCompleted
    <2> QED BY <1>1, <1>2, <1>5, <2>1, <2>2 DEF DaggerInvariant, Types, PolicyActs, EndedWell
  <1> QED BY <1>4, <1>5

LEMMA ExpertKeeps == ASSUME DaggerInvariant, Expert PROVE DaggerInvariant'
  <1>1. CASE TakeOver
    BY <1>1, TakeOverKeeps
  <1>2. CASE ExpertAction \/ Settle
    BY <1>2, DriveKeeps DEF ExpertAction, Settle, policyVars
  <1>3. CASE ExpertRefuses \/ ActsAfterEnd
    <2>1. /\ at \in Driving /\ at' = "ended" /\ outcome' \in {"not executable", "acts after end"}
          /\ UNCHANGED <<boundary, trackVars, policyVars, done, takeover, exhausted>>
      BY <1>3, Apart DEF ExpertRefuses, ActsAfterEnd, Executing, Ends
    <2> QED BY <2>1, ThinkKeeps DEF Reasons
  <1>4. CASE NextPhase
    <2>1. /\ at \in Moves \cup Holds /\ at \in Driving
          /\ UNCHANGED <<boundary, trackVars, policyVars, done, takeover, exhausted>>
      BY <1>4, Apart DEF NextPhase
    <2>2. \/ at' = "ended" /\ outcome' \in {"no grasp", "unfinished"}
          \/ /\ at' = After(at) /\ outcome' = outcome
             /\ at = "release" => TaskCompleted
      BY <1>4 DEF NextPhase, Ends, Enter
    <2>3. After(at) \in Driving /\ (After(at) = "built" => at = "release")
      BY <2>1 DEF After, Moves, Holds, Driving
    <2> QED BY <2>1, <2>2, <2>3, ThinkKeeps DEF Reasons
  <1>5. CASE Build
    <2>1. /\ at = "built" /\ at \in Driving /\ at' = "ended"
          /\ outcome' \in {"no round trip", "short window", "accepted"}
          /\ UNCHANGED <<boundary, trackVars, policyVars, done, takeover, exhausted>>
      BY <1>5 DEF Build, Ends, Driving
    <2> QED BY <2>1, ThinkKeeps DEF Reasons
  <1> QED BY <1>1, <1>2, <1>3, <1>4, <1>5 DEF Expert

LEMMA StutterKeeps == ASSUME DaggerInvariant, UNCHANGED daggerVars PROVE DaggerInvariant'
  <1>1. UNCHANGED <<boundary, at, steps, completed, stable, crossed, last, stop, early, spent, done,
                    takeover, exhausted, outcome>>
    BY DEF daggerVars, trackVars, policyVars
  <1>2. Types' /\ Counted'
    BY <1>1 DEF DaggerInvariant, Types, Counted, Target, EnvLimit
  <1>3. PolicyActs'
    BY <1>1 DEF DaggerInvariant, PolicyActs
  <1>4. ExpertActs'
    BY <1>1 DEF DaggerInvariant, ExpertActs, TaskCompleted
  <1>5. EndedWell'
    BY <1>1 DEF DaggerInvariant, EndedWell, TaskCompleted, EnvLimit
  <1> QED BY <1>2, <1>3, <1>4, <1>5 DEF DaggerInvariant

-----------------------------------------------------------------------------
(* Theorems *)

\* An episode is where it can be: what its controller, its budgets and its tracker say fits.
THEOREM EpisodeSafe == Spec => []DaggerInvariant
  <1>1. Init => DaggerInvariant
    BY InvariantInit
  <1>2. DaggerInvariant /\ [Next]_daggerVars => DaggerInvariant'
    <2> SUFFICES ASSUME DaggerInvariant, [Next]_daggerVars PROVE DaggerInvariant'
      OBVIOUS
    <2>1. CASE RollIn
      BY <2>1, ReplanKeeps, PolicyKeeps, ControllerFailsKeeps, JudgeKeeps DEF RollIn
    <2>2. CASE Expert
      BY <2>2, ExpertKeeps
    <2>3. CASE UNCHANGED daggerVars
      BY <2>3, StutterKeeps
    <2> QED BY <2>1, <2>2, <2>3 DEF Next
  <1> QED BY <1>1, <1>2, PTL DEF Spec

\* Whatever the chunk length and the tolerance for anomalies, the expert starts at the action
\* that crossed the boundary, and the policy has taken none after it.
THEOREM TakesOverAtBoundary == Spec => []TakeoverIsBoundary
  <1>1. DaggerInvariant => TakeoverIsBoundary
    BY Apart DEF DaggerInvariant, Types, PolicyActs, ExpertActs, EndedWell, TakeoverIsBoundary
  <1> QED BY <1>1, EpisodeSafe, PTL

\* Whatever the budgets, neither segment goes beyond its own.
THEOREM WithinBudgets == Spec => []BudgetsHold
  <1>1. DaggerInvariant => BudgetsHold
    <2> SUFFICES ASSUME DaggerInvariant PROVE BudgetsHold
      OBVIOUS
    <2>1. steps \in Nat /\ takeover \in 0..steps /\ crossed \in 0..steps /\ crossed <= PolicyLimit
      BY DEF DaggerInvariant, Types, Counted
    <2>2. CASE at \in Rolling
      BY <2>1, <2>2, Numbers DEF DaggerInvariant, PolicyActs, BudgetsHold, PolicyActions, ExpertActions
    <2>3. CASE at \in Driving
      BY <2>1, <2>3, Numbers DEF DaggerInvariant, ExpertActs, BudgetsHold, PolicyActions, ExpertActions
    <2>4. CASE at = "ended"
      <3>1. /\ takeover = NoStep \/ takeover = crossed
            /\ takeover = NoStep => steps <= PolicyLimit
            /\ takeover # NoStep => done \/ steps - takeover <= ExpertLimit
            /\ outcome = "accepted" => steps < EnvLimit /\ TaskCompleted
        BY <2>4 DEF DaggerInvariant, EndedWell
      <3> QED BY <2>1, <3>1, Numbers DEF BudgetsHold, PolicyActions, ExpertActions
    <2> QED BY <2>2, <2>3, <2>4 DEF DaggerInvariant, Types
  <1> QED BY <1>1, EpisodeSafe, PTL

\* Whatever the budgets, a rejection names what ended the episode.
THEOREM SignalsAgree == Spec => []SignalsClose
  <1>1. DaggerInvariant => SignalsClose
    <2> SUFFICES ASSUME DaggerInvariant, outcome \in Reasons PROVE SignalsClose
      BY DEF SignalsClose
    <2>1. at = "ended"
      BY DEF DaggerInvariant, Types, PolicyActs, ExpertActs, Reasons
    <2>2. /\ steps \in Nat /\ takeover \in 0..steps /\ steps <= EnvLimit
          /\ last.truncated <=> steps >= EnvLimit
          /\ last.truncated \in BOOLEAN
      BY DEF DaggerInvariant, Types, Counted
    <2>3. Deadline = {TRUE} \/ Deadline = {FALSE}
      <3>1. (steps = EnvLimit <=> last.truncated) /\ (outcome = "time limit" <=> last.truncated)
        <4>1. outcome = "time limit" <=> last.truncated
          BY <2>1 DEF DaggerInvariant, EndedWell
        <4> QED BY <2>2, <4>1, Deadlines, Zenon
      <3>2. CASE last.truncated
        <4>1. (outcome = "time limit") = TRUE /\ (steps = EnvLimit) = TRUE /\ last.truncated = TRUE
          BY <2>2, <3>1, <3>2
        <4> QED BY <4>1 DEF Deadline
      <3>3. CASE ~last.truncated
        <4>1. (outcome = "time limit") = FALSE /\ (steps = EnvLimit) = FALSE /\ last.truncated = FALSE
          BY <2>2, <3>1, <3>3
        <4> QED BY <4>1 DEF Deadline
      <3> QED BY <3>2, <3>3
    <2>4. /\ outcome = "expert budget" =>
               (ExpertActions = ExpertLimit \/ done) /\ ~last.truncated /\ ~last.terminated
          /\ outcome = "policy budget" => steps = PolicyLimit /\ takeover = NoStep /\ crossed = NoStep
      BY <2>1, <2>2, Numbers DEF DaggerInvariant, EndedWell, ExpertActions, PolicyActions
    <2>5. /\ (outcome = "expert budget") = (exhausted = "expert")
          /\ (outcome = "policy budget") = (exhausted = "policy")
      BY <2>1 DEF DaggerInvariant, EndedWell
    <2> QED BY <2>3, <2>4, <2>5 DEF SignalsClose
  <1> QED BY <1>1, EpisodeSafe, PTL
=============================================================================
