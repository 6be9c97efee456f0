----------------------------- MODULE LocalDagger -----------------------------
(***************************************************************************)
(* One episode of the amended local DAgger collection                      *)
(* (sim/local_dagger.py): the policy rolls in until the tracker completes  *)
(* the skill before the boundary, a scripted expert takes over at exactly  *)
(* that action and finishes the task, and each of the two has a budget of  *)
(* actions inside the environment's own limit.  The episode ends in an     *)
(* accepted or a rejected record, which the pool validates when it reads   *)
(* it (cli/collect_local_dagger_amended_pool.py).                          *)
(*                                                                         *)
(* Poses, images and policy outputs are left out: what an action does is   *)
(* whether the active skill's predicate holds after it, and whether the    *)
(* environment says it is over.                                            *)
(***************************************************************************)
EXTENDS Naturals, Sequences

CONSTANTS
  PolicyLimit, ExpertLimit,  \* action budgets of the two segments; the environment's is their sum
  ChunkSteps,                \* actions executed per replan
  MaxAnomalies,              \* anomaly replans tolerated in a row
  StableGrasp, StablePlace,  \* consecutive actions the tracker wants for skills 2 and 5
  HoldSteps, ReleaseSteps,   \* actions of the expert's grasp and of its release
  SettleTries,               \* settle actions before a target is given up
  Horizon, Window            \* shortest usable, and full, training window of expert actions

ASSUME LocalDaggerAssumption ==
  /\ {PolicyLimit, ExpertLimit, ChunkSteps, StableGrasp, StablePlace, HoldSteps,
      ReleaseSteps, SettleTries, Horizon} \subseteq Nat \ {0}
  /\ MaxAnomalies \in Nat /\ Window \in Nat /\ Horizon <= Window

EnvLimit == PolicyLimit + ExpertLimit

VARIABLES
  boundary,   \* "reach_grasp" or "grasp_lift"
  at,         \* where the collector is
  left,       \* actions left in the chunk or the hold under way
  steps,      \* actions recorded
  completed,  \* skills completed, 0..5
  stable,     \* consecutive stable actions towards skill 2 or 5
  crossed,    \* the action that completed the skill before the boundary, or NoStep
  last,       \* how the last action left the environment
  stop,       \* chunk_stop_requested of the policy's controller
  early,      \* terminal_before_boundary
  spent,      \* policy_budget_exhausted
  done,       \* the session is over
  settles,    \* settle actions that already preceded the target under way
  anomalies,  \* consecutive anomaly replans
  takeover,   \* expert_takeover_step, or NoStep
  exhausted,  \* budget_exhaustion_phase of the diagnostics
  outcome     \* "running", "accepted", or the reason of the rejection

trackVars == <<steps, completed, stable, crossed, last>>
policyVars == <<stop, early, spent, anomalies>>
daggerVars == <<boundary, at, left, trackVars, policyVars, done, settles, takeover, exhausted,
               outcome>>

NoStep == 0
Target == IF boundary = "reach_grasp" THEN 1 ELSE 2
TaskCompleted == completed = 5

-----------------------------------------------------------------------------
(* One action of the environment *)

\* PickPlaceTaskTracker.update, when the predicate of the active skill holds or not
Tracked(holds) ==
  CASE completed \in {0, 2, 3} -> [completed |-> IF holds THEN completed + 1 ELSE completed,
                                   stable |-> 0]
    [] completed \in {1, 4} ->
         LET wanted == IF completed = 1 THEN StableGrasp ELSE StablePlace
             now    == IF holds THEN stable + 1 ELSE 0
         IN IF now >= wanted THEN [completed |-> completed + 1, stable |-> 0]
                             ELSE [completed |-> completed, stable |-> now]
    [] OTHER -> [completed |-> 5, stable |-> 0]

\* env.step, the recorder, the tracker and the diagnostics.  The environment truncates at its
\* limit of actions; it ends by itself when it takes the task for a success.
Act(holds, terminated) ==
  LET next == Tracked(holds)
  IN /\ steps' = steps + 1
     /\ completed' = next.completed
     /\ stable' = next.stable
     /\ crossed' = IF completed < Target /\ next.completed >= Target THEN steps + 1 ELSE crossed
     /\ last' = [terminated |-> terminated, truncated |-> steps + 1 >= EnvLimit]

Over == last'.terminated \/ last'.truncated

-----------------------------------------------------------------------------
(* The policy's roll-in *)

\* Mutant: the chunk under way is finished after the boundary was crossed.
StopsAtEnd(crosses) == Over

\* Mutant: the budget is compared before the action under way is counted.
PolicySpentLate == steps >= PolicyLimit

\* policy_budget_exhausted_after_action, the boundary not reached
PolicySpent == steps' >= PolicyLimit

\* What makes the controller ask for a stop, apart from the budget.
Stops(crosses) == crosses \/ Over

\* _LocalDaggerPolicyController.send_action; a crossing wins over the end of the episode and
\* over the budget, on the action that brings both.
Send(holds, terminated) ==
  LET crosses == completed < Target /\ completed' >= Target
      used    == ~Stops(crosses) /\ PolicySpent
  IN /\ Act(holds, terminated)
     /\ done' = (done \/ Over)
     /\ early' = (early \/ (Over /\ ~crosses))
     /\ spent' = (spent \/ used)
     /\ stop' = (stop \/ Stops(crosses) \/ used)

\* replan_and_execute begins; its inference succeeds.
Replan ==
  /\ at = "replan"
  /\ at' = "chunk" /\ left' = ChunkSteps
  /\ UNCHANGED <<boundary, trackVars, policyVars, done, settles, takeover, exhausted, outcome>>

PolicyAction ==
  /\ at = "chunk"
  /\ \E holds, terminated \in BOOLEAN : Send(holds, terminated)
  /\ left' = left - 1
  /\ IF stop' \/ left' = 0 THEN at' = "replanned" /\ anomalies' = 0
                           ELSE UNCHANGED <<at, anomalies>>
  /\ UNCHANGED <<boundary, settles, takeover, exhausted, outcome>>

AfterAnomaly == IF anomalies + 1 > MaxAnomalies THEN "failed" ELSE "replanned"

\* An inference or a step that is refused holds the robot: the hold is an action like any other.
Hold ==
  /\ at \in {"replan", "chunk"}
  /\ \E holds, terminated \in BOOLEAN : Send(holds, terminated)
  /\ at' = AfterAnomaly
  /\ anomalies' = anomalies + 1
  /\ left' = 0
  /\ UNCHANGED <<boundary, settles, takeover, exhausted, outcome>>

\* A clipped correction is sent, and ends the chunk as an anomaly without a hold.
Saturate ==
  /\ at = "chunk"
  /\ \E holds, terminated \in BOOLEAN : Send(holds, terminated)
  /\ at' = AfterAnomaly
  /\ anomalies' = anomalies + 1
  /\ left' = 0
  /\ UNCHANGED <<boundary, settles, takeover, exhausted, outcome>>

\* env.step raises: the action was recorded but not observed, and the hold that should follow
\* raises too.
ControllerFails ==
  /\ at = "chunk"
  /\ at' = "failed" /\ left' = 0
  /\ UNCHANGED <<boundary, trackVars, policyVars, done, settles, takeover, exhausted, outcome>>

Ends(why) == outcome' = why /\ at' = "ended"

\* What collect_local_dagger does after a replan, in this order.
Judge ==
  /\ at \in {"failed", "replanned"}
  /\ CASE at = "failed" -> Ends("rollin failed") /\ UNCHANGED exhausted
       [] at # "failed" /\ early -> Ends("ended before boundary") /\ UNCHANGED exhausted
       [] at # "failed" /\ ~early /\ spent -> Ends("policy budget") /\ exhausted' = "policy"
       [] OTHER -> /\ at' = IF completed >= Target THEN "boundary" ELSE "replan"
                   /\ UNCHANGED <<outcome, exhausted>>
  /\ UNCHANGED <<boundary, left, trackVars, policyVars, done, settles, takeover>>

-----------------------------------------------------------------------------
(* The expert *)

Moves == {"approach", "lift", "transport", "lower"}
Holds == {"grasp", "release"}

HoldLength(phase) == IF phase = "grasp" THEN HoldSteps ELSE ReleaseSteps

After(phase) ==
  CASE phase = "approach" -> "grasp" [] phase = "grasp" -> "lift" [] phase = "lift" -> "transport"
    [] phase = "transport" -> "lower" [] phase = "lower" -> "release" [] phase = "release" -> "built"

\* A move takes one action at least, a hold takes all of its own.
Enter(phase) ==
  at' = phase /\ left' = CASE phase \in Holds -> HoldLength(phase) [] phase \in Moves -> 1
                           [] OTHER -> 0

TakeOver ==
  /\ at = "boundary"
  /\ IF done THEN Ends("boundary ended") /\ UNCHANGED <<takeover, left>>
     ELSE /\ takeover' = steps
          /\ Enter(IF boundary = "reach_grasp" THEN "approach" ELSE "grasp")
          /\ UNCHANGED outcome
  /\ UNCHANGED <<boundary, trackVars, policyVars, done, settles, exhausted>>

\* Mutant: the budget does not look at the environment's deadline.
ExpertSpentAnyway == ~last'.terminated /\ steps' - takeover >= ExpertLimit

\* _enforce_expert_action_budget_after_action
ExpertSpent == ~last'.terminated /\ ~last'.truncated /\ steps' - takeover >= ExpertLimit

\* _execute_target looks at session.done once, before the settle actions of the target.
Executing ==
  /\ at \in Moves \cup Holds
  /\ ~done \/ settles > 0
  /\ at \in Holds => left > 0

\* _step_with_target: the hook with its budget comes before the environment's verdicts.
Step ==
  \E holds, terminated, success \in BOOLEAN :
    /\ Act(holds, terminated)
    /\ CASE ExpertSpent -> Ends("expert budget") /\ exhausted' = "expert" /\ UNCHANGED done
         [] ~ExpertSpent /\ last'.truncated ->
              Ends("time limit") /\ UNCHANGED <<done, exhausted>>
         [] ~ExpertSpent /\ ~last'.truncated /\ terminated /\ ~(success /\ completed' = 5) ->
              Ends("inconsistent end") /\ UNCHANGED <<done, exhausted>>
         [] OTHER -> done' = (done \/ terminated) /\ UNCHANGED <<at, outcome, exhausted>>

\* The action of a target on the path of a move, or of a hold.
ExpertAction ==
  /\ Executing /\ settles < SettleTries
  /\ Step
  /\ left' = IF left = 0 THEN 0 ELSE left - 1
  /\ settles' = 0
  /\ UNCHANGED <<boundary, policyVars, takeover>>

\* The arm lags behind the path: the previous target is commanded again.  In a hold the two
\* targets are the same, and a lag is a refusal.
Settle ==
  /\ Executing /\ at \in Moves /\ settles < SettleTries
  /\ Step
  /\ settles' = settles + 1
  /\ UNCHANGED <<boundary, left, policyVars, takeover>>

\* The planner finds no path, a correction is too large, or the arm does not settle.
ExpertRefuses ==
  /\ Executing
  /\ Ends("not executable")
  /\ UNCHANGED <<boundary, left, trackVars, policyVars, done, settles, takeover, exhausted>>

\* A path goes on although the environment is over.
ActsAfterEnd ==
  /\ at \in Moves /\ done /\ settles = 0
  /\ Ends("acts after end")
  /\ UNCHANGED <<boundary, left, trackVars, policyVars, done, settles, takeover, exhausted>>

\* A move has reached its pose; a hold is over after its steps, or when the session is over.
NextPhase ==
  /\ at \in Moves \cup Holds /\ settles = 0
  /\ left = 0 \/ (done /\ at \in Holds)
  /\ CASE at = "grasp" /\ completed < 2 -> Ends("no grasp") /\ UNCHANGED left
       [] at = "release" /\ ~(done /\ TaskCompleted) -> Ends("unfinished") /\ UNCHANGED left
       [] OTHER -> Enter(After(at)) /\ UNCHANGED outcome
  /\ UNCHANGED <<boundary, trackVars, policyVars, done, settles, takeover, exhausted>>

\* The round trip of the boundary's snapshot, and a training window of one action chunk.
Build ==
  /\ at = "built"
  /\ \/ Ends("no round trip")
     \/ steps - takeover < Horizon /\ Ends("short window")
     \/ steps - takeover >= Horizon /\ Ends("accepted")
  /\ UNCHANGED <<boundary, left, trackVars, policyVars, done, settles, takeover, exhausted>>

-----------------------------------------------------------------------------
(* The whole *)

\* After the reset and the collector's first look at the scene (tracker.update): the arm rests too
\* far from the cube for the first skill to be reached, so nothing is completed.
Init ==
  /\ boundary \in {"reach_grasp", "grasp_lift"}
  /\ at = "replan" /\ left = 0
  /\ steps = 0 /\ completed = 0 /\ stable = 0 /\ crossed = NoStep
  /\ last = [terminated |-> FALSE, truncated |-> FALSE]
  /\ stop = FALSE /\ early = FALSE /\ spent = FALSE /\ anomalies = 0
  /\ done = FALSE /\ settles = 0 /\ takeover = NoStep /\ exhausted = "none"
  /\ outcome = "running"

RollIn == Replan \/ PolicyAction \/ Hold \/ Saturate \/ ControllerFails \/ Judge

Expert ==
  TakeOver \/ ExpertAction \/ Settle \/ ExpertRefuses \/ ActsAfterEnd \/ NextPhase \/ Build

Next == RollIn \/ Expert

Spec == Init /\ [][Next]_daggerVars

-----------------------------------------------------------------------------
(* What the pool reads *)

PolicyActions == IF takeover = NoStep THEN steps ELSE takeover
ExpertActions == steps - PolicyActions

Reasons == {"rollin failed", "ended before boundary", "policy budget", "boundary ended",
            "expert budget", "time limit", "inconsistent end", "not executable",
            "acts after end", "no grasp", "unfinished", "no round trip", "short window"}

\* The hard deadline has three signals: the reason, the usage and the last transition.
Deadline == {outcome = "time limit", steps = EnvLimit, last.truncated}

\* _validate_action_budget_usage
UsageFits == PolicyActions <= PolicyLimit /\ ExpertActions <= ExpertLimit /\ steps <= EnvLimit

\* _validate_accepted_record
AcceptedFits == steps < EnvLimit /\ takeover + Window <= steps

ExpertCapFits ==
  LET cap == ExpertActions = ExpertLimit
  IN /\ outcome = "expert budget" <=> exhausted = "expert"
     /\ outcome = "expert budget" => cap /\ ~last.truncated
     /\ cap /\ outcome # "expert budget" => TaskCompleted

PolicyCapFits ==
  LET cap == PolicyActions = PolicyLimit /\ ExpertActions = 0
  IN /\ outcome = "policy budget" <=> exhausted = "policy"
     /\ outcome = "policy budget" => cap /\ crossed = NoStep /\ ~last.truncated
     /\ cap /\ outcome # "policy budget" =>
          /\ outcome = "boundary ended" /\ crossed # NoStep
          /\ last.terminated \/ last.truncated

\* _validate_rejected_record
RejectedFits ==
  /\ ExpertActions = 0 => takeover = NoStep
  /\ Deadline = {TRUE} \/ (Deadline = {FALSE} /\ ExpertCapFits /\ PolicyCapFits)

-----------------------------------------------------------------------------
(* Properties *)

\* Every variable has its type.
TypeOK ==
  /\ boundary \in {"reach_grasp", "grasp_lift"}
  /\ at \in {"replan", "chunk", "failed", "replanned", "boundary", "built", "ended"}
              \cup Moves \cup Holds
  /\ steps \in 0..EnvLimit /\ completed \in 0..5
  /\ takeover \in 0..steps /\ crossed \in 0..steps
  /\ outcome \in {"running", "accepted"} \cup Reasons

\* The expert takes over at the very action that crosses the boundary: the policy never acts
\* after it, whatever chunk, hold or anomaly was under way, and the expert never before it.
TakeoverIsBoundary ==
  /\ takeover # NoStep => takeover = crossed
  /\ takeover = NoStep /\ crossed # NoStep => steps = crossed

\* Nobody acts beyond the budgets (save a target whose settle action ended the session: it is
\* still sent), and success comes strictly before the hard deadline.
BudgetsHold ==
  /\ PolicyActions <= PolicyLimit
  /\ ExpertActions <= ExpertLimit \/ done
  /\ outcome = "accepted" => steps < EnvLimit /\ TaskCompleted

\* A rejection names what ended the episode: the deadline's three signals agree, and a budget is
\* the reason only if it was used up, was recorded as exhausted, and nothing else came first: a
\* crossing on the policy's last action, a success or the deadline on the expert's.
SignalsClose ==
  outcome \in Reasons =>
    /\ Deadline = {TRUE} \/ Deadline = {FALSE}
    /\ (outcome = "expert budget") = (exhausted = "expert")
    /\ (outcome = "policy budget") = (exhausted = "policy")
    /\ outcome = "expert budget" =>
         (ExpertActions = ExpertLimit \/ done) /\ ~last.truncated /\ ~last.terminated
    /\ outcome = "policy budget" => steps = PolicyLimit /\ takeover = NoStep /\ crossed = NoStep

\* Violated by the code: every record of a formal candidate that the collector writes is one the
\* pool can read back.
RecordsAreAdmitted ==
  boundary = "grasp_lift" /\ outcome # "running" =>
    /\ UsageFits
    /\ outcome = "accepted" => AcceptedFits
    /\ outcome \in Reasons => RejectedFits
=============================================================================
