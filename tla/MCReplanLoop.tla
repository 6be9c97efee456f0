----------------------------- MODULE MCReplanLoop -----------------------------
(***************************************************************************)
(* Small instances of the replan loop: chunks of 5 actions of which 2 are  *)
(* executed, short episodes, driven by a plain rollout or by a caller that *)
(* also pauses, clears and interrupts.                                     *)
(***************************************************************************)
EXTENDS ReplanLoop

Built(budget, length, risks, pauses) ==
  {[strategy |-> s, anomalyReplans |-> budget, episodeSteps |-> length, faults |-> risks,
    pausing |-> pauses] : s \in {"newest-only", "temporal-ensemble", "rtc"}}

\* A plain ManiSkill rollout: its controller never interrupts a chunk, and holds arrive.
RolloutFaults == AnyFault \ {"veto", "stop", "hold"}

Rollouts == Built(3, 8, RolloutFaults, FALSE)

MCDrivers == Rollouts \cup Built(1, 6, AnyFault, TRUE)

\* A caller that resumes with full windows of four frames.
Resumers == Built(3, 12, RolloutFaults, TRUE)
=============================================================================
