-------------------------- MODULE FrozenPopulation --------------------------
(***************************************************************************)
(* What the candidate pool promises, whatever crashes and however often it *)
(* is resumed: the seeds are fixed before the first rollout, each gets one *)
(* outcome, in order, and the verdict on the whole population is given     *)
(* once, from all the outcomes and from nothing else.                      *)
(***************************************************************************)
EXTENDS Naturals, Sequences, FiniteSets

CONSTANTS LastSeed, Gate

VARIABLES outcomes,  \* the outcome of each seed so far, in the order of the seeds
          verdict    \* "open" until the population is complete

populationVars == <<outcomes, verdict>>

Outcomes == {"accepted", "rejected"}

Eligible(os) == Cardinality({s \in DOMAIN os : os[s] = "accepted"})

Judged(os) == IF Eligible(os) < Gate THEN "gate_failed" ELSE "complete"

PopulationInit == outcomes = <<>> /\ verdict = "open"

Count ==
  /\ Len(outcomes) < LastSeed
  /\ \E o \in Outcomes : outcomes' = Append(outcomes, o)
  /\ UNCHANGED verdict

Judge ==
  /\ Len(outcomes) = LastSeed
  /\ verdict = "open"
  /\ verdict' = Judged(outcomes)
  /\ UNCHANGED outcomes

Population == PopulationInit /\ [][Count \/ Judge]_populationVars
=============================================================================
