--------------------------- MODULE ExecutiveProofs ---------------------------
(***************************************************************************)
(* Type correctness and the safety of the hierarchical executive, for      *)
(* every plan, every evidence and every configuration the assumptions of   *)
(* Executive allow; then the same for the shadow observer that drives it:  *)
(* Books says what its counters, the clock of the executive it rebuilds,   *)
(* the ledger and the loop have to do with each other; Retold says that    *)
(* replaying the ledger ends where the latest accepted tick did, because a *)
(* step is a function of state and snapshot (TurnOf).                      *)
(***************************************************************************)
EXTENDS ShadowObserver, TLAPS

\* What the status says about the phase, and what recovery always remembers.
Consistent ==
  /\ status = "RUNNING" => phase \in Normal
  /\ status = "HOLDING" => phase \in RecoveryPhases /\ resume \in Normal
  /\ attempts <= MaxRecoveryAttempts

\* A stability count is for the transition out of this phase, and it never exceeds the
\* number of consecutive ticks on which the evidence for it was complete.
CountTracksStreak ==
  \/ candidate = NoCandidate
  \/ /\ candidate.key = KeyAfter(phase)
     /\ candidate.ticks <= streak
     /\ phase # "DIAGNOSE"
     /\ status \notin Terminal

IInv == TypeOK /\ Consistent /\ CountTracksStreak
-----------------------------------------------------------------------------
(* The plan *)

LEMMA FirstPhase == NormalPhases[1] \in Normal
  BY NormalAssumption DEF Normal, NormalAssumption

LEMMA NextIsNormal ==
  ASSUME NEW p \in Normal, ~IsLast(p)
  PROVE  NextPhase(p) \in Normal
<1> DEFINE i == CHOOSE k \in 1..Len(NormalPhases) : NormalPhases[k] = p
<1>1. \E k \in 1..Len(NormalPhases) : NormalPhases[k] = p
  BY DEF Normal
<1>2. i \in 1..Len(NormalPhases) /\ NormalPhases[i] = p
  BY <1>1
<1>3. i # Len(NormalPhases)
  BY <1>2 DEF IsLast
<1>4. i + 1 \in 1..Len(NormalPhases)
  BY <1>2, <1>3, NormalAssumption DEF NormalAssumption
<1> QED
  BY <1>4 DEF NextPhase, Normal

LEMMA PhaseFacts ==
  /\ Normal \subseteq Phases
  /\ \A p \in Normal : p \notin RecoveryPhases /\ p \notin {NoPhase, TaskCompleted}
  /\ \A p \in Phases : PhaseSpec[p] \in PhaseSpecType
  /\ \A p \in RecoveryPhases : p \in Phases /\ PhaseSpec[p].subtask = Recover
                                 /\ PhaseSpec[p].owner = "SAFE_HOLD"
  /\ \A p \in Phases : PhaseSpec[p].subtask = Recover => p \in RecoveryPhases
  BY NormalAssumption, PlanAssumption DEF NormalAssumption, PlanAssumption, Phases

LEMMA SpecTypes ==
  \A p \in Phases :
    /\ PhaseSpec[p].subtask \in Subtasks
    /\ PhaseSpec[p].owner \in Owners
    /\ PhaseSpec[p].critical \in Criticals
    /\ PhaseSpec[p].stable \in Nat \ {0}
  BY PhaseFacts DEF PhaseSpecType

LEMMA KeyAfterType ==
  ASSUME NEW p \in Phases, p # "DIAGNOSE"
  PROVE  /\ KeyAfter(p) \in Phases \cup {TaskCompleted}
         /\ KeyAfter(p) # NoPhase
         /\ p \in {"SAFE_HOLD", "REOBSERVE"} => KeyAfter(p) \in RecoveryPhases
<1>1. CASE p \in {"SAFE_HOLD", "REOBSERVE"}
  BY <1>1 DEF KeyAfter, RecoveryPhases, Phases, NoPhase
<1>2. CASE p \in Normal
  <2>1. p \notin RecoveryPhases
    BY <1>2, PhaseFacts
  <2>2. KeyAfter(p) = IF IsLast(p) THEN TaskCompleted ELSE NextPhase(p)
    BY <2>1 DEF KeyAfter, RecoveryPhases
  <2> QED
    BY <1>2, <2>1, <2>2, NextIsNormal, PhaseFacts DEF RecoveryPhases, NoPhase, TaskCompleted
<1> QED
  BY <1>1, <1>2 DEF Phases, RecoveryPhases

LEMMA AgedType == ASSUME StateOK PROVE Aged \in 0..AgeCap
  BY ConfigAssumption DEF StateOK, Aged, ConfigAssumption

LEMMA TicksType ==
  ASSUME StateOK, NEW key \in Phases \cup {NoPhase, TaskCompleted}
  PROVE  TicksFor(key) \in Nat
  BY DEF StateOK, TicksFor
-----------------------------------------------------------------------------
(* The parts shared by the actions *)

\* The ledger entry of a well-typed step is well typed.
LEMMA RecordType ==
  ASSUME StateOK, StateOK', streak \in Nat,
         NEW s \in Snapshots, NEW outcome \in Outcomes, NEW reason \in Reasons,
         NEW reset \in BOOLEAN, Record(s, outcome, reason, reset)
  PROVE  entry' \in EntryType /\ streak' \in Nat
<1>1. State(status, subtask, phase, owner, attempts) \in StateType
  BY SpecTypes DEF StateOK, State, StateType, Owners
<1>2. State(status', subtask', phase', owner', attempts') \in StateType
  BY SpecTypes DEF StateOK, State, StateType, Owners
<1>3. (IF status' = "RUNNING" THEN PhaseSpec[phase'].critical ELSE "NONE") \in Criticals
  BY SpecTypes DEF StateOK, Criticals
<1>4. (~ShadowOnly /\ status' = "RUNNING" /\ owner' # "SAFE_HOLD") \in BOOLEAN
  OBVIOUS
<1>5. entry' \in EntryType
  BY <1>1, <1>2, <1>3, <1>4 DEF Record, EntryType
<1>6. streak' \in Nat
  BY DEF Record
<1> QED
  BY <1>5, <1>6

LEMMA StayOK ==
  ASSUME StateOK, Stay,
         candidate' \in [key : Phases \cup {NoPhase, TaskCompleted}, ticks : Nat]
  PROVE  StateOK'
  BY AgedType DEF StateOK, Stay

LEMMA NoCandidateType ==
  NoCandidate \in [key : Phases \cup {NoPhase, TaskCompleted}, ticks : Nat]
  BY DEF NoCandidate

LEMMA EnterOK ==
  ASSUME StateOK, NEW p \in Phases, NEW st \in Statuses \ Terminal, Enter(st, p),
         attempts' \in Nat, resume' \in Normal \cup {NoPhase}
  PROVE  StateOK'
  BY NoCandidateType, ConfigAssumption DEF StateOK, Enter, ConfigAssumption

LEMMA EnterRecoveryOK ==
  ASSUME StateOK, Consistent, status \notin Terminal,
         NEW s, NEW reason, EnterRecovery(s, reason)
  PROVE  StateOK' /\ Consistent' /\ candidate' = NoCandidate
<1>1. subtask # Recover => phase \in Normal
  BY PhaseFacts DEF StateOK, Phases
<1>2. subtask = Recover => resume \in Normal
  BY PhaseFacts DEF StateOK, Consistent, Statuses, Terminal
<1>3. "SAFE_HOLD" \in RecoveryPhases
  BY DEF RecoveryPhases
<1>4. resume' \in Normal
  BY <1>1, <1>2 DEF EnterRecovery
<1>5. StateOK'
  BY <1>3, <1>4, PhaseFacts, NoCandidateType, ConfigAssumption
     DEF StateOK, EnterRecovery, ConfigAssumption, Statuses, Terminal
<1>6. Consistent'
  BY <1>3, <1>4 DEF Consistent, EnterRecovery
<1> QED
  BY <1>5, <1>6 DEF EnterRecovery

LEMMA FinishOK ==
  ASSUME StateOK, Consistent, NEW st \in Terminal, NEW s, NEW reason, Finish(st, s, reason)
  PROVE  StateOK' /\ Consistent' /\ candidate' = NoCandidate
  BY NoCandidateType, ConfigAssumption
     DEF StateOK, Consistent, Finish, ConfigAssumption, Statuses, Terminal

LEMMA RecoveryFacts ==
  ASSUME StateOK, Consistent, status \notin Terminal, subtask = Recover
  PROVE  status = "HOLDING" /\ phase \in RecoveryPhases /\ resume \in Normal
  BY PhaseFacts DEF StateOK, Consistent, Statuses, Terminal

LEMMA NormalFacts ==
  ASSUME StateOK, Consistent, status \notin Terminal, subtask # Recover
  PROVE  status = "RUNNING" /\ phase \in Normal
  BY PhaseFacts DEF StateOK, Consistent, Statuses, Terminal, Phases

\* One more tick of stability never outruns the evidence seen.
LEMMA TicksBound ==
  ASSUME StateOK, CountTracksStreak, streak \in Nat, phase # "DIAGNOSE"
  PROVE  /\ TicksFor(KeyAfter(phase)) \in Nat
         /\ TicksFor(KeyAfter(phase)) <= streak + 1
<1>1. KeyAfter(phase) \in Phases \cup {TaskCompleted} /\ KeyAfter(phase) # NoPhase
  BY KeyAfterType DEF StateOK
<1>2. TicksFor(KeyAfter(phase)) \in Nat
  BY <1>1, TicksType
<1>3. CASE candidate.key = KeyAfter(phase)
  <2>1. candidate # NoCandidate
    BY <1>1, <1>3 DEF NoCandidate
  <2> QED
    BY <1>2, <1>3, <2>1 DEF CountTracksStreak, TicksFor, StateOK
<1>4. CASE candidate.key # KeyAfter(phase)
  BY <1>4, <1>2 DEF TicksFor
<1> QED
  BY <1>3, <1>4

\* A phase that goes on without progress keeps the invariant.
LEMMA StayReset ==
  ASSUME StateOK, Consistent, Stay, candidate' = NoCandidate
  PROVE  StateOK' /\ Consistent' /\ CountTracksStreak'
<1>1. StateOK'
  BY StayOK, NoCandidateType
<1> QED
  BY <1>1 DEF Stay, Consistent, CountTracksStreak

\* A phase whose exit settles counts one tick, and so does the history of the evidence.
LEMMA StaySettling ==
  ASSUME StateOK, Consistent, CountTracksStreak, streak \in Nat, Stay,
         phase # "DIAGNOSE", status \notin Terminal,
         NEW s, NEW outcome, NEW reason, NEW reset, Record(s, outcome, reason, reset),
         Complete(phase, s), Required(phase) \in Nat,
         TicksFor(KeyAfter(phase)) < Required(phase),
         candidate' = [key |-> KeyAfter(phase), ticks |-> TicksFor(KeyAfter(phase))]
  PROVE  StateOK' /\ Consistent' /\ CountTracksStreak'
<1> DEFINE n == TicksFor(KeyAfter(phase))
<1>1. n \in Nat /\ n <= streak + 1
  BY TicksBound
<1>2. KeyAfter(phase) \in Phases \cup {TaskCompleted}
  BY KeyAfterType DEF StateOK
<1>3. StateOK'
  BY <1>1, <1>2, StayOK
<1>4. streak' = IF streak < Required(phase) THEN streak + 1 ELSE streak
  BY DEF Record, Stay
<1>5. n <= streak'
  BY <1>1, <1>4
<1>6. candidate'.key = KeyAfter(phase) /\ candidate'.ticks = n
  OBVIOUS
<1>7. KeyAfter(phase)' = KeyAfter(phase)
  BY DEF Stay, KeyAfter, IsLast, NextPhase
<1>8. CountTracksStreak'
  BY <1>5, <1>6, <1>7 DEF CountTracksStreak, Stay
<1> QED
  BY <1>3, <1>8 DEF Stay, Consistent

LEMMA RequiredType ==
  ASSUME NEW p \in Phases
  PROVE  Required(p) \in Nat \ {0}
<1>1. \A q \in Phases : PhaseSpec[q].stable \in Nat \ {0}
  BY SpecTypes
<1>2. p \in Normal /\ ~IsLast(p) => NextPhase(p) \in Phases
  BY NextIsNormal, PhaseFacts
<1> QED
  BY <1>1, <1>2 DEF Required
-----------------------------------------------------------------------------
(* Every step preserves the invariant *)

\* What a step leaves behind besides the ledger entry.
Kept == StateOK' /\ Consistent' /\ CountTracksStreak'

LEMMA RecoveryStepKeeps ==
  ASSUME IInv, NEW s \in Snapshots, RecoveryStep(s)
  PROVE  Kept /\ entry' \in EntryType /\ streak' \in Nat
<1>1. StateOK /\ Consistent /\ CountTracksStreak /\ streak \in Nat
  BY DEF IInv, TypeOK
<1>2. /\ status \notin Terminal /\ subtask = Recover /\ ~Inadmissible(s)
      /\ status = "HOLDING" /\ phase \in RecoveryPhases /\ resume \in Normal
      /\ phase \in Phases
  BY <1>1, RecoveryFacts, PhaseFacts DEF RecoveryStep, InRecovery
<1>3. ASSUME RecoveryBlind(s)
      PROVE  Kept /\ entry' \in EntryType /\ streak' \in Nat
  <2>1. Kept
    BY <1>1, <1>3, StayReset DEF RecoveryBlind, Kept
  <2> QED
    BY <1>1, <1>3, <2>1, RecordType DEF RecoveryBlind, Kept, Outcomes, Reasons
<1>4. ASSUME RecoveryExitPending(s)
      PROVE  Kept /\ entry' \in EntryType /\ streak' \in Nat
  <2>1. Kept
    BY <1>1, <1>4, StayReset DEF RecoveryExitPending, Kept
  <2> QED
    BY <1>1, <1>4, <2>1, RecordType DEF RecoveryExitPending, Kept, Outcomes, Reasons
<1>5. ASSUME RecoverySettling(s)
      PROVE  Kept /\ entry' \in EntryType /\ streak' \in Nat
  <2>1. phase \notin Normal /\ phase # "DIAGNOSE"
    BY <1>2, <1>5, PhaseFacts DEF RecoverySettling
  <2>2. Complete(phase, s)
    BY <1>2, <1>5, <2>1 DEF Complete, RecoverySettling, Observing
  <2>3. Required(phase) = PhaseSpec[phase].stable
    BY <2>1 DEF Required
  <2>4. Required(phase) \in Nat
    BY <1>2, RequiredType
  <2>5. Kept
    BY <1>1, <1>2, <1>5, <2>1, <2>2, <2>3, <2>4, StaySettling DEF RecoverySettling, Kept
  <2> QED
    BY <1>1, <1>5, <2>5, RecordType DEF RecoverySettling, Kept, Outcomes, Reasons
<1>6. ASSUME RecoveryAdvance(s)
      PROVE  Kept /\ entry' \in EntryType /\ streak' \in Nat
  <2>1. KeyAfter(phase) \in RecoveryPhases /\ KeyAfter(phase) \in Phases
    BY <1>2, <1>6, KeyAfterType, PhaseFacts DEF RecoveryAdvance
  <2>2. StateOK'
    BY <1>1, <1>2, <1>6, <2>1, EnterOK DEF RecoveryAdvance, StateOK, Statuses, Terminal
  <2>3. Kept
    BY <1>1, <1>2, <1>6, <2>1, <2>2
       DEF RecoveryAdvance, Enter, Kept, Consistent, CountTracksStreak
  <2> QED
    BY <1>1, <1>6, <2>3, RecordType DEF RecoveryAdvance, Kept, Outcomes, Reasons
<1>7. ASSUME Reobserve(s)
      PROVE  Kept /\ entry' \in EntryType /\ streak' \in Nat
  <2>1. "REOBSERVE" \in RecoveryPhases
    BY DEF RecoveryPhases
  <2>2. StateOK'
    BY <1>1, <1>2, <1>7, <2>1, PhaseFacts, NoCandidateType, ConfigAssumption
       DEF Reobserve, StateOK, ConfigAssumption
  <2>3. Kept
    BY <1>1, <1>2, <1>7, <2>1, <2>2 DEF Reobserve, Kept, Consistent, CountTracksStreak
  <2> QED
    BY <1>1, <1>7, <2>3, RecordType DEF Reobserve, Kept, Outcomes, Reasons
<1>8. ASSUME NEW reason \in Reasons, Finish("ABORTED", s, reason)
      PROVE  Kept /\ entry' \in EntryType /\ streak' \in Nat
  <2>1. Kept
    BY <1>1, <1>8, FinishOK DEF Kept, CountTracksStreak, Terminal
  <2> QED
    BY <1>1, <1>8, <2>1, RecordType DEF Finish, Kept, Outcomes
<1>9. ASSUME DiagnoseIdle(s)
      PROVE  Kept /\ entry' \in EntryType /\ streak' \in Nat
  <2>1. candidate' = NoCandidate
    BY <1>1, <1>9 DEF DiagnoseIdle, Diagnosing, CountTracksStreak
  <2>2. Kept
    BY <1>1, <1>9, <2>1, StayReset DEF DiagnoseIdle, Kept
  <2> QED
    BY <1>1, <1>9, <2>2, RecordType DEF DiagnoseIdle, Kept, Outcomes, Reasons
<1>10. ASSUME DiagnoseReturn(s)
       PROVE  Kept /\ entry' \in EntryType /\ streak' \in Nat
  <2>1. ReturnPhase(s) \in Normal /\ ReturnPhase(s) \in Phases
    BY <1>2, FirstPhase, PhaseFacts DEF ReturnPhase
  <2>2. attempts' \in Nat /\ attempts' <= MaxRecoveryAttempts
    BY <1>1, <1>10, ConfigAssumption DEF DiagnoseReturn, StateOK, ConfigAssumption
  <2>3. StateOK'
    BY <1>1, <1>10, <2>1, <2>2, EnterOK DEF DiagnoseReturn, Statuses, Terminal
  <2>4. Kept
    BY <1>10, <2>1, <2>2, <2>3
       DEF DiagnoseReturn, Enter, Kept, Consistent, CountTracksStreak
  <2> QED
    BY <1>1, <1>10, <2>4, RecordType DEF DiagnoseReturn, Kept, Outcomes, Reasons
<1>11. "ABORT_REQUESTED" \in Reasons /\ "RETRY_BUDGET_EXHAUSTED" \in Reasons
  BY DEF Reasons
<1> QED
  BY <1>3, <1>4, <1>5, <1>6, <1>7, <1>8, <1>9, <1>10, <1>11
     DEF RecoveryStep, DiagnoseRelapse, DiagnoseAbort, DiagnoseExhausted, DiagnoseNotReady

\* In a fault-free normal phase whose exit and target are ready, the evidence is complete.
LEMMA LeavingIsComplete ==
  ASSUME NEW s, ~Inadmissible(s), phase \in Normal, Leaving(s), TargetReady(s)
  PROVE  Complete(phase, s)
  BY DEF Leaving, Faulty, TargetReady, Complete, Supports

LEMMA NormalStepKeeps ==
  ASSUME IInv, NEW s \in Snapshots, NormalStep(s)
  PROVE  Kept /\ entry' \in EntryType /\ streak' \in Nat
<1>1. StateOK /\ Consistent /\ CountTracksStreak /\ streak \in Nat
  BY DEF IInv, TypeOK
<1>2. /\ status \notin Terminal /\ subtask # Recover /\ ~Inadmissible(s)
      /\ status = "RUNNING" /\ phase \in Normal /\ phase \in Phases /\ phase # "DIAGNOSE"
  BY <1>1, NormalFacts, PhaseFacts DEF NormalStep, InNormal, RecoveryPhases
<1>3. ASSUME NEW reason \in Reasons, EnterRecovery(s, reason)
      PROVE  Kept /\ entry' \in EntryType /\ streak' \in Nat
  <2>1. Kept
    BY <1>1, <1>2, <1>3, EnterRecoveryOK DEF Kept, CountTracksStreak
  <2> QED
    BY <1>1, <1>2, <1>3, <2>1, RecordType DEF EnterRecovery, Kept, Outcomes
<1>4. NormalFaultReason(s) \in Reasons /\ "MISSING_MODALITY" \in Reasons
  BY DEF NormalFaultReason, Reasons
<1>5. ASSUME ExitPending(s)
      PROVE  Kept /\ entry' \in EntryType /\ streak' \in Nat
  <2>1. Kept
    BY <1>1, <1>5, StayReset DEF ExitPending, Kept
  <2> QED
    BY <1>1, <1>5, <2>1, RecordType DEF ExitPending, Kept, Outcomes, Reasons
<1>6. ASSUME EntryPending(s)
      PROVE  Kept /\ entry' \in EntryType /\ streak' \in Nat
  <2>1. Kept
    BY <1>1, <1>6, StayReset DEF EntryPending, Kept
  <2> QED
    BY <1>1, <1>6, <2>1, RecordType DEF EntryPending, Kept, Outcomes, Reasons
<1>7. ASSUME Settling(s)
      PROVE  Kept /\ entry' \in EntryType /\ streak' \in Nat
  <2>1. Complete(phase, s)
    BY <1>2, <1>7, LeavingIsComplete DEF Settling
  <2>2. Required(phase) \in Nat
    BY <1>2, RequiredType
  <2>3. Kept
    BY <1>1, <1>2, <1>7, <2>1, <2>2, StaySettling DEF Settling, Kept
  <2> QED
    BY <1>1, <1>7, <2>3, RecordType DEF Settling, Kept, Outcomes, Reasons
<1>8. ASSUME CommitPhase(s)
      PROVE  Kept /\ entry' \in EntryType /\ streak' \in Nat
  <2>1. NextPhase(phase) \in Normal /\ NextPhase(phase) \in Phases
    BY <1>2, <1>8, NextIsNormal, PhaseFacts DEF CommitPhase
  <2>2. StateOK'
    BY <1>1, <1>8, <2>1, EnterOK DEF CommitPhase, StateOK, Statuses, Terminal
  <2>3. Kept
    BY <1>1, <1>8, <2>1, <2>2
       DEF CommitPhase, Enter, Kept, Consistent, CountTracksStreak
  <2> QED
    BY <1>1, <1>8, <2>3, RecordType DEF CommitPhase, Kept, Outcomes, Reasons
<1>9. ASSUME CompleteTask(s)
      PROVE  Kept /\ entry' \in EntryType /\ streak' \in Nat
  <2>1. Kept
    BY <1>1, <1>9, FinishOK DEF CompleteTask, Kept, CountTracksStreak, Terminal
  <2> QED
    BY <1>1, <1>9, <2>1, RecordType DEF CompleteTask, Finish, Kept, Outcomes, Reasons
<1> QED
  BY <1>3, <1>4, <1>5, <1>6, <1>7, <1>8, <1>9
     DEF NormalStep, NormalFault, TargetUnobservable

LEMMA StepKeeps ==
  ASSUME IInv, NEW s \in Snapshots, Step(s)
  PROVE  IInv'
<1>1. StateOK /\ Consistent /\ CountTracksStreak /\ streak \in Nat
  BY DEF IInv, TypeOK
<1>2. CASE TerminalTick(s)
  <2>1. Kept
    BY <1>1, <1>2
       DEF TerminalTick, Kept, StateOK, Consistent, CountTracksStreak, KeyAfter, IsLast, NextPhase
  <2> QED
    BY <1>1, <1>2, <2>1, RecordType DEF TerminalTick, Kept, Outcomes, Reasons, IInv, TypeOK
<1>3. CASE FailClosed(s)
  <2>1. Kept
    BY <1>1, <1>3, EnterRecoveryOK DEF FailClosed, Kept, CountTracksStreak
  <2>2. InadmissibleReason(s) \in Reasons
    BY DEF InadmissibleReason, Reasons
  <2> QED
    BY <1>1, <1>3, <2>1, <2>2, RecordType
       DEF FailClosed, EnterRecovery, Kept, Outcomes, IInv, TypeOK
<1>4. CASE RecoveryStep(s)
  BY <1>4, RecoveryStepKeeps DEF Kept, IInv, TypeOK
<1>5. CASE NormalStep(s)
  BY <1>5, NormalStepKeeps DEF Kept, IInv, TypeOK
<1> QED
  BY <1>2, <1>3, <1>4, <1>5 DEF Step

LEMMA InitIInv == ASSUME Init PROVE IInv
<1>1. phase \in Normal /\ phase \in Phases /\ phase \notin RecoveryPhases
  BY FirstPhase, PhaseFacts DEF Init
<1>2. StateOK
  BY <1>1, NoCandidateType, ConfigAssumption
     DEF Init, StateOK, ConfigAssumption, Statuses, Terminal
<1> QED
  BY <1>1, <1>2, ConfigAssumption
     DEF Init, IInv, TypeOK, Consistent, CountTracksStreak, ConfigAssumption

LEMMA Inductive == ASSUME IInv, [Next]_vars PROVE IInv'
<1>1. CASE Next
  BY <1>1, StepKeeps DEF Next
<1>2. CASE UNCHANGED vars
  BY <1>2
     DEF vars, IInv, TypeOK, StateOK, Consistent, CountTracksStreak, KeyAfter, IsLast, NextPhase
<1> QED
  BY <1>1, <1>2

THEOREM InductiveInvariant == Spec => []IInv
  BY InitIInv, Inductive, PTL DEF Spec

\* The executive's state always has the shape ExecutiveState and PhaseSpec demand, and
\* the stored subtask and owner are those of the stored phase.
THEOREM TypeCorrect == Spec => []TypeOK
  BY InductiveInvariant, PTL DEF IInv
-----------------------------------------------------------------------------
(* What a running task rests on *)

\* What the ledger entry says about the state it was recorded in.
LEMMA RecordFields ==
  ASSUME NEW s, NEW outcome, NEW reason, NEW reset, Record(s, outcome, reason, reset)
  PROVE  /\ entry'.snapshot = s /\ entry'.outcome = outcome
         /\ entry'.reason = reason /\ entry'.reset = reset
         /\ entry'.after.status = status' /\ entry'.after.phase = phase'
         /\ entry'.critical = IF status' = "RUNNING" THEN PhaseSpec[phase'].critical ELSE "NONE"
         /\ entry'.actuation => status' = "RUNNING"
  BY DEF Record, State

\* Clean evidence that carries everything phase p must have to be left active.
Carries(p, s) ==
  /\ ~s.gt /\ ~s.unsafe /\ ~Inconsistent(s)
  /\ RequireStateEstimate => s.estimated
  /\ PhaseSpec[p].required \subseteq s.modalities
  /\ PhaseSpec[p].invariant \subseteq s.predicates
  /\ PhaseSpec[p].critical # "NONE" => PhaseSpec[p].entry \subseteq s.predicates

LEMMA EntryCarries ==
  ASSUME NEW s, NEW p, ~Inadmissible(s), HasModalities(p, s), EntryMet(p, s)
  PROVE  Carries(p, s)
<1>1. /\ PhaseSpec[p].invariant \subseteq s.predicates
      /\ PhaseSpec[p].entry \subseteq s.predicates
  BY DEF EntryMet, Satisfied
<1> QED
  BY <1>1 DEF Carries, Inadmissible, HasModalities

LEMMA SupportCarries ==
  ASSUME NEW s, NEW p, ~Inadmissible(s), Supports(p, s)
  PROVE  Carries(p, s)
  BY DEF Carries, Inadmissible, HasModalities, Supports, Authorized, InvariantMet, Satisfied

\* A step either stops the task or leaves it in a phase its evidence carries.
LEMMA StepIsSupported ==
  ASSUME IInv, NEW s \in Snapshots, Step(s)
  PROVE  /\ \E outcome, reason, reset : Record(s, outcome, reason, reset)
         /\ status' = "RUNNING" => Carries(phase', s)
<1>1. StateOK /\ Consistent
  BY DEF IInv, TypeOK
<1>2. CASE TerminalTick(s)
  BY <1>2 DEF TerminalTick, Terminal
<1>3. CASE FailClosed(s)
  BY <1>3 DEF FailClosed, EnterRecovery
<1>4. CASE RecoveryStep(s)
  <2>1. status = "HOLDING" /\ ~Inadmissible(s)
    BY <1>1, <1>4, RecoveryFacts DEF RecoveryStep, InRecovery
  <2>2. CASE DiagnoseReturn(s)
    BY <2>1, <2>2, EntryCarries DEF DiagnoseReturn, Enter
  <2>3. CASE Reobserve(s)
    BY <2>1, <2>3 DEF Reobserve
  <2>4. ASSUME NEW reason, Finish("ABORTED", s, reason)
        PROVE  status' # "RUNNING" /\ \E o, r, x : Record(s, o, r, x)
    BY <2>4 DEF Finish
  <2>5. CASE RecoveryBlind(s) \/ RecoveryExitPending(s) \/ RecoverySettling(s) \/ DiagnoseIdle(s)
    BY <2>1, <2>5
       DEF RecoveryBlind, RecoveryExitPending, RecoverySettling, DiagnoseIdle, Stay
  <2>6. CASE RecoveryAdvance(s)
    BY <2>6 DEF RecoveryAdvance, Enter
  <2> QED
    BY <1>4, <2>2, <2>3, <2>4, <2>5, <2>6
       DEF RecoveryStep, DiagnoseRelapse, DiagnoseAbort, DiagnoseExhausted, DiagnoseNotReady
<1>5. CASE NormalStep(s)
  <2>1. ~Inadmissible(s)
    BY <1>5 DEF NormalStep, InNormal
  <2>2. CASE NormalFault(s) \/ TargetUnobservable(s)
    BY <2>2 DEF NormalFault, TargetUnobservable, EnterRecovery
  <2>3. CASE ExitPending(s) \/ EntryPending(s) \/ Settling(s)
    <3>1. phase' = phase /\ Supports(phase, s)
      BY <2>3 DEF ExitPending, EntryPending, Settling, Stay, Leaving, Faulty
    <3> QED
      BY <2>1, <2>3, <3>1, SupportCarries DEF ExitPending, EntryPending, Settling
  <2>4. CASE CommitPhase(s)
    BY <2>1, <2>4, EntryCarries DEF CommitPhase, Enter, TargetReady
  <2>5. CASE CompleteTask(s)
    BY <2>5 DEF CompleteTask, Finish
  <2> QED
    BY <1>5, <2>2, <2>3, <2>4, <2>5 DEF NormalStep
<1> QED
  BY <1>2, <1>3, <1>4, <1>5 DEF Step

\* A tick that leaves the task running was clean and carried every modality, every
\* invariant and, for gripper close, lift and release, every authorisation of the phase
\* it leaves active; nobody else is allowed to actuate (HierarchicalExecutive.step).
THEOREM RunningIsSupported == Spec => []RunningSupported
<1>1. Init => RunningSupported
  BY DEF Init, RunningSupported
<1>2. ASSUME IInv, RunningSupported, [Next]_vars PROVE RunningSupported'
  <2>1. CASE UNCHANGED vars
    BY <1>2, <2>1 DEF vars, RunningSupported
  <2>2. ASSUME NEW s \in Snapshots, Step(s) PROVE RunningSupported'
    <3>1. PICK outcome, reason, reset : Record(s, outcome, reason, reset)
      BY <1>2, <2>2, StepIsSupported
    <3>2. status' = "RUNNING" => Carries(phase', s)
      BY <1>2, <2>2, StepIsSupported
    <3> QED
      BY <3>1, <3>2, RecordFields DEF RunningSupported, Carries
  <2> QED
    BY <1>2, <2>1, <2>2 DEF Next
<1> QED
  BY <1>1, <1>2, InductiveInvariant, PTL DEF Spec
-----------------------------------------------------------------------------
(* What a step may never do *)

SamePlace == UNCHANGED <<status, subtask, phase, owner, attempts, resume>>

\* The ways a tick can end, for a reader of its effect on the state.
Shape(s) ==
  \/ SamePlace
  \/ status \notin Terminal /\ \E reason : EnterRecovery(s, reason)
  \/ RecoveryAdvance(s) /\ InRecovery(s)
  \/ Reobserve(s) /\ InRecovery(s) /\ phase = "DIAGNOSE"
  \/ InRecovery(s) /\ \E reason : Finish("ABORTED", s, reason)
  \/ DiagnoseReturn(s) /\ InRecovery(s)
  \/ CommitPhase(s) /\ InNormal(s)
  \/ CompleteTask(s) /\ InNormal(s)

LEMMA StepHasShape == ASSUME NEW s \in Snapshots, Step(s) PROVE Shape(s)
<1>1. CASE TerminalTick(s)
  BY <1>1 DEF TerminalTick, Shape, SamePlace
<1>2. CASE FailClosed(s)
  BY <1>2 DEF FailClosed, Shape
<1>3. CASE RecoveryStep(s)
  <2>1. InRecovery(s)
    BY <1>3 DEF RecoveryStep
  <2>2. CASE RecoveryBlind(s) \/ RecoveryExitPending(s) \/ RecoverySettling(s) \/ DiagnoseIdle(s)
    BY <2>2 DEF RecoveryBlind, RecoveryExitPending, RecoverySettling, DiagnoseIdle, Stay,
                Shape, SamePlace
  <2>3. CASE DiagnoseRelapse(s) \/ DiagnoseNotReady(s)
    BY <2>1, <2>3
       DEF DiagnoseRelapse, DiagnoseNotReady, Decided, Diagnosing, Shape
  <2>4. CASE DiagnoseAbort(s) \/ DiagnoseExhausted(s)
    BY <2>1, <2>4 DEF DiagnoseAbort, DiagnoseExhausted, Shape
  <2> QED
    BY <1>3, <2>1, <2>2, <2>3, <2>4 DEF RecoveryStep, Shape
<1>4. CASE NormalStep(s)
  <2>1. InNormal(s) /\ status \notin Terminal
    BY <1>4 DEF NormalStep, InNormal
  <2>2. CASE ExitPending(s) \/ EntryPending(s) \/ Settling(s)
    BY <2>2 DEF ExitPending, EntryPending, Settling, Stay, Shape, SamePlace
  <2>3. CASE NormalFault(s) \/ TargetUnobservable(s)
    BY <2>1, <2>3 DEF NormalFault, TargetUnobservable, Shape
  <2> QED
    BY <1>4, <2>1, <2>2, <2>3 DEF NormalStep, Shape
<1> QED
  BY <1>1, <1>2, <1>3, <1>4 DEF Step

\* Who is where before a step.
LEMMA Places ==
  ASSUME IInv, NEW s
  PROVE  /\ status \in Statuses /\ phase \in Phases
         /\ subtask = PhaseSpec[phase].subtask /\ attempts \in Nat
         /\ InRecovery(s) => /\ status = "HOLDING" /\ subtask = Recover /\ owner = "SAFE_HOLD"
                             /\ phase \in RecoveryPhases /\ resume \in Normal
         /\ InNormal(s) => /\ status = "RUNNING" /\ subtask # Recover
                           /\ phase \in Normal /\ phase \notin RecoveryPhases
         /\ status \notin Terminal /\ subtask = Recover =>
              status = "HOLDING" /\ owner = "SAFE_HOLD" /\ phase \in RecoveryPhases
         /\ status \notin Terminal /\ subtask # Recover => status = "RUNNING" /\ phase \in Normal
<1>1. StateOK /\ Consistent
  BY DEF IInv, TypeOK
<1>2. status \notin Terminal /\ subtask = Recover =>
        status = "HOLDING" /\ owner = "SAFE_HOLD" /\ phase \in RecoveryPhases /\ resume \in Normal
  BY <1>1, RecoveryFacts, PhaseFacts DEF StateOK
<1>3. status \notin Terminal /\ subtask # Recover =>
        status = "RUNNING" /\ phase \in Normal /\ phase \notin RecoveryPhases
  BY <1>1, NormalFacts, PhaseFacts
<1> QED
  BY <1>1, <1>2, <1>3 DEF InRecovery, InNormal, StateOK

LEMMA ReturnIsNormal ==
  ASSUME IInv, NEW s, InRecovery(s)
  PROVE  /\ ReturnPhase(s) \in Normal
         /\ ReturnPhase(s) = IF "replan_authorized" \in s.predicates THEN NormalPhases[1] ELSE resume
<1>1. resume \in Normal /\ resume # NoPhase
  BY Places, PhaseFacts
<1> QED
  BY <1>1, FirstPhase DEF ReturnPhase

LEMMA NormalSubtask ==
  ASSUME NEW p \in Normal
  PROVE  PhaseSpec[p].subtask # Recover
  BY PhaseFacts

\* Every return from recovery is counted, none beyond MaxRecoveryAttempts, none forgotten
\* (_step_recovery's budget check and increment).
THEOREM BudgetHolds == Spec => ReturnsAreCounted
<1>1. ASSUME IInv, IInv', NEW s \in Snapshots, Step(s) PROVE CountsReturn
  <2>1. attempts' <= MaxRecoveryAttempts
    BY <1>1 DEF IInv, Consistent
  <2>2. attempts \in Nat
    BY <1>1, Places
  <2>3. attempts' = attempts + (IF status = "HOLDING" /\ status' = "RUNNING" THEN 1 ELSE 0)
    <3>1. CASE SamePlace
      BY <2>2, <3>1 DEF SamePlace
    <3>2. CASE \E reason : EnterRecovery(s, reason)
      BY <2>2, <3>2 DEF EnterRecovery
    <3>3. CASE RecoveryAdvance(s)
      BY <2>2, <3>3 DEF RecoveryAdvance, Enter
    <3>4. CASE Reobserve(s) /\ InRecovery(s)
      BY <1>1, <2>2, <3>4, Places DEF Reobserve
    <3>5. CASE (\E reason : Finish("ABORTED", s, reason)) \/ CompleteTask(s)
      <4>1. status' # "RUNNING" /\ attempts' = attempts
        BY <3>5 DEF Finish, CompleteTask
      <4> QED
        BY <2>2, <4>1
    <3>6. CASE DiagnoseReturn(s) /\ InRecovery(s)
      BY <1>1, <3>6, Places DEF DiagnoseReturn, Enter
    <3>7. CASE CommitPhase(s) /\ InNormal(s)
      BY <1>1, <2>2, <3>7, Places DEF CommitPhase, Enter
    <3> QED
      BY <1>1, <3>1, <3>2, <3>3, <3>4, <3>5, <3>6, <3>7, StepHasShape DEF Shape
  <2> QED
    BY <2>1, <2>3 DEF CountsReturn
<1>2. IInv /\ [Next]_vars => [CountsReturn]_vars
  BY <1>1, Inductive DEF Next
<1> QED
  BY <1>2, InductiveInvariant, PTL DEF Spec, ReturnsAreCounted

\* The phase remembered while recovering is the one that was interrupted, and a retry
\* returns exactly there (_enter_recovery and DIAGNOSE of _step_recovery).
THEOREM RetryReturns == Spec => RetryReturnsToInterruption
<1>1. ASSUME IInv, IInv', NEW s \in Snapshots, Step(s) PROVE RemembersInterruption
  <2>1. CASE SamePlace
    BY <2>1 DEF SamePlace, RemembersInterruption
  <2>2. CASE \E reason : EnterRecovery(s, reason)
    BY <2>2 DEF EnterRecovery, RemembersInterruption
  <2>3. CASE RecoveryAdvance(s) /\ InRecovery(s)
    <3>1. KeyAfter(phase) \in RecoveryPhases
      BY <1>1, <2>3, Places, KeyAfterType DEF RecoveryAdvance
    <3> QED
      BY <1>1, <2>3, <3>1, Places, PhaseFacts DEF RecoveryAdvance, Enter, RemembersInterruption
  <2>4. CASE Reobserve(s) \/ CompleteTask(s) \/ \E reason : Finish("ABORTED", s, reason)
    BY <2>4 DEF Reobserve, CompleteTask, Finish, RemembersInterruption
  <2>5. CASE DiagnoseReturn(s) /\ InRecovery(s)
    <3>1. entry'.reason = IF "replan_authorized" \in s.predicates
                            THEN "RECOVERY_REPLAN" ELSE "RECOVERY_RETRY"
      BY <2>5, RecordFields DEF DiagnoseReturn
    <3>2. phase' = IF "replan_authorized" \in s.predicates THEN NormalPhases[1] ELSE resume
      BY <1>1, <2>5, ReturnIsNormal DEF DiagnoseReturn, Enter
    <3>3. subtask = Recover /\ subtask' # Recover
      BY <1>1, <2>5, Places, ReturnIsNormal, NormalSubtask DEF DiagnoseReturn, Enter
    <3> QED
      BY <3>1, <3>2, <3>3 DEF RemembersInterruption
  <2>6. CASE CommitPhase(s) /\ InNormal(s)
    <3>1. NextPhase(phase) \in Normal
      BY <1>1, <2>6, Places, NextIsNormal DEF CommitPhase
    <3>2. subtask # Recover /\ subtask' # Recover
      BY <1>1, <2>6, <3>1, Places, NormalSubtask DEF CommitPhase, Enter
    <3> QED
      BY <3>2 DEF RemembersInterruption
  <2> QED
    BY <1>1, <2>1, <2>2, <2>3, <2>4, <2>5, <2>6, StepHasShape DEF Shape
<1>2. IInv /\ [Next]_vars => [RemembersInterruption]_vars
  BY <1>1, Inductive DEF Next
<1> QED
  BY <1>2, InductiveInvariant, PTL DEF Spec, RetryReturnsToInterruption

\* Whoever owns the controller changes only with a committed decision that tells the
\* runtime to drop the remaining action chunk (_commit_phase, _enter_recovery,
\* _complete_or_abort).
THEOREM HandoverResets == Spec => HandoverResetsAction
<1>1. ASSUME IInv, NEW s \in Snapshots, Step(s) PROVE ResetsOnHandover
  <2>1. CASE SamePlace
    BY <2>1 DEF SamePlace, ResetsOnHandover
  <2>2. CASE status \notin Terminal /\ \E reason : EnterRecovery(s, reason)
    <3>1. CASE subtask = Recover
      BY <1>1, <2>2, <3>1, Places DEF EnterRecovery, ResetsOnHandover
    <3>2. CASE subtask # Recover
      BY <2>2, <3>2, RecordFields DEF EnterRecovery, ResetsOnHandover
    <3> QED
      BY <3>1, <3>2
  <2>3. CASE RecoveryAdvance(s) \/ DiagnoseReturn(s) \/ CommitPhase(s)
    BY <2>3, RecordFields DEF RecoveryAdvance, DiagnoseReturn, CommitPhase, ResetsOnHandover
  <2>4. CASE Reobserve(s)
    BY <2>4 DEF Reobserve, ResetsOnHandover
  <2>5. CASE CompleteTask(s) \/ \E reason : Finish("ABORTED", s, reason)
    BY <2>5, RecordFields DEF CompleteTask, Finish, ResetsOnHandover
  <2> QED
    BY <1>1, <2>1, <2>2, <2>3, <2>4, <2>5, StepHasShape DEF Shape
<1>2. IInv /\ [Next]_vars => [ResetsOnHandover]_vars
  BY <1>1 DEF Next
<1> QED
  BY <1>2, InductiveInvariant, PTL DEF Spec, HandoverResetsAction

LEMMA NextInOrder ==
  ASSUME NEW p \in Normal, ~IsLast(p)
  PROVE  \E i \in 1..Len(NormalPhases)-1 : p = NormalPhases[i] /\ NextPhase(p) = NormalPhases[i + 1]
<1> DEFINE i == CHOOSE k \in 1..Len(NormalPhases) : NormalPhases[k] = p
<1>1. i \in 1..Len(NormalPhases) /\ NormalPhases[i] = p
  BY DEF Normal
<1>2. i \in 1..Len(NormalPhases)-1
  BY <1>1, NormalAssumption DEF IsLast, NormalAssumption
<1>3. NextPhase(p) = NormalPhases[i + 1]
  BY DEF NextPhase
<1> QED
  BY <1>1, <1>2, <1>3

\* The executive never consults allowed_next, and still takes only declared edges, one
\* phase of the normal order at a time.
THEOREM StaysOnGraph == Spec => GraphOnly
<1>1. ASSUME IInv, IInv', NEW s \in Snapshots, Step(s) PROVE FollowsGraph
  <2>1. phase \in Phases /\ subtask = PhaseSpec[phase].subtask
    BY <1>1, Places
  <2>2. CASE SamePlace
    BY <2>2 DEF SamePlace, FollowsGraph
  <2>3. CASE status \notin Terminal /\ \E reason : EnterRecovery(s, reason)
    <3>1. subtask' = Recover /\ phase' = "SAFE_HOLD" /\ phase' \notin Normal
      BY <2>3, PhaseFacts DEF EnterRecovery, RecoveryPhases
    <3>2. subtask # Recover => phase \in Normal
      BY <1>1, <2>3, Places
    <3> QED
      BY <2>1, <3>1, <3>2, GraphAssumption DEF GraphAssumption, FollowsGraph
  <2>4. CASE InRecovery(s) /\ (RecoveryAdvance(s) \/ Reobserve(s))
    <3>1. subtask = Recover /\ phase \notin Normal
      BY <1>1, <2>4, Places, PhaseFacts
    <3>2. RecoveryAdvance(s) => KeyAfter(phase) \in RecoveryPhases
      BY <2>1, <2>4, KeyAfterType DEF RecoveryAdvance
    <3>3. subtask' = Recover
      BY <2>4, <3>1, <3>2, PhaseFacts DEF RecoveryAdvance, Reobserve, Enter
    <3> QED
      BY <3>1, <3>3 DEF FollowsGraph
  <2>5. CASE CompleteTask(s) \/ \E reason : Finish("ABORTED", s, reason)
    BY <2>5 DEF CompleteTask, Finish, FollowsGraph
  <2>6. CASE DiagnoseReturn(s) /\ InRecovery(s)
    <3>1. subtask = Recover /\ phase \notin Normal
      BY <1>1, <2>6, Places, PhaseFacts
    <3>2. phase' \in Normal /\ subtask' = PhaseSpec[phase'].subtask
      BY <1>1, <2>6, ReturnIsNormal DEF DiagnoseReturn, Enter
    <3> QED
      BY <3>1, <3>2, GraphAssumption DEF GraphAssumption, FollowsGraph
  <2>7. CASE CommitPhase(s) /\ InNormal(s)
    <3>1. phase \in Normal /\ ~IsLast(phase)
      BY <1>1, <2>7, Places DEF CommitPhase
    <3>2. PICK i \in 1..Len(NormalPhases)-1 :
            phase = NormalPhases[i] /\ NextPhase(phase) = NormalPhases[i + 1]
      BY <3>1, NextInOrder
    <3>3. phase' = NormalPhases[i + 1] /\ subtask' = PhaseSpec[NormalPhases[i + 1]].subtask
      BY <2>7, <3>2 DEF CommitPhase, Enter
    <3>4. subtask' # subtask => subtask' \in AllowedNext[subtask]
      BY <2>1, <3>2, <3>3, GraphAssumption DEF GraphAssumption
    <3> QED
      BY <3>2, <3>3, <3>4 DEF FollowsGraph
  <2> QED
    BY <1>1, <2>2, <2>3, <2>4, <2>5, <2>6, <2>7, StepHasShape DEF Shape
<1>2. IInv /\ [Next]_vars => [FollowsGraph]_vars
  BY <1>1, Inductive DEF Next
<1> QED
  BY <1>2, InductiveInvariant, PTL DEF Spec, GraphOnly

LEMMA NoTicksNoPhase ==
  ASSUME IInv, phase # "DIAGNOSE"
  PROVE  TicksFor(KeyAfter(phase)) \in Nat /\ TicksFor(KeyAfter(phase)) <= streak + 1 /\ streak \in Nat
  BY TicksBound DEF IInv, TypeOK

\* Progress is committed only after the evidence for it was complete on the required
\* number of consecutive ticks (_stable_candidate and every place that resets it).
THEOREM ProgressRests == Spec => ProgressIsStable
<1>1. ASSUME IInv, IInv', NEW s \in Snapshots, Step(s) PROVE RestsOnStableEvidence
  <2>1. CASE SamePlace
    BY <2>1 DEF SamePlace, RestsOnStableEvidence, Progress
  <2>2. CASE \E reason : EnterRecovery(s, reason)
    BY <2>2 DEF EnterRecovery, RestsOnStableEvidence, Progress
  <2>3. CASE RecoveryAdvance(s) /\ InRecovery(s)
    <3>1. /\ phase \in {"SAFE_HOLD", "REOBSERVE"} /\ phase \in Phases /\ phase \notin Normal
          /\ phase # "DIAGNOSE" /\ ~Inadmissible(s)
      BY <1>1, <2>3, Places, PhaseFacts DEF RecoveryAdvance, InRecovery
    <3>2. Complete(phase, s) /\ entry'.snapshot = s
      BY <2>3, <3>1, RecordFields DEF Complete, RecoveryAdvance, Observing
    <3>3. phase' \in RecoveryPhases /\ phase' \notin Normal
      BY <2>3, <3>1, KeyAfterType, PhaseFacts DEF RecoveryAdvance, Enter
    <3>4. PhaseSpec[phase].stable \in Nat
      BY <3>1, SpecTypes
    <3>5. streak + 1 >= PhaseSpec[phase].stable
      BY <1>1, <2>3, <3>1, <3>4, NoTicksNoPhase DEF RecoveryAdvance
    <3> QED
      BY <3>2, <3>3, <3>5 DEF RestsOnStableEvidence, StabilityNeeded
  <2>4. CASE Reobserve(s) /\ InRecovery(s) /\ phase = "DIAGNOSE"
    BY <1>1, <2>4, Places DEF Reobserve, RestsOnStableEvidence, Progress
  <2>5. CASE \E reason : InRecovery(s) /\ Finish("ABORTED", s, reason)
    BY <2>5 DEF Finish, RestsOnStableEvidence, Progress
  <2>6. CASE DiagnoseReturn(s) /\ InRecovery(s)
    <3>1. status = "HOLDING" /\ phase' \in Normal
      BY <1>1, <2>6, Places, ReturnIsNormal DEF DiagnoseReturn, Enter
    <3>2. phase' \notin RecoveryPhases
      BY <3>1, PhaseFacts
    <3> QED
      BY <3>1, <3>2 DEF RestsOnStableEvidence, Progress, RecoveryPhases
  <2>7. CASE (CommitPhase(s) \/ CompleteTask(s)) /\ InNormal(s)
    <3>1. phase \in Normal /\ phase \in Phases /\ phase # "DIAGNOSE" /\ ~Inadmissible(s)
      BY <1>1, <2>7, Places DEF InNormal, RecoveryPhases
    <3>2. Complete(phase, s)
      BY <2>7, <3>1, LeavingIsComplete DEF CommitPhase, CompleteTask, TargetReady
    <3>3. entry'.snapshot = s
      BY <2>7, RecordFields DEF CommitPhase, CompleteTask, Finish
    <3>4. Required(phase) \in Nat
      BY <3>1, RequiredType
    <3>5. streak + 1 >= Required(phase)
      <4>1. TicksFor(KeyAfter(phase)) >= Required(phase)
        BY <2>7 DEF CommitPhase, CompleteTask
      <4>2. TicksFor(KeyAfter(phase)) \in Nat /\ TicksFor(KeyAfter(phase)) <= streak + 1
              /\ streak \in Nat
        BY <1>1, <3>1, NoTicksNoPhase
      <4> QED
        BY <3>4, <4>1, <4>2
    <3>6. StabilityNeeded(phase, phase') = Required(phase)
      <4>1. CASE CommitPhase(s)
        BY <3>1, <4>1, NextIsNormal DEF CommitPhase, Enter, StabilityNeeded, Required
      <4>2. CASE CompleteTask(s)
        <5>1. PhaseSpec[phase].stable \in Nat /\ phase' = phase
          BY <3>1, <4>2, SpecTypes DEF CompleteTask, Finish
        <5> QED
          BY <3>1, <4>2, <5>1 DEF CompleteTask, StabilityNeeded, Required
      <4> QED
        BY <2>7, <4>1, <4>2
    <3> QED
      BY <3>2, <3>3, <3>5, <3>6 DEF RestsOnStableEvidence
  <2> QED
    BY <1>1, <2>1, <2>2, <2>3, <2>4, <2>5, <2>6, <2>7, StepHasShape DEF Shape
<1>2. IInv /\ [Next]_vars => [RestsOnStableEvidence]_vars
  BY <1>1, Inductive DEF Next
<1> QED
  BY <1>2, InductiveInvariant, PTL DEF Spec, ProgressIsStable

-----------------------------------------------------------------------------
(* A tick as a function of the executive and the snapshot: replaying it comes out the same *)

\* HierarchicalExecutive's fields that a tick reads and writes.
At(st, sub, p, own, ticks, tried, cand, back) ==
  [status |-> st, subtask |-> sub, phase |-> p, owner |-> own, age |-> ticks,
   attempts |-> tried, candidate |-> cand, resume |-> back]

Here == At(status, subtask, phase, owner, age, attempts, candidate, resume)

\* Where a tick leads, and the decision it is recorded as.
Turn(there, outcome, reason, reset) ==
  [to |-> there, outcome |-> outcome, reason |-> reason, reset |-> reset]

Older(x)         == IF x.age < AgeCap THEN x.age + 1 ELSE x.age
Counted(x, key)  == IF x.candidate.key = key THEN x.candidate.ticks + 1 ELSE 1

Waiting(x, cand) ==
  At(x.status, x.subtask, x.phase, x.owner, Older(x), x.attempts, cand, x.resume)

Moving(x, st, p, tried, back) ==
  At(st, PhaseSpec[p].subtask, p, PhaseSpec[p].owner, 0, tried, NoCandidate, back)

Relapsing(x) ==
  At(x.status, x.subtask, "REOBSERVE", x.owner, 0, x.attempts, NoCandidate, x.resume)

Recovering(x, reason) ==
  Turn(At("HOLDING", Recover, "SAFE_HOLD", "SAFE_HOLD", 0, x.attempts, NoCandidate,
          IF x.subtask = Recover THEN x.resume ELSE x.phase),
       IF x.subtask = Recover THEN "UNCHANGED" ELSE "COMMITTED", reason, x.subtask # Recover)

Finishing(x, st, reason) ==
  Turn(At(st, x.subtask, x.phase, "SAFE_HOLD", 0, x.attempts, NoCandidate, x.resume),
       "COMMITTED", reason, TRUE)

Settled(x, needed, done) ==
  LET key == KeyAfter(x.phase)
  IN  IF Counted(x, key) < needed
        THEN Turn(Waiting(x, [key |-> key, ticks |-> Counted(x, key)]),
                  "REJECTED", "STABILITY_PENDING", FALSE)
        ELSE done

ReturnTo(x, s) ==
  IF "replan_authorized" \in s.predicates \/ x.resume = NoPhase THEN NormalPhases[1] ELSE x.resume

DiagnosedTurn(x, s) ==
  IF ~InvariantMet(x.phase, s)
    THEN Turn(Relapsing(x), "REJECTED", "RECOVERY_REOBSERVE_PENDING", FALSE)
  ELSE IF "abort_required" \in s.predicates THEN Finishing(x, "ABORTED", "ABORT_REQUESTED")
  ELSE IF Verdict(s) = {}
    THEN Turn(Waiting(x, x.candidate), "UNCHANGED", "RECOVERY_DIAGNOSE_PENDING", FALSE)
  ELSE IF x.attempts >= MaxRecoveryAttempts
    THEN Finishing(x, "ABORTED", "RETRY_BUDGET_EXHAUSTED")
  ELSE IF ~(HasModalities(ReturnTo(x, s), s) /\ EntryMet(ReturnTo(x, s), s))
    THEN Turn(Relapsing(x), "REJECTED", "RECOVERY_REOBSERVE_PENDING", FALSE)
  ELSE Turn(Moving(x, "RUNNING", ReturnTo(x, s), x.attempts + 1, NoPhase),
            "COMMITTED",
            IF "replan_authorized" \in s.predicates THEN "RECOVERY_REPLAN" ELSE "RECOVERY_RETRY",
            TRUE)

RecoveryTurn(x, s) ==
  IF ~HasModalities(x.phase, s)
    THEN Turn(Waiting(x, NoCandidate), "REJECTED",
              IF x.phase = "REOBSERVE" THEN "RECOVERY_REOBSERVE_PENDING" ELSE "MISSING_MODALITY",
              FALSE)
  ELSE IF x.phase \notin {"SAFE_HOLD", "REOBSERVE"} THEN DiagnosedTurn(x, s)
  ELSE IF ~Satisfied(PhaseSpec[x.phase].exit, s)
    THEN Turn(Waiting(x, NoCandidate), "UNCHANGED",
              IF x.phase = "SAFE_HOLD" THEN "RECOVERY_HOLD_PENDING"
                                       ELSE "RECOVERY_REOBSERVE_PENDING",
              FALSE)
  ELSE Settled(x, PhaseSpec[x.phase].stable,
               Turn(Moving(x, "HOLDING", KeyAfter(x.phase), x.attempts, x.resume),
                    "COMMITTED", "RECOVERY_PHASE_COMPLETED", TRUE))

FaultReason(p, s) ==
  IF ~HasModalities(p, s) THEN "MISSING_MODALITY"
  ELSE IF ~Authorized(p, s) THEN "CRITICAL_ACTION_NOT_AUTHORIZED"
  ELSE IF InvariantMet(p, s) THEN "PHASE_TIMEOUT" ELSE "STATE_INVARIANT_FAILED"

NormalTurn(x, s) ==
  IF ~Supports(x.phase, s) \/ TimedOut(x.phase, Older(x))
    THEN Recovering(x, FaultReason(x.phase, s))
  ELSE IF ~Satisfied(PhaseSpec[x.phase].exit, s)
    THEN Turn(Waiting(x, NoCandidate), "UNCHANGED", "EXIT_NOT_SATISFIED", FALSE)
  ELSE IF ~IsLast(x.phase) /\ ~HasModalities(NextPhase(x.phase), s)
    THEN Recovering(x, "MISSING_MODALITY")
  ELSE IF ~IsLast(x.phase) /\ ~EntryMet(NextPhase(x.phase), s)
    THEN Turn(Waiting(x, NoCandidate), "REJECTED", "ENTRY_NOT_SATISFIED", FALSE)
  ELSE Settled(x, Required(x.phase),
               IF IsLast(x.phase) THEN Finishing(x, "COMPLETED", "TASK_COMPLETED")
               ELSE Turn(Moving(x, "RUNNING", NextPhase(x.phase), x.attempts, x.resume),
                         "COMMITTED", "PHASE_COMPLETED", TRUE))

\* The one way a tick with snapshot s can end in x.
TurnOf(x, s) ==
  IF x.status \in Terminal THEN Turn(x, "UNCHANGED", "TERMINAL_STATE", FALSE)
  ELSE IF Inadmissible(s) THEN Recovering(x, InadmissibleReason(s))
  ELSE IF x.subtask = Recover THEN RecoveryTurn(x, s)
  ELSE NormalTurn(x, s)

\* A step that makes turn t.
Makes(s, t) == Here' = t.to /\ Record(s, t.outcome, t.reason, t.reset)

LEMMA HereFields ==
  /\ Here.status = status /\ Here.subtask = subtask /\ Here.phase = phase /\ Here.owner = owner
  /\ Here.age = age /\ Here.attempts = attempts /\ Here.candidate = candidate
  /\ Here.resume = resume
  /\ Older(Here) = Aged
  /\ \A key : Counted(Here, key) = TicksFor(key)
  /\ \A s : ReturnTo(Here, s) = ReturnPhase(s)
BY DEF Here, At, Older, Aged, Counted, TicksFor, ReturnTo, ReturnPhase

LEMMA TurnFields ==
  ASSUME NEW x, NEW outcome, NEW reason, NEW reset
  PROVE  /\ Turn(x, outcome, reason, reset).to = x
         /\ Turn(x, outcome, reason, reset).outcome = outcome
         /\ Turn(x, outcome, reason, reset).reason = reason
         /\ Turn(x, outcome, reason, reset).reset = reset
BY DEF Turn

LEMMA TurnMade ==
  ASSUME NEW s, NEW there, NEW outcome, NEW reason, NEW reset, Here' = there,
         Record(s, outcome, reason, reset)
  PROVE  Makes(s, Turn(there, outcome, reason, reset))
BY TurnFields DEF Makes

\* The effects the actions share, as turns.
LEMMA StayMakes ==
  ASSUME Stay, NEW cand, candidate' = cand, NEW s, NEW outcome, NEW reason, NEW reset,
         Record(s, outcome, reason, reset)
  PROVE  Makes(s, Turn(Waiting(Here, cand), outcome, reason, reset))
<1>1. Here' = Waiting(Here, cand)
  BY HereFields DEF Stay, Waiting, Here
<1> QED BY <1>1, TurnMade

LEMMA EnterMakes ==
  ASSUME NEW st, NEW p, Enter(st, p), NEW tried, attempts' = tried, NEW back, resume' = back,
         NEW s, NEW outcome, NEW reason, NEW reset, Record(s, outcome, reason, reset)
  PROVE  Makes(s, Turn(Moving(Here, st, p, tried, back), outcome, reason, reset))
<1>1. Here' = Moving(Here, st, p, tried, back)
  BY DEF Enter, Moving, Here
<1> QED BY <1>1, TurnMade

LEMMA ReobserveMakes ==
  ASSUME NEW s, Reobserve(s)
  PROVE  Makes(s, Turn(Relapsing(Here), "REJECTED", "RECOVERY_REOBSERVE_PENDING", FALSE))
<1>1. Here' = Relapsing(Here)
  BY HereFields DEF Reobserve, Relapsing, Here
<1>2. Record(s, "REJECTED", "RECOVERY_REOBSERVE_PENDING", FALSE)
  BY DEF Reobserve
<1> QED BY <1>1, <1>2, TurnMade

LEMMA EnterRecoveryMakes ==
  ASSUME NEW s, NEW reason, EnterRecovery(s, reason)
  PROVE  Makes(s, Recovering(Here, reason))
<1> DEFINE there == At("HOLDING", Recover, "SAFE_HOLD", "SAFE_HOLD", 0, attempts, NoCandidate,
                       IF subtask = Recover THEN resume ELSE phase)
           outcome == IF subtask = Recover THEN "UNCHANGED" ELSE "COMMITTED"
           reset == subtask # Recover
<1>1. Here' = there
  BY DEF EnterRecovery, Here
<1>2. Recovering(Here, reason) = Turn(there, outcome, reason, reset)
  BY HereFields DEF Recovering
<1>3. Record(s, outcome, reason, reset)
  BY DEF EnterRecovery
<1> HIDE DEF there, outcome, reset
<1>4. Makes(s, Turn(there, outcome, reason, reset))
  BY <1>1, <1>3, TurnMade
<1> QED BY <1>2, <1>4

LEMMA FinishMakes ==
  ASSUME NEW s, NEW st, NEW reason, Finish(st, s, reason)
  PROVE  Makes(s, Finishing(Here, st, reason))
<1> DEFINE there == At(st, subtask, phase, "SAFE_HOLD", 0, attempts, NoCandidate, resume)
<1>1. Here' = there
  BY DEF Finish, Here
<1>2. Finishing(Here, st, reason) = Turn(there, "COMMITTED", reason, TRUE)
  BY HereFields DEF Finishing
<1>3. Record(s, "COMMITTED", reason, TRUE)
  BY DEF Finish
<1> HIDE DEF there
<1>4. Makes(s, Turn(there, "COMMITTED", reason, TRUE))
  BY <1>1, <1>3, TurnMade
<1> QED BY <1>2, <1>4

\* The decision of DIAGNOSE.
LEMMA DiagnoseMakes ==
  ASSUME StateOK, NEW s,
         \/ DiagnoseRelapse(s) \/ DiagnoseAbort(s)    \/ DiagnoseIdle(s)
         \/ DiagnoseExhausted(s) \/ DiagnoseNotReady(s) \/ DiagnoseReturn(s)
  PROVE  phase = "DIAGNOSE" /\ HasModalities(phase, s) /\ Makes(s, DiagnosedTurn(Here, s))
<1> USE DEF Decided, Diagnosing, Observing
<1>1. phase = "DIAGNOSE" /\ HasModalities(phase, s)
  BY DEF DiagnoseRelapse, DiagnoseAbort, DiagnoseIdle, DiagnoseExhausted, DiagnoseNotReady,
         DiagnoseReturn
<1>2. attempts \in Nat /\ MaxRecoveryAttempts \in Nat
  BY ConfigAssumption DEF StateOK
<1> DEFINE p == ReturnPhase(s)
<1>3. CASE DiagnoseRelapse(s)
  <2>1. DiagnosedTurn(Here, s) =
          Turn(Relapsing(Here), "REJECTED", "RECOVERY_REOBSERVE_PENDING", FALSE)
    BY <1>3, HereFields DEF DiagnoseRelapse, DiagnosedTurn
  <2> QED BY <1>1, <1>3, <2>1, ReobserveMakes DEF DiagnoseRelapse
<1>4. CASE DiagnoseAbort(s)
  <2>1. DiagnosedTurn(Here, s) = Finishing(Here, "ABORTED", "ABORT_REQUESTED")
    BY <1>4, HereFields DEF DiagnoseAbort, DiagnosedTurn
  <2> QED BY <1>1, <1>4, <2>1, FinishMakes DEF DiagnoseAbort
<1>5. CASE DiagnoseIdle(s)
  <2>1. DiagnosedTurn(Here, s) =
          Turn(Waiting(Here, candidate), "UNCHANGED", "RECOVERY_DIAGNOSE_PENDING", FALSE)
    BY <1>5, HereFields DEF DiagnoseIdle, DiagnosedTurn
  <2> QED BY <1>1, <1>5, <2>1, StayMakes DEF DiagnoseIdle
<1>6. CASE DiagnoseExhausted(s)
  <2>1. DiagnosedTurn(Here, s) = Finishing(Here, "ABORTED", "RETRY_BUDGET_EXHAUSTED")
    BY <1>6, HereFields DEF DiagnoseExhausted, DiagnosedTurn
  <2> QED BY <1>1, <1>6, <2>1, FinishMakes DEF DiagnoseExhausted
<1>7. CASE DiagnoseNotReady(s)
  <2>1. DiagnosedTurn(Here, s) =
          Turn(Relapsing(Here), "REJECTED", "RECOVERY_REOBSERVE_PENDING", FALSE)
    <3>1. ~(attempts >= MaxRecoveryAttempts)
      BY <1>2, <1>7 DEF DiagnoseNotReady
    <3> QED BY <1>7, <3>1, HereFields DEF DiagnoseNotReady, DiagnosedTurn
  <2> QED BY <1>1, <1>7, <2>1, ReobserveMakes DEF DiagnoseNotReady
<1>8. CASE DiagnoseReturn(s)
  <2> DEFINE reason == IF "replan_authorized" \in s.predicates THEN "RECOVERY_REPLAN"
                                                               ELSE "RECOVERY_RETRY"
             there == Moving(Here, "RUNNING", p, attempts + 1, NoPhase)
  <2>1. ~(attempts >= MaxRecoveryAttempts)
    BY <1>2, <1>8 DEF DiagnoseReturn
  <2>2. DiagnosedTurn(Here, s) = Turn(there, "COMMITTED", reason, TRUE)
    <3>1. /\ InvariantMet(Here.phase, s) /\ "abort_required" \notin s.predicates
          /\ Verdict(s) # {} /\ ~(Here.attempts >= MaxRecoveryAttempts)
          /\ HasModalities(p, s) /\ EntryMet(p, s) /\ ReturnTo(Here, s) = p
          /\ Here.attempts = attempts
      BY <1>8, <2>1, HereFields DEF DiagnoseReturn
    <3> HIDE DEF p
    <3> QED BY <3>1 DEF DiagnosedTurn
  <2>3. /\ Enter("RUNNING", p) /\ attempts' = attempts + 1 /\ resume' = NoPhase
        /\ Record(s, "COMMITTED", reason, TRUE)
    BY <1>8 DEF DiagnoseReturn
  <2>4. PICK tried : tried = attempts + 1
    OBVIOUS
  <2> HIDE DEF reason, p
  <2>5. Makes(s, Turn(Moving(Here, "RUNNING", p, tried, NoPhase), "COMMITTED", reason, TRUE))
    BY <2>3, <2>4, EnterMakes
  <2> QED BY <1>1, <2>2, <2>4, <2>5
<1> QED BY <1>3, <1>4, <1>5, <1>6, <1>7, <1>8

LEMMA RecoveryMakes ==
  ASSUME IInv, NEW s \in Snapshots, RecoveryStep(s)
  PROVE  Makes(s, RecoveryTurn(Here, s))
<1>1. StateOK /\ phase \in RecoveryPhases
  BY Places DEF IInv, TypeOK, RecoveryStep
<1> DEFINE key == KeyAfter(phase)
<1>2. phase # "DIAGNOSE" => TicksFor(key) \in Nat
  BY <1>1, KeyAfterType, TicksType DEF StateOK
<1>3. PhaseSpec[phase].stable \in Nat
  BY <1>1, SpecTypes DEF StateOK
<1>4. CASE RecoveryBlind(s)
  <2> DEFINE reason == IF phase = "REOBSERVE" THEN "RECOVERY_REOBSERVE_PENDING"
                                              ELSE "MISSING_MODALITY"
  <2>1. RecoveryTurn(Here, s) = Turn(Waiting(Here, NoCandidate), "REJECTED", reason, FALSE)
    BY <1>4, HereFields DEF RecoveryBlind, RecoveryTurn
  <2> QED BY <1>4, <2>1, StayMakes DEF RecoveryBlind
<1>5. CASE RecoveryExitPending(s)
  <2> DEFINE reason == IF phase = "SAFE_HOLD" THEN "RECOVERY_HOLD_PENDING"
                                              ELSE "RECOVERY_REOBSERVE_PENDING"
  <2>1. RecoveryTurn(Here, s) = Turn(Waiting(Here, NoCandidate), "UNCHANGED", reason, FALSE)
    BY <1>5, HereFields DEF RecoveryExitPending, RecoveryTurn, Observing
  <2> QED BY <1>5, <2>1, StayMakes DEF RecoveryExitPending
<1>6. CASE RecoverySettling(s)
  <2> DEFINE c == [key |-> key, ticks |-> TicksFor(key)]
  <2>1. RecoveryTurn(Here, s) = Turn(Waiting(Here, c), "REJECTED", "STABILITY_PENDING", FALSE)
    <3>1. /\ Here.phase = phase /\ Counted(Here, key) = TicksFor(key)
          /\ TicksFor(key) < PhaseSpec[phase].stable
      BY <1>6, HereFields DEF RecoverySettling
    <3>2. RecoveryTurn(Here, s) =
            Settled(Here, PhaseSpec[phase].stable,
                    Turn(Moving(Here, "HOLDING", key, Here.attempts, Here.resume),
                         "COMMITTED", "RECOVERY_PHASE_COMPLETED", TRUE))
      BY <1>6, <3>1 DEF RecoverySettling, RecoveryTurn, Observing
    <3> QED BY <3>1, <3>2 DEF Settled
  <2> QED BY <1>6, <2>1, StayMakes DEF RecoverySettling
<1>7. CASE RecoveryAdvance(s)
  <2>1. TicksFor(key) >= PhaseSpec[phase].stable /\ phase # "DIAGNOSE"
    BY <1>7 DEF RecoveryAdvance
  <2>2. ~(TicksFor(key) < PhaseSpec[phase].stable)
    BY <1>2, <1>3, <2>1
  <2>3. RecoveryTurn(Here, s) = Turn(Moving(Here, "HOLDING", key, attempts, resume),
                                     "COMMITTED", "RECOVERY_PHASE_COMPLETED", TRUE)
    BY <1>7, <2>2, HereFields DEF RecoveryAdvance, RecoveryTurn, Observing, Settled
  <2> QED BY <1>7, <2>3, EnterMakes DEF RecoveryAdvance
<1>8. CASE DiagnoseRelapse(s) \/ DiagnoseAbort(s) \/ DiagnoseIdle(s) \/ DiagnoseExhausted(s)
             \/ DiagnoseNotReady(s) \/ DiagnoseReturn(s)
  <2>1. phase = "DIAGNOSE" /\ HasModalities(phase, s) /\ Makes(s, DiagnosedTurn(Here, s))
    BY <1>1, <1>8, DiagnoseMakes
  <2>2. RecoveryTurn(Here, s) = DiagnosedTurn(Here, s)
    BY <2>1, HereFields DEF RecoveryTurn
  <2> QED BY <2>1, <2>2
<1> QED BY <1>4, <1>5, <1>6, <1>7, <1>8 DEF RecoveryStep

LEMMA NormalMakes ==
  ASSUME IInv, NEW s \in Snapshots, NormalStep(s)
  PROVE  Makes(s, NormalTurn(Here, s))
<1>1. StateOK /\ phase \in Normal /\ phase # "DIAGNOSE"
  BY Places, PhaseFacts DEF IInv, TypeOK, NormalStep, RecoveryPhases
<1> DEFINE key == KeyAfter(phase)
<1>2. TicksFor(key) \in Nat /\ Required(phase) \in Nat
  BY <1>1, KeyAfterType, TicksType, RequiredType DEF StateOK
<1>3. Faulty(s) <=> ~Supports(phase, s) \/ TimedOut(phase, Older(Here))
  BY HereFields DEF Faulty
<1>4. CASE NormalFault(s)
  <2>1. NormalFaultReason(s) = FaultReason(phase, s)
    BY DEF NormalFaultReason, FaultReason
  <2>2. NormalTurn(Here, s) = Recovering(Here, NormalFaultReason(s))
    BY <1>3, <1>4, <2>1, HereFields DEF NormalFault, NormalTurn
  <2> QED BY <1>4, <2>2, EnterRecoveryMakes DEF NormalFault
<1>5. CASE ExitPending(s)
  <2>1. NormalTurn(Here, s) =
          Turn(Waiting(Here, NoCandidate), "UNCHANGED", "EXIT_NOT_SATISFIED", FALSE)
    BY <1>3, <1>5, HereFields DEF ExitPending, NormalTurn
  <2> QED BY <1>5, <2>1, StayMakes DEF ExitPending
<1>6. CASE TargetUnobservable(s)
  <2>1. NormalTurn(Here, s) = Recovering(Here, "MISSING_MODALITY")
    BY <1>3, <1>6, HereFields DEF TargetUnobservable, Leaving, NormalTurn
  <2> QED BY <1>6, <2>1, EnterRecoveryMakes DEF TargetUnobservable
<1>7. CASE EntryPending(s)
  <2>1. NormalTurn(Here, s) =
          Turn(Waiting(Here, NoCandidate), "REJECTED", "ENTRY_NOT_SATISFIED", FALSE)
    BY <1>3, <1>7, HereFields DEF EntryPending, Leaving, NormalTurn
  <2> QED BY <1>7, <2>1, StayMakes DEF EntryPending
<1> DEFINE done == IF IsLast(phase) THEN Finishing(Here, "COMPLETED", "TASK_COMPLETED")
                   ELSE Turn(Moving(Here, "RUNNING", NextPhase(phase), attempts, resume),
                             "COMMITTED", "PHASE_COMPLETED", TRUE)
<1>8. ASSUME Leaving(s), TargetReady(s)
      PROVE  NormalTurn(Here, s) = Settled(Here, Required(phase), done)
  BY <1>3, <1>8, HereFields DEF Leaving, TargetReady, NormalTurn
<1>9. CASE Settling(s)
  <2> DEFINE c == [key |-> key, ticks |-> TicksFor(key)]
  <2>1. NormalTurn(Here, s) = Turn(Waiting(Here, c), "REJECTED", "STABILITY_PENDING", FALSE)
    BY <1>8, <1>9, HereFields DEF Settling, Settled
  <2> QED BY <1>9, <2>1, StayMakes DEF Settling
<1>10. ASSUME Leaving(s), TargetReady(s), TicksFor(key) >= Required(phase)
       PROVE  NormalTurn(Here, s) = done
  <2>1. ~(TicksFor(key) < Required(phase))
    BY <1>2, <1>10
  <2> QED BY <1>8, <1>10, <2>1, HereFields DEF Settled
<1>11. CASE CommitPhase(s)
  <2>1. NormalTurn(Here, s) = Turn(Moving(Here, "RUNNING", NextPhase(phase), attempts, resume),
                                   "COMMITTED", "PHASE_COMPLETED", TRUE)
    BY <1>10, <1>11 DEF CommitPhase
  <2> QED BY <1>11, <2>1, EnterMakes DEF CommitPhase
<1>12. CASE CompleteTask(s)
  <2>1. NormalTurn(Here, s) = Finishing(Here, "COMPLETED", "TASK_COMPLETED")
    BY <1>10, <1>12 DEF CompleteTask, TargetReady
  <2> QED BY <1>12, <2>1, FinishMakes DEF CompleteTask
<1> QED BY <1>4, <1>5, <1>6, <1>7, <1>9, <1>11, <1>12 DEF NormalStep

\* Every tick makes the one turn its snapshot prescribes: the executive is deterministic.
LEMMA StepMakes ==
  ASSUME IInv, NEW s \in Snapshots, Step(s)
  PROVE  Makes(s, TurnOf(Here, s))
<1>1. CASE TerminalTick(s)
  <2>1. TurnOf(Here, s) = Turn(Here, "UNCHANGED", "TERMINAL_STATE", FALSE)
    BY <1>1, HereFields DEF TerminalTick, TurnOf
  <2>2. Here' = Here /\ Record(s, "UNCHANGED", "TERMINAL_STATE", FALSE)
    BY <1>1 DEF TerminalTick, Here
  <2>3. Makes(s, Turn(Here, "UNCHANGED", "TERMINAL_STATE", FALSE))
    BY <2>2, TurnMade
  <2> QED BY <2>1, <2>3
<1>2. CASE FailClosed(s)
  <2>1. TurnOf(Here, s) = Recovering(Here, InadmissibleReason(s))
    BY <1>2, HereFields DEF FailClosed, TurnOf
  <2> QED BY <1>2, <2>1, EnterRecoveryMakes DEF FailClosed
<1>3. CASE RecoveryStep(s)
  <2>1. TurnOf(Here, s) = RecoveryTurn(Here, s)
    BY <1>3, HereFields DEF RecoveryStep, InRecovery, TurnOf
  <2> QED BY <1>3, <2>1, RecoveryMakes
<1>4. CASE NormalStep(s)
  <2>1. TurnOf(Here, s) = NormalTurn(Here, s)
    BY <1>4, HereFields DEF NormalStep, InNormal, TurnOf
  <2> QED BY <1>4, <2>1, NormalMakes
<1> QED BY <1>1, <1>2, <1>3, <1>4 DEF Step

-----------------------------------------------------------------------------
(* The shadow observer *)

BooksType ==
  /\ ledger \in Seq(Commits)
  /\ lastTick \in Nat \cup {Silent}
  /\ nextTick \in Nat
  /\ lastControl \in Int
  /\ loopStep \in Nat
  /\ resetError \in BOOLEAN
  /\ episode \in 0..MaxEpisodes
  /\ records \in Seq([tick : Nat \cup {Silent}, error : Errors])
  /\ restoring \in [stage : {"idle", "begin", "replay"}, left : Seq(Commits), error : Errors]

\* A restoration is part of a call, and a call is made only after a reset that worked.
RestoringListens == ~Ready => ~resetError

\* Ticks are numbered from zero, in the ledger and in what is left to replay after it.
Numbered ==
  /\ restoring.stage # "begin" =>
       /\ \A i \in 1..Len(ledger) : ledger[i].tick = i - 1
       /\ lastTick = Len(ledger) - 1
       /\ nextTick = Len(ledger) + Len(restoring.left)
       /\ \A i \in 1..Len(restoring.left) : restoring.left[i].tick = Len(ledger) + i - 1
  /\ restoring.stage = "begin" =>
       /\ nextTick = Len(restoring.left)
       /\ \A i \in 1..Len(restoring.left) : restoring.left[i].tick = i - 1
  /\ Ready => restoring.left = <<>> /\ restoring.error = NoError

\* While the loop asks, everything in the ledger and to be replayed is of its episode;
\* after a failed reset the ledger stays that of the one before.
Current ==
  /\ ~resetError => /\ \A i \in 1..Len(ledger) : ledger[i].episode = episode
                    /\ \A i \in 1..Len(restoring.left) : restoring.left[i].episode = episode
  /\ \A i, j \in 1..Len(ledger) : ledger[i].episode = ledger[j].episode

\* In an episode of the loop alone, no control step it reports is before the latest.
Heeded ==
  LoopOnly => /\ lastControl <= loopStep
              /\ restoring.error \notin {"tick", "control"}
              /\ InStep

Books == BooksType /\ RestoringListens /\ Numbered /\ Current /\ Heeded

-----------------------------------------------------------------------------
(* Appending to and consuming a sequence of commits *)

LEMMA AppendCommits ==
  ASSUME NEW S, NEW seq \in Seq(S), NEW x \in S
  PROVE  /\ Append(seq, x) \in Seq(S)
         /\ Len(Append(seq, x)) = Len(seq) + 1
         /\ \A i \in 1..Len(seq) + 1 :
              Append(seq, x)[i] = IF i = Len(seq) + 1 THEN x ELSE seq[i]
  OBVIOUS

LEMMA ConsumeCommits ==
  ASSUME NEW S, NEW seq \in Seq(S), seq # <<>>
  PROVE  /\ Head(seq) \in S
         /\ Head(seq) = seq[1]
         /\ Tail(seq) \in Seq(S)
         /\ Len(seq) \in Nat \ {0}
         /\ Len(Tail(seq)) = Len(seq) - 1
         /\ \A i \in 1..Len(seq) - 1 : Tail(seq)[i] = seq[i + 1]
  OBVIOUS

LEMMA Shift == ASSUME NEW m \in Nat, NEW n \in Nat PROVE m + n = (m + 1) + (n - 1)
  OBVIOUS

LEMMA NoCommits == ASSUME NEW S PROVE <<>> \in Seq(S) /\ Len(<<>>) = 0
  OBVIOUS

LEMMA NewCommit ==
  ASSUME NEW s \in Snapshots, NEW tick \in Nat, NEW time \in Times, NEW ep \in 0..MaxEpisodes
  PROVE  /\ Commit(s, tick, time, ep) \in Commits
         /\ Commit(s, tick, time, ep).tick = tick
         /\ Commit(s, tick, time, ep).episode = ep
  BY DEF Commit, Commits

-----------------------------------------------------------------------------
(* The invariant holds at first and is kept *)

LEMMA BooksInit == ObserverInit => Books
  <1> SUFFICES ASSUME ObserverInit PROVE Books
    OBVIOUS
  <1>1. BooksType
    <2>1. Idle \in [stage : {"idle", "begin", "replay"}, left : Seq(Commits), error : Errors]
      BY NoCommits DEF Idle, NoError, Errors
    <2>2. ledger \in Seq(Commits) /\ records \in Seq([tick : Nat \cup {Silent}, error : Errors])
      BY NoCommits DEF ObserverInit
    <2>3. /\ lastTick = Silent /\ nextTick = 0 /\ lastControl = -1 /\ loopStep = 0
          /\ episode = 0 /\ restoring = Idle
      BY DEF ObserverInit
    <2>4. 0 \in 0..MaxEpisodes
      BY ObserverAssumption
    <2>5. resetError \in BOOLEAN
      BY DEF ObserverInit
    <2> QED BY <2>1, <2>2, <2>3, <2>4, <2>5 DEF BooksType
  <1>2. RestoringListens /\ Numbered /\ Current /\ Heeded
    BY DEF ObserverInit, RestoringListens, Ready, Idle, Numbered, Current, Heeded, LoopOnly, InStep,
           Silent, NoError
  <1> QED BY <1>1, <1>2 DEF Books

\* The part of the invariant that is about the record just written.
LEMMA NotedKeeps ==
  ASSUME NEW tick \in Nat \cup {Silent}, NEW error \in Errors,
         records \in Seq([tick : Nat \cup {Silent}, error : Errors]), Noted(tick, error)
  PROVE  /\ records' \in Seq([tick : Nat \cup {Silent}, error : Errors])
         /\ InStep /\ error \notin {"tick", "control"} => InStep'
  <1> DEFINE R == [tick : Nat \cup {Silent}, error : Errors]
             r == [tick |-> tick, error |-> error]
  <1>1. r \in R /\ r.error = error
    OBVIOUS
  <1>2. records' = Append(records, r)
    BY DEF Noted
  <1> HIDE DEF r, R
  <1>3. /\ records' \in Seq(R)
        /\ Len(records') = Len(records) + 1
        /\ \A i \in 1..Len(records) + 1 :
             records'[i] = IF i = Len(records) + 1 THEN r ELSE records[i]
    BY <1>1, <1>2, AppendCommits DEF R
  <1>4. ASSUME InStep, error \notin {"tick", "control"}
        PROVE  InStep'
    BY <1>1, <1>3, <1>4 DEF InStep, R
  <1> QED BY <1>3, <1>4 DEF R

\* Any call that ends in the except branch, whatever it did to the executive before.
LEMMA RestoreKeeps ==
  ASSUME Books, Listening, NEW control \in Controls, NEW error \in Errors,
         LoopOnly => error \notin {"tick", "control"},
         Restore(control, error), Advance,
         NEW s \in Snapshots, NEW time \in Times,
         \/ ledger' = ledger
         \/ ledger' = Append(ledger, Commit(s, nextTick, time, episode)),
         lastTick' \in Nat \cup {Silent}
  PROVE  Books'
  <1> USE DEF Books
  <1>1. Listening /\ Ready /\ ~resetError
    BY DEF Listening
  <1>2. /\ restoring' = [stage |-> "begin", left |-> ledger, error |-> error]
        /\ UNCHANGED <<nextTick, records>>
    BY DEF Restore
  <1>3. /\ loopStep' \in Nat /\ loopStep' >= loopStep
        /\ UNCHANGED <<resetError, episode>>
    BY ObserverAssumption DEF Advance, BooksType
  <1>4. control \in Int /\ (LoopOnly => control = loopStep)
    BY ObserverAssumption DEF Controls, BooksType, LoopOnly
  <1>5. lastControl' \in Int /\ (LoopOnly => lastControl' <= loopStep')
    BY <1>1, <1>3, <1>4 DEF Restore, Heard, ControlRegressed, BooksType, Heeded
  <1>6. /\ ledger' \in Seq(Commits)
        /\ \A i \in 1..Len(ledger') : ledger'[i].episode = episode
    <2>1. \A i \in 1..Len(ledger) : ledger[i].episode = episode
      BY <1>1 DEF Current
    <2>2. CASE ledger' = ledger
      BY <2>1, <2>2 DEF BooksType
    <2>3. CASE ledger' = Append(ledger, Commit(s, nextTick, time, episode))
      <3>1. /\ Commit(s, nextTick, time, episode) \in Commits
            /\ Commit(s, nextTick, time, episode).episode = episode
        BY NewCommit DEF BooksType
      <3> DEFINE c == Commit(s, nextTick, time, episode)
      <3> HIDE DEF c
      <3>2. /\ ledger' \in Seq(Commits)
            /\ Len(ledger') = Len(ledger) + 1
            /\ \A i \in 1..Len(ledger) + 1 :
                 ledger'[i] = IF i = Len(ledger) + 1 THEN c ELSE ledger[i]
        BY <2>3, <3>1, AppendCommits DEF BooksType, c
      <3>3. c.episode = episode /\ Len(ledger) \in Nat
        BY <3>1 DEF c, BooksType
      <3>4. \A i \in 1..Len(ledger') : ledger'[i].episode = episode
        BY <2>1, <3>2, <3>3
      <3> QED BY <3>2, <3>4
    <2> QED BY <2>2, <2>3
  <1>7. BooksType'
    BY <1>2, <1>3, <1>5, <1>6 DEF BooksType
  <1>8. RestoringListens'
    BY <1>1, <1>3 DEF RestoringListens
  <1>9. Numbered'
    BY <1>1, <1>2 DEF Numbered, Ready, BooksType
  <1>10. Current'
    BY <1>1, <1>2, <1>3, <1>6 DEF Current
  <1>11. Heeded'
    BY <1>2, <1>3, <1>5 DEF Heeded, LoopOnly, InStep
  <1> QED BY <1>7, <1>8, <1>9, <1>10, <1>11

\* Between calls the executive's clock shows the tick before the next.
LEMMA ClockFits ==
  ASSUME Books, Ready, NEW time \in Times
  PROVE  ClockError(nextTick, time) \in {NoError, "time"}
  <1>1. /\ restoring.stage = "idle" /\ restoring.left = <<>>
        /\ lastTick = Len(ledger) - 1 /\ nextTick = Len(ledger) + Len(restoring.left)
    BY DEF Books, Numbered, Ready
  <1>2. Len(ledger) \in Nat /\ Len(restoring.left) = 0
    BY <1>1, NoCommits DEF Books, BooksType
  <1>3. nextTick = lastTick + 1
    BY <1>1, <1>2
  <1> QED BY <1>3 DEF ClockError

LEMMA ObserveKeeps ==
  ASSUME Books, NEW control \in Controls, Observe(control)
  PROVE  Books'
  <1> USE DEF Books
  <1>0. lastTick \in Nat \cup {Silent} /\ nextTick \in Nat
    BY DEF BooksType
  <1> Snapshots # {} /\ Times # {}
    BY InputAssumption, ObserverAssumption
  <1>1. PICK s0 \in Snapshots, time0 \in Times : TRUE
    OBVIOUS
  <1>2. CASE ObserveStale(control)
    <2>1. ~LoopOnly
      BY <1>2 DEF ObserveStale, ControlRegressed, Listening, Controls, Heeded, LoopOnly, BooksType
    <2>2. /\ Listening /\ Restore(control, "control") /\ Advance
          /\ ledger' = ledger /\ lastTick' = lastTick
      BY <1>2 DEF ObserveStale, execution
    <2> QED BY <1>0, <1>1, <2>1, <2>2, RestoreKeeps DEF Errors
  <1>3. CASE ObserveWithoutEvidence(control)
    <2>1. PICK error \in {"type", "evidence"} : Restore(control, error)
      BY <1>3 DEF ObserveWithoutEvidence
    <2>2. Listening /\ Advance /\ ledger' = ledger /\ lastTick' = lastTick
      BY <1>3 DEF ObserveWithoutEvidence, execution
    <2>3. error \in Errors /\ error \notin {"tick", "control"}
      BY <2>1 DEF Errors
    <2> QED BY <1>0, <1>1, <2>1, <2>2, <2>3, RestoreKeeps
  <1>4. CASE \E time \in Times : ObserveRefused(control, time)
    <2>1. PICK time \in Times : ObserveRefused(control, time)
      BY <1>4
    <2>2. /\ Listening /\ Advance /\ ledger' = ledger /\ lastTick' = lastTick
          /\ ClockError(nextTick, time) # NoError
          /\ Restore(control, ClockError(nextTick, time))
      BY <2>1 DEF ObserveRefused, execution
    <2>3. ClockError(nextTick, time) = "time"
      BY <2>2, ClockFits DEF Listening
    <2>4. Restore(control, "time")
      BY <2>2, <2>3
    <2> QED BY <1>0, <1>1, <2>2, <2>4, RestoreKeeps DEF Errors
  <1>5. CASE \E time \in Times, s \in Deployable : ObserveBreaks(control, s, time)
    <2>1. PICK time \in Times, s \in Deployable : ObserveBreaks(control, s, time)
      BY <1>5
    <2> s \in Snapshots
      BY DEF Deployable
    <2>2. /\ Listening /\ Advance /\ Restore(control, "step") /\ lastTick' = nextTick
          /\ \/ ledger' = ledger
             \/ ledger' = Append(ledger, Commit(s, nextTick, time, episode))
      BY <2>1 DEF ObserveBreaks
    <2> QED BY <1>0, <2>1, <2>2, RestoreKeeps DEF Errors
  <1>6. CASE \E time \in Times, s \in Deployable : ObserveCommits(control, s, time)
    <2>1. PICK time \in Times, s \in Deployable : ObserveCommits(control, s, time)
      BY <1>6
    <2> s \in Snapshots
      BY DEF Deployable
    <2>2. /\ Listening /\ Ready /\ ~resetError /\ Advance /\ restoring' = restoring
          /\ lastTick' = nextTick /\ nextTick' = nextTick + 1
          /\ ledger' = Append(ledger, Commit(s, nextTick, time, episode))
          /\ Noted(nextTick, NoError)
          /\ Heard(control)
      BY <2>1 DEF ObserveCommits, Listening, Tick
    <2>3. restoring.stage = "idle" /\ restoring.left = <<>>
      BY <2>2 DEF Ready, Numbered
    <2>4. /\ Commit(s, nextTick, time, episode) \in Commits
          /\ Commit(s, nextTick, time, episode).tick = nextTick
          /\ Commit(s, nextTick, time, episode).episode = episode
      BY <2>1, NewCommit DEF BooksType
    <2> DEFINE c == Commit(s, nextTick, time, episode)
    <2> HIDE DEF c
    <2>5. /\ ledger' \in Seq(Commits)
          /\ Len(ledger') = Len(ledger) + 1
          /\ \A i \in 1..Len(ledger) + 1 :
               ledger'[i] = IF i = Len(ledger) + 1 THEN c ELSE ledger[i]
      BY <2>2, <2>4, AppendCommits DEF BooksType, c
    <2>6. /\ loopStep' \in Nat /\ loopStep' >= loopStep
          /\ UNCHANGED <<resetError, episode>>
      BY <2>2, ObserverAssumption DEF Advance, BooksType
    <2>7. lastControl' \in Int /\ (LoopOnly => lastControl' <= loopStep')
      BY <2>2, <2>6, ObserverAssumption
         DEF Controls, LoopOnly, Heard, ControlRegressed, BooksType, Heeded
    <2>8. /\ records' \in Seq([tick : Nat \cup {Silent}, error : Errors])
          /\ InStep => InStep'
      <3>1. NoError \in Errors /\ NoError \notin {"tick", "control"}
        BY DEF Errors, NoError
      <3> QED BY <2>2, <3>1, NotedKeeps DEF BooksType
    <2>9. BooksType'
      BY <1>0, <2>2, <2>5, <2>6, <2>7, <2>8 DEF BooksType
    <2>10. RestoringListens'
      BY <2>2, <2>6 DEF RestoringListens
    <2>11. Numbered'
      BY <2>2, <2>3, <2>4, <2>5 DEF Numbered, Ready, BooksType, c
    <2>12. Current'
      BY <2>2, <2>3, <2>4, <2>5, <2>6 DEF Current, BooksType, c
    <2>13. Heeded'
      BY <2>2, <2>6, <2>7, <2>8 DEF Heeded, LoopOnly
    <2> QED BY <2>9, <2>10, <2>11, <2>12, <2>13
  <1> QED BY <1>2, <1>3, <1>4, <1>5, <1>6 DEF Observe

LEMMA RestoreCommittedKeeps ==
  ASSUME Books, RestoreCommitted
  PROVE  Books'
  <1> USE DEF Books
  <1>1. CASE RestoreBegins
    <2>1. /\ restoring.stage = "begin"
          /\ restoring' = [restoring EXCEPT !.stage = "replay"]
          /\ ledger' = <<>> /\ lastTick' = Silent
          /\ UNCHANGED <<nextTick, lastControl, records, loopStep, resetError, episode>>
      BY <1>1 DEF RestoreBegins, NewExecutive, observer, loop
    <2>2. restoring' = [stage |-> "replay", left |-> restoring.left, error |-> restoring.error]
      BY <2>1 DEF BooksType
    <2>3. BooksType'
      BY <2>1, <2>2 DEF BooksType
    <2>4. RestoringListens' /\ Numbered' /\ Current'
      BY <2>1, <2>2 DEF BooksType, RestoringListens, Ready, Numbered, Current, Silent
    <2>5. Heeded'
      BY <2>1, <2>2 DEF Heeded, LoopOnly, InStep
    <2> QED BY <2>3, <2>4, <2>5
  <1>2. CASE RestoreReplays
    <2> DEFINE next == Head(restoring.left)
    <2>1. /\ restoring.stage = "replay"
          /\ restoring.left # <<>>
          /\ restoring' = [restoring EXCEPT !.left = Tail(@)]
          /\ lastTick' = next.tick
          /\ ledger' = Append(ledger, Commit(next.snapshot, next.tick, next.time, next.episode))
          /\ UNCHANGED <<nextTick, lastControl, records, loopStep, resetError, episode>>
      BY <1>2 DEF RestoreReplays, LeftToReplay, Tick, observer, loop
    <2>2. /\ next \in Commits /\ next = restoring.left[1]
          /\ Tail(restoring.left) \in Seq(Commits)
          /\ Len(restoring.left) \in Nat \ {0}
          /\ Len(Tail(restoring.left)) = Len(restoring.left) - 1
          /\ \A i \in 1..Len(restoring.left) - 1 : Tail(restoring.left)[i] = restoring.left[i + 1]
      BY <2>1, ConsumeCommits DEF BooksType
    <2>3. Commit(next.snapshot, next.tick, next.time, next.episode) = next
      BY <2>2 DEF Commit, Commits
    <2>4. next.tick \in Nat /\ next.episode \in 0..MaxEpisodes
      BY <2>2 DEF Commits
    <2>5. next.tick = Len(ledger) /\ (~resetError => next.episode = episode)
      <3>1. Len(ledger) \in Nat /\ 1 \in 1..Len(restoring.left)
        BY <2>2 DEF BooksType
      <3>2. restoring.left[1].tick = Len(ledger) + 1 - 1
        BY <2>1, <3>1 DEF Numbered
      <3>3. ~resetError => restoring.left[1].episode = episode
        BY <3>1 DEF Current
      <3> QED BY <2>2, <3>1, <3>2, <3>3
    <2> HIDE DEF next
    <2>6. /\ ledger' \in Seq(Commits)
          /\ Len(ledger') = Len(ledger) + 1
          /\ \A i \in 1..Len(ledger) + 1 :
               ledger'[i] = IF i = Len(ledger) + 1 THEN next ELSE ledger[i]
      BY <2>1, <2>2, <2>3, AppendCommits DEF BooksType
    <2>7. restoring' = [stage |-> "replay", left |-> Tail(restoring.left), error |-> restoring.error]
      BY <2>1 DEF BooksType
    <2>8. BooksType'
      BY <2>1, <2>2, <2>4, <2>6, <2>7 DEF BooksType
    <2>9. RestoringListens'
      BY <2>1 DEF RestoringListens, Ready
    <2>10. Numbered'
      <3>1. restoring'.stage = "replay" /\ restoring'.left = Tail(restoring.left)
        BY <2>7
      <3>2. Len(ledger) \in Nat /\ Len(restoring.left) \in Nat
        BY <2>2 DEF BooksType
      <3>3. \A i \in 1..Len(ledger') : ledger'[i].tick = i - 1
        BY <2>1, <2>5, <2>6, <3>2 DEF Numbered
      <3>4. lastTick' = Len(ledger') - 1
        BY <2>1, <2>5, <2>6, <3>2
      <3>5. nextTick' = Len(ledger') + Len(restoring'.left)
        <4>1. nextTick' = nextTick /\ nextTick = Len(ledger) + Len(restoring.left)
          BY <2>1 DEF Numbered
        <4>2. Len(restoring'.left) = Len(restoring.left) - 1 /\ Len(ledger') = Len(ledger) + 1
          BY <2>2, <2>6, <3>1
        <4>3. Len(ledger) + Len(restoring.left) = (Len(ledger) + 1) + (Len(restoring.left) - 1)
          BY <3>2, Shift
        <4> QED BY <4>1, <4>2, <4>3
      <3>6. \A i \in 1..Len(restoring'.left) :
              restoring'.left[i].tick = Len(ledger') + i - 1
        <4> SUFFICES ASSUME NEW i \in 1..Len(restoring'.left)
                     PROVE  restoring'.left[i].tick = Len(ledger') + i - 1
          OBVIOUS
        <4>1. i + 1 \in 1..Len(restoring.left) /\ restoring'.left[i] = restoring.left[i + 1]
          BY <2>2, <3>1, <3>2
        <4>2. restoring.left[i + 1].tick = Len(ledger) + (i + 1) - 1
          BY <2>1, <4>1 DEF Numbered
        <4> QED BY <2>6, <3>2, <4>1, <4>2
      <3> QED BY <3>1, <3>3, <3>4, <3>5, <3>6 DEF Numbered, Ready
    <2>11. Current'
      <3>1. ~resetError
        BY <2>1 DEF RestoringListens, Ready
      <3>2. Len(ledger) \in Nat /\ Len(restoring.left) \in Nat
        BY <2>2 DEF BooksType
      <3>3. \A i \in 1..Len(ledger') : ledger'[i].episode = episode
        BY <2>5, <2>6, <3>1, <3>2 DEF Current
      <3>4. restoring'.left = Tail(restoring.left)
        BY <2>7
      <3>5. \A i \in 1..Len(restoring'.left) : restoring'.left[i].episode = episode
        <4> SUFFICES ASSUME NEW i \in 1..Len(restoring'.left)
                     PROVE  restoring'.left[i].episode = episode
          OBVIOUS
        <4>1. i + 1 \in 1..Len(restoring.left) /\ restoring'.left[i] = restoring.left[i + 1]
          BY <2>2, <3>2, <3>4
        <4> QED BY <3>1, <4>1 DEF Current
      <3> QED BY <2>1, <3>3, <3>5 DEF Current
    <2>12. Heeded'
      BY <2>1, <2>7 DEF Heeded, LoopOnly, InStep
    <2> QED BY <2>8, <2>9, <2>10, <2>11, <2>12
  <1>3. CASE RestoreEnds
    <2>1. /\ restoring.stage = "replay"
          /\ restoring.left = <<>>
          /\ restoring' = Idle
          /\ Noted(Silent, restoring.error)
          /\ UNCHANGED <<ledger, lastTick, nextTick, lastControl, loopStep, resetError, episode>>
      BY <1>3 DEF RestoreEnds, LeftToReplay, execution, loop
    <2>2. /\ records' \in Seq([tick : Nat \cup {Silent}, error : Errors])
          /\ LoopOnly => InStep'
      BY <2>1, NotedKeeps DEF BooksType, Heeded, LoopOnly
    <2>3. BooksType'
      BY <2>1, <2>2 DEF BooksType, Idle, Errors, NoError
    <2>4. RestoringListens' /\ Numbered' /\ Current'
      BY <2>1 DEF BooksType, RestoringListens, Ready, Numbered, Current, Idle
    <2>5. Heeded'
      BY <2>1, <2>2 DEF Heeded, LoopOnly, Idle, NoError
    <2> QED BY <2>3, <2>4, <2>5
  <1> QED BY <1>1, <1>2, <1>3 DEF RestoreCommitted

LEMMA LoopKeeps ==
  ASSUME Books, ReplanUnheard \/ LoopReset
  PROVE  Books'
  <1> USE DEF Books
  <1>1. CASE ReplanUnheard
    <2>1. /\ Ready /\ resetError
          /\ loopStep' \in Nat
          /\ UNCHANGED <<ledger, lastTick, nextTick, lastControl, records, restoring,
                         resetError, episode>>
      BY <1>1, ObserverAssumption DEF ReplanUnheard, Advance, execution, observer, BooksType
    <2>2. BooksType'
      BY <2>1 DEF BooksType
    <2>3. RestoringListens' /\ Numbered' /\ Current' /\ Heeded'
      BY <2>1 DEF RestoringListens, Ready, Numbered, Current, Heeded, LoopOnly, InStep
    <2> QED BY <2>2, <2>3
  <1>2. CASE LoopReset
    <2>1. /\ Ready
          /\ restoring' = restoring
          /\ episode' \in 0..MaxEpisodes
          /\ loopStep' = 0
      BY <1>2, ObserverAssumption DEF LoopReset, BooksType
    <2>2. restoring.stage = "idle" /\ restoring.left = <<>> /\ restoring.error = NoError
      BY <2>1 DEF Ready, Numbered
    <2>3. CASE Forget /\ resetError' = FALSE
      <3>1. /\ ledger' = <<>> /\ lastTick' = Silent /\ nextTick' = 0 /\ records' = <<>>
            /\ lastControl' = -1
        BY <2>3 DEF Forget, NewExecutive
      <3>2. BooksType'
        <4>1. ledger' \in Seq(Commits) /\ records' \in Seq([tick : Nat \cup {Silent}, error : Errors])
          BY <3>1, NoCommits
        <4>2. resetError' \in BOOLEAN
          BY <2>3
        <4>3. restoring' \in [stage : {"idle", "begin", "replay"}, left : Seq(Commits), error : Errors]
          BY <2>1 DEF BooksType
        <4> QED BY <2>1, <3>1, <4>1, <4>2, <4>3 DEF BooksType
      <3>3. RestoringListens' /\ Numbered' /\ Current' /\ Heeded'
        BY <2>1, <2>2, <2>3, <3>1, NoCommits
           DEF RestoringListens, Ready, Numbered, Current, Heeded, LoopOnly, InStep, Silent, NoError
      <3> QED BY <3>2, <3>3
    <2>4. CASE resetError' = TRUE /\ UNCHANGED <<execution, observer>>
      <3>1. UNCHANGED <<ledger, lastTick, nextTick, records, lastControl>>
        BY <2>4 DEF execution, observer
      <3>2. BooksType'
        BY <2>1, <2>4, <3>1 DEF BooksType
      <3>3. RestoringListens' /\ Numbered' /\ Current' /\ Heeded'
        BY <2>1, <2>4, <3>1
           DEF RestoringListens, Ready, Numbered, Current, Heeded, LoopOnly, InStep
      <3> QED BY <3>2, <3>3
    <2> QED BY <1>2, <2>3, <2>4 DEF LoopReset
  <1> QED BY <1>1, <1>2

LEMMA StutterKeeps == Books /\ UNCHANGED allVars => Books'
  BY DEF Books, BooksType, RestoringListens, Ready, Numbered, Current, Heeded, LoopOnly, InStep,
         allVars, execution, observer, loop

\* Books: the observer's tick, the executive's clock, the ledger, what is left to replay
\* and the loop's clock agree, after every call, failure, restoration and reset.
THEOREM BooksAgree == ObserverSpec => []Books
  <1>1. Books /\ [ObserverNext]_allVars => Books'
    BY ObserveKeeps, RestoreCommittedKeeps, LoopKeeps, StutterKeeps DEF ObserverNext
  <1> QED BY BooksInit, <1>1, PTL DEF ObserverSpec

-----------------------------------------------------------------------------
(* What follows *)

\* No ledger mixes evidence of two episodes, and the one the loop still feeds is of the
\* present one, whichever resets and calls failed.
THEOREM EpisodesStayApart == ObserverSpec => []OneEpisode
  <1>1. Books => OneEpisode
    <2> SUFFICES ASSUME Books PROVE OneEpisode
      OBVIOUS
    <2>1. \A i, j \in 1..Len(ledger) : ledger[i].episode = ledger[j].episode
      BY DEF Books, Current
    <2>2. Len(ledger) \in Nat
      BY DEF Books, BooksType
    <2>3. \A i \in 1..Len(ledger) : 1 \in 1..Len(ledger)
      BY <2>2
    <2>4. \A i \in 1..Len(ledger) : ledger[i].episode = ledger[1].episode
      BY <2>1, <2>3
    <2>5. ~resetError => \A i \in 1..Len(ledger) : ledger[i].episode = episode
      BY DEF Books, Current
    <2> QED BY <2>4, <2>5 DEF OneEpisode
  <1> QED BY BooksAgree, <1>1, PTL

\* In an episode the observer shares with nobody else, it never refuses a call of the loop for
\* its tick or its control step, whatever calls, resets and episodes failed before.
THEOREM StaysInStep == ObserverSpec => []NeverOutOfStep
  <1>1. Books => NeverOutOfStep
    BY DEF Books, Heeded, NeverOutOfStep
  <1> QED BY BooksAgree, <1>1, PTL

-----------------------------------------------------------------------------
(* The records *)

\* The successful records carry the ticks handed out so far, in order, also while a failed
\* call restores the executive; such a call is going to be recorded as a failure.
RecordsTell ==
  /\ \A i \in Successes : records[i].tick \in 0..nextTick - 1
  /\ \A t \in 0..nextTick - 1 : \E i \in Successes : records[i].tick = t
  /\ \A i, j \in Successes : i < j => records[i].tick < records[j].tick
  /\ ~Ready => restoring.error # NoError

\* A record that says a call failed is no success.
LEMMA FailureNoted ==
  ASSUME BooksType, NEW error \in Errors, error # NoError, Noted(Silent, error)
  PROVE  /\ Successes' = Successes
         /\ \A i \in Successes : records'[i] = records[i]
  <1> DEFINE R == [tick : Nat \cup {Silent}, error : Errors]
             r == [tick |-> Silent, error |-> error]
  <1>1. r \in R /\ r.error = error /\ records \in Seq(R) /\ records' = Append(records, r)
    BY DEF Noted, BooksType
  <1> HIDE DEF r, R
  <1>2. /\ Len(records) \in Nat
        /\ Len(records') = Len(records) + 1
        /\ \A i \in 1..Len(records) + 1 :
             records'[i] = IF i = Len(records) + 1 THEN r ELSE records[i]
    BY <1>1, AppendCommits
  <1> QED BY <1>1, <1>2 DEF Successes

\* A record that says a call succeeded extends the numbering by the tick of that call.
LEMMA SuccessNoted ==
  ASSUME BooksType, RecordsTell, Ready, Noted(nextTick, NoError), nextTick' = nextTick + 1,
         restoring' = restoring
  PROVE  RecordsTell'
  <1> DEFINE R == [tick : Nat \cup {Silent}, error : Errors]
             r == [tick |-> nextTick, error |-> NoError]
             n == Len(records) + 1
  <1>1. /\ r \in R /\ r.error = NoError /\ r.tick = nextTick /\ nextTick \in Nat
        /\ records \in Seq(R) /\ records' = Append(records, r)
    BY DEF Noted, BooksType, Errors, NoError
  <1> HIDE DEF r, R
  <1>2. /\ Len(records) \in Nat
        /\ Len(records') = n
        /\ \A i \in 1..n : records'[i] = IF i = n THEN r ELSE records[i]
    BY <1>1, AppendCommits
  <1>3. /\ Successes' = Successes \cup {n}
        /\ records'[n].tick = nextTick
        /\ \A i \in Successes : records'[i] = records[i] /\ i \in Nat /\ i < n
    BY <1>1, <1>2 DEF Successes
  <1> Successes \subseteq Nat /\ n \in Nat
    BY <1>2 DEF Successes
  <1> DEFINE g == [i \in Successes \cup {n} |-> records'[i].tick]
  <1>4. PICK k, S, f : /\ nextTick = k /\ Successes = S /\ f = g
                       /\ k \in Nat /\ S \in SUBSET Nat
    BY <1>1
  <1>5. /\ \A i \in S : f[i] \in 0..k - 1
        /\ \A t \in 0..k - 1 : \E i \in S : f[i] = t
        /\ \A i, j \in S : i < j => f[i] < f[j]
        /\ \A i \in S : i < n
        /\ f[n] = k
    BY <1>3, <1>4 DEF RecordsTell
  <1> HIDE DEF n, g
  <1>6. /\ \A i \in S \cup {n} : f[i] \in 0..(k + 1) - 1
        /\ \A t \in 0..(k + 1) - 1 : \E i \in S \cup {n} : f[i] = t
        /\ \A i, j \in S \cup {n} : i < j => f[i] < f[j]
    BY <1>4, <1>5
  <1>7. nextTick' = k + 1 /\ Successes' = S \cup {n}
    BY <1>3, <1>4
  <1>8. \A i \in Successes' : f[i] = records'[i].tick
    BY <1>4, <1>7 DEF g
  <1> QED BY <1>6, <1>7, <1>8 DEF RecordsTell, Ready

LEMMA RecordsTellKept ==
  ASSUME Books, RecordsTell, [ObserverNext]_allVars
  PROVE  RecordsTell'
  <1> USE DEF Books
  <1>1. ASSUME NEW control, NEW error \in Errors, error # NoError, Restore(control, error)
        PROVE  RecordsTell'
    BY <1>1 DEF Restore, RecordsTell, Successes, Ready
  <1>2. CASE \E control \in Controls : Observe(control)
    <2>1. PICK control \in Controls : Observe(control)
      BY <1>2
    <2>2. CASE ObserveStale(control) \/ ObserveWithoutEvidence(control)
      <3>1. PICK error \in {"control", "type", "evidence"} : Restore(control, error)
        BY <2>2 DEF ObserveStale, ObserveWithoutEvidence
      <3>2. error \in Errors /\ error # NoError
        BY DEF Errors, NoError
      <3> QED BY <1>1, <3>1, <3>2
    <2>3. CASE \E time \in Times : ObserveRefused(control, time)
      <3>1. PICK time \in Times : ObserveRefused(control, time)
        BY <2>3
      <3>2. PICK error : error = ClockError(nextTick, time)
        OBVIOUS
      <3>3. Restore(control, error) /\ error \in Errors /\ error # NoError
        BY <3>1, <3>2 DEF ObserveRefused, ClockError, Errors
      <3> QED BY <1>1, <3>3
    <2>4. CASE \E time \in Times, s \in Deployable : ObserveBreaks(control, s, time)
      <3>1. Restore(control, "step")
        BY <2>4 DEF ObserveBreaks
      <3>2. "step" \in Errors /\ "step" # NoError
        BY DEF Errors, NoError
      <3> QED BY <1>1, <3>1, <3>2
    <2>5. CASE \E time \in Times, s \in Deployable : ObserveCommits(control, s, time)
      BY <2>5, SuccessNoted DEF ObserveCommits, Listening
    <2> QED BY <2>1, <2>2, <2>3, <2>4, <2>5 DEF Observe
  <1>3. CASE RestoreBegins \/ RestoreReplays
    BY <1>3 DEF RestoreBegins, RestoreReplays, observer, RecordsTell, Successes, Ready, BooksType
  <1>4. CASE RestoreEnds
    <2>1. restoring.error \in Errors /\ restoring.error # NoError
      BY <1>4 DEF RestoreEnds, RecordsTell, Ready, BooksType
    <2>2. Noted(Silent, restoring.error) /\ restoring' = Idle /\ nextTick' = nextTick
      BY <1>4 DEF RestoreEnds
    <2> QED BY <2>1, <2>2, FailureNoted DEF RecordsTell, Ready, Idle
  <1>5. CASE ReplanUnheard
    BY <1>5 DEF ReplanUnheard, observer, RecordsTell, Successes, Ready
  <1>6. CASE LoopReset
    <2>1. Ready /\ restoring' = restoring
      BY <1>6 DEF LoopReset
    <2>2. CASE Forget
      BY <2>1, <2>2, NoCommits DEF Forget, RecordsTell, Successes, Ready
    <2>3. CASE UNCHANGED observer
      BY <2>1, <2>3 DEF observer, RecordsTell, Successes, Ready
    <2> QED BY <1>6, <2>2, <2>3 DEF LoopReset
  <1>7. CASE UNCHANGED allVars
    BY <1>7 DEF allVars, observer, RecordsTell, Successes, Ready
  <1> QED BY <1>2, <1>3, <1>4, <1>5, <1>6, <1>7 DEF ObserverNext, RestoreCommitted

\* Between calls the successful records are the ledger's entries, tick for tick: no failure
\* and no restoration drops, repeats or reorders one.
THEOREM RecordsTellLedger == ObserverSpec => []RecordsMatchLedger
  <1>1. ObserverInit => RecordsTell
    BY NoCommits DEF ObserverInit, RecordsTell, Successes, Ready, Idle
  <1>2. Books /\ RecordsTell => RecordsMatchLedger
    <2> SUFFICES ASSUME Books, RecordsTell, Ready PROVE RecordsMatchLedger
      BY DEF RecordsMatchLedger
    <2>1. /\ \A i \in 1..Len(ledger) : ledger[i].tick = i - 1
          /\ lastTick = Len(ledger) - 1 /\ nextTick = Len(ledger) + Len(restoring.left)
          /\ restoring.left = <<>> /\ Len(ledger) \in Nat
      BY DEF Books, BooksType, Numbered, Ready
    <2>2. nextTick = Len(ledger)
      BY <2>1, NoCommits
    <2>3. {records[i].tick : i \in Successes} = 0..nextTick - 1
      BY DEF RecordsTell
    <2>4. {ledger[i].tick : i \in 1..Len(ledger)} = 0..nextTick - 1
      <3>1. \A t \in 0..nextTick - 1 : t + 1 \in 1..Len(ledger) /\ ledger[t + 1].tick = t
        BY <2>1, <2>2
      <3>2. \A i \in 1..Len(ledger) : ledger[i].tick \in 0..nextTick - 1
        BY <2>1, <2>2
      <3> QED BY <3>1, <3>2
    <2> QED BY <2>1, <2>2, <2>3, <2>4 DEF RecordsMatchLedger, RecordsTell
  <1> QED BY <1>1, <1>2, RecordsTellKept, BooksAgree, PTL DEF ObserverSpec

-----------------------------------------------------------------------------
(* Behind the observer the executive is the same state machine *)

\* A new executive is where Init starts.
First == [at     |-> At("RUNNING", PhaseSpec[NormalPhases[1]].subtask, NormalPhases[1],
                        PhaseSpec[NormalPhases[1]].owner, 0, 0, NoCandidate, NoPhase),
          entry  |-> NoEntry,
          streak |-> 0]

LEMMA NewExecutiveOK == ASSUME NewExecutive PROVE IInv'
<1>1. phase' \in Normal /\ phase' \in Phases /\ phase' \notin RecoveryPhases
  BY FirstPhase, PhaseFacts DEF NewExecutive
<1>2. StateOK'
  BY <1>1, NoCandidateType, ConfigAssumption
     DEF NewExecutive, StateOK, ConfigAssumption, Statuses, Terminal
<1> QED
  BY <1>1, <1>2, ConfigAssumption
     DEF NewExecutive, IInv, TypeOK, Consistent, CountTracksStreak, ConfigAssumption

\* What is left to replay was committed: evidence the executive knows.
LEMMA ReplayKnown ==
  ASSUME Books, restoring.left # <<>>
  PROVE  /\ Head(restoring.left) \in Commits /\ Head(restoring.left).snapshot \in Snapshots
         /\ Head(restoring.left) = restoring.left[1]
<1>1. restoring.left \in Seq(Commits)
  BY DEF Books, BooksType
<1> QED BY <1>1, ConsumeCommits DEF Commits

\* Every move of the observer and of the loop leaves the executive alone, ticks it or
\* replaces it.
LEMMA ObserverMoves ==
  ASSUME Books, [ObserverNext]_allVars
  PROVE  vars' = vars \/ NewExecutive \/ \E s \in Snapshots : Step(s)
<1>1. CASE \E control \in Controls : Observe(control)
  BY <1>1 DEF Observe, ObserveStale, ObserveWithoutEvidence, ObserveRefused, ObserveBreaks,
              ObserveCommits, Tick, Deployable, execution
<1>2. CASE RestoreReplays
  <2>1. Step(Head(restoring.left).snapshot) /\ restoring.left # <<>>
    BY <1>2 DEF RestoreReplays, LeftToReplay, Tick
  <2> QED BY <2>1, ReplayKnown
<1>3. CASE RestoreBegins \/ RestoreEnds \/ ReplanUnheard \/ LoopReset \/ UNCHANGED allVars
  BY <1>3 DEF RestoreBegins, RestoreEnds, ReplanUnheard, LoopReset, Forget, allVars, execution
<1> QED BY <1>1, <1>2, <1>3 DEF ObserverNext, RestoreCommitted

\* The executive keeps its invariant however calls fail, restore and reset it.
THEOREM ExecutiveStaysConsistent == ObserverSpec => []IInv
<1>1. ObserverInit => IInv
  BY InitIInv DEF ObserverInit
<1>2. Books /\ IInv /\ [ObserverNext]_allVars => IInv'
  BY ObserverMoves, NewExecutiveOK, StepKeeps, Inductive DEF Next
<1> QED BY <1>1, <1>2, BooksAgree, PTL DEF ObserverSpec

-----------------------------------------------------------------------------
(* A failed call leaves no trace *)

Permitted(st, own) == ~ShadowOnly /\ st = "RUNNING" /\ own # "SAFE_HOLD"

\* The ledger entry and the history of the evidence after turn t out of y.
EntryOf(y, s, t) ==
  [snapshot  |-> s,
   before    |-> State(y.at.status, y.at.subtask, y.at.phase, y.at.owner, y.at.attempts),
   after     |-> State(t.to.status, t.to.subtask, t.to.phase, t.to.owner, t.to.attempts),
   outcome   |-> t.outcome,
   reason    |-> t.reason,
   critical  |-> IF t.to.status = "RUNNING" THEN PhaseSpec[t.to.phase].critical ELSE "NONE",
   actuation |-> Permitted(t.to.status, t.to.owner),
   reset     |-> t.reset]

StreakOf(y, s, t) ==
  IF t.to.status = y.at.status /\ t.to.phase = y.at.phase /\ Complete(y.at.phase, s)
       /\ y.at.status \notin Terminal
    THEN IF y.streak < Required(y.at.phase) THEN y.streak + 1 ELSE y.streak
    ELSE 0

\* Everything a tick with snapshot s makes of y.
After(y, s) ==
  LET t == TurnOf(y.at, s)
  IN  [at |-> t.to, entry |-> EntryOf(y, s, t), streak |-> StreakOf(y, s, t)]

Whole == [at |-> Here, entry |-> entry, streak |-> streak]

LEMMA StepTells ==
  ASSUME IInv, NEW s \in Snapshots, Step(s)
  PROVE  Whole' = After(Whole, s)
<1>1. PICK t : t = TurnOf(Here, s)
  OBVIOUS
<1>2. Here' = t.to /\ Record(s, t.outcome, t.reason, t.reset)
  BY <1>1, StepMakes DEF Makes
<1>3. /\ t.to.status = status' /\ t.to.subtask = subtask' /\ t.to.phase = phase'
      /\ t.to.owner = owner' /\ t.to.attempts = attempts'
  BY <1>2 DEF Here, At
<1>4. Whole.at = Here /\ Whole.streak = streak
  BY DEF Whole
<1>5. entry' = EntryOf(Whole, s, t)
  BY <1>2, <1>3, <1>4, HereFields DEF Record, EntryOf, Permitted
<1>6. streak' = StreakOf(Whole, s, t)
  BY <1>2, <1>3, <1>4, HereFields DEF Record, StreakOf
<1>7. After(Whole, s) = [at |-> t.to, entry |-> EntryOf(Whole, s, t), streak |-> StreakOf(Whole, s, t)]
  BY <1>1, <1>4 DEF After
<1>8. Whole' = [at |-> Here', entry |-> entry', streak |-> streak']
  BY DEF Whole
<1> QED BY <1>2, <1>5, <1>6, <1>7, <1>8

\* tr[i] is the executive after the first i entries of ledger L.
Told(L, tr) ==
  /\ tr[0] = First
  /\ \A i \in 1..Len(L) : tr[i] = After(tr[i - 1], L[i].snapshot)

TickAfter(L) == IF Len(L) = 0 THEN Silent ELSE L[Len(L)].tick
TimeAfter(L) == IF Len(L) = 0 THEN Silent ELSE L[Len(L)].time

\* The tuple that execution is.
Bundle(y, L, tick, time) ==
  << <<y.at.status, y.at.subtask, y.at.phase, y.at.owner, y.at.age, y.at.attempts,
       y.at.candidate, y.at.resume, y.entry, y.streak>>, L, tick, time >>

LEMMA ExecutionBundle ==
  /\ execution = Bundle(Whole, ledger, lastTick, lastTime)
  /\ execution' = Bundle(Whole', ledger', lastTick', lastTime')
<1>1. /\ Whole.at = Here /\ Whole.streak = streak /\ Whole.entry = entry
      /\ Whole'.at = Here' /\ Whole'.streak = streak' /\ Whole'.entry = entry'
  BY DEF Whole
<1>2. /\ Here'.status = status' /\ Here'.subtask = subtask' /\ Here'.phase = phase'
      /\ Here'.owner = owner' /\ Here'.age = age' /\ Here'.attempts = attempts'
      /\ Here'.candidate = candidate' /\ Here'.resume = resume'
  BY DEF Here, At
<1>3. execution = Bundle(Whole, ledger, lastTick, lastTime)
  BY <1>1, HereFields DEF execution, vars, Bundle
<1>4. execution' = Bundle(Whole', ledger', lastTick', lastTime')
  BY <1>1, <1>2 DEF execution, vars, Bundle
<1> QED BY <1>3, <1>4

\* Outside the part of a failed call that may have touched it, the executive is where its
\* ledger tells, and so is its clock.
ToldByLedger(tr) ==
  restoring.stage # "begin" =>
    Whole = tr[Len(ledger)] /\ lastTick = TickAfter(ledger) /\ lastTime = TimeAfter(ledger)

\* The committed ledger L is the ledger, followed by what is left to replay.
Split(L) ==
  /\ restoring.stage = "begin" => restoring.left = L
  /\ restoring.stage # "begin" =>
       /\ Len(L) = Len(ledger) + Len(restoring.left)
       /\ \A i \in 1..Len(ledger) : ledger[i] = L[i]
       /\ \A i \in 1..Len(restoring.left) : restoring.left[i] = L[Len(ledger) + i]

\* The executive after the latest accepted tick is what committed ledger L tells.
RetoldBy(L, tr) ==
  /\ Told(L, tr)
  /\ saved = Bundle(tr[Len(L)], L, TickAfter(L), TimeAfter(L))
  /\ ToldByLedger(tr)
  /\ Split(L)

Retold == \E L, tr : L \in Seq(Commits) /\ RetoldBy(L, tr)

\* A ledger with nothing left to replay is the committed one.
LEMMA AllReplayed ==
  ASSUME Books, NEW L \in Seq(Commits), Split(L), restoring.stage # "begin", restoring.left = <<>>
  PROVE  ledger = L
<1>1. ledger \in Seq(Commits) /\ Len(restoring.left) = 0 /\ Len(ledger) \in Nat
  BY NoCommits DEF Books, BooksType
<1>2. Len(L) = Len(ledger) /\ \A i \in 1..Len(ledger) : ledger[i] = L[i]
  BY <1>1 DEF Split
<1> QED BY <1>1, <1>2

LEMMA ReadyIsTold ==
  ASSUME Books, NEW L \in Seq(Commits), NEW tr, RetoldBy(L, tr), Ready
  PROVE  /\ ledger = L /\ restoring.stage = "idle" /\ restoring.left = <<>>
         /\ Whole = tr[Len(L)] /\ lastTick = TickAfter(L) /\ lastTime = TimeAfter(L)
         /\ execution = saved
<1>1. restoring.stage = "idle" /\ restoring.left = <<>>
  BY DEF Books, Numbered, Ready
<1>2. ledger = L
  BY <1>1, AllReplayed DEF RetoldBy
<1>3. Whole = tr[Len(L)] /\ lastTick = TickAfter(L) /\ lastTime = TimeAfter(L)
  BY <1>1, <1>2 DEF RetoldBy, ToldByLedger
<1>4. execution = Bundle(tr[Len(L)], L, TickAfter(L), TimeAfter(L))
  BY <1>2, <1>3, ExecutionBundle
<1> QED BY <1>1, <1>2, <1>3, <1>4 DEF RetoldBy

\* The trail and the clock after one more entry.
Extended(L, tr, c, M) ==
  /\ M \in Seq(Commits)
  /\ \E more : Told(M, more) /\ more[Len(M)] = After(tr[Len(L)], c.snapshot)
  /\ TickAfter(M) = c.tick /\ TimeAfter(M) = c.time

LEMMA OneMore ==
  ASSUME NEW L \in Seq(Commits), NEW tr, Told(L, tr), NEW c \in Commits
  PROVE  Extended(L, tr, c, Append(L, c))
<1>0. PICK M : M = Append(L, c)
  OBVIOUS
<1> DEFINE n == Len(L)
           more == [i \in 0..n + 1 |-> IF i = n + 1 THEN After(tr[n], c.snapshot) ELSE tr[i]]
<1>1. /\ n \in Nat /\ M \in Seq(Commits) /\ Len(M) = n + 1
      /\ \A i \in 1..n + 1 : M[i] = IF i = n + 1 THEN c ELSE L[i]
  BY <1>0, AppendCommits
<1> HIDE DEF n
<1>2. /\ \A i \in 0..n : more[i] = tr[i]
      /\ more[n + 1] = After(tr[n], c.snapshot)
  BY <1>1
<1>3. tr[0] = First /\ \A i \in 1..n : tr[i] = After(tr[i - 1], L[i].snapshot)
  BY DEF Told, n
<1> HIDE DEF more
<1>4. ASSUME NEW i \in 1..Len(M)
      PROVE  more[i] = After(more[i - 1], M[i].snapshot)
  <2>1. i - 1 \in 0..n
    BY <1>1
  <2>2. CASE i = n + 1
    <3>1. i - 1 = n
      BY <1>1, <2>2
    <3> QED BY <1>1, <1>2, <2>1, <2>2, <3>1
  <2>3. CASE i # n + 1
    <3>1. i \in 1..n /\ i \in 0..n
      BY <1>1, <2>3
    <3> QED BY <1>1, <1>2, <1>3, <2>1, <2>3, <3>1
  <2> QED BY <2>2, <2>3
<1>5. Told(M, more)
  BY <1>1, <1>2, <1>3, <1>4 DEF Told
<1>6. M[Len(M)] = c /\ Len(M) # 0
  BY <1>1
<1>7. \E trail : Told(M, trail) /\ trail[Len(M)] = After(tr[Len(L)], c.snapshot)
  BY <1>1, <1>2, <1>5 DEF n
<1> QED BY <1>0, <1>1, <1>6, <1>7 DEF TickAfter, TimeAfter, Extended

\* A call that fails leaves everything for the restoration to tell again.
LEMMA RestoreTells ==
  ASSUME Books, Retold, Ready, NEW control, NEW error, Restore(control, error)
  PROVE  Retold'
<1>1. PICK L, tr : L \in Seq(Commits) /\ RetoldBy(L, tr)
  BY DEF Retold
<1>2. ledger = L
  BY <1>1, ReadyIsTold
<1>3. restoring'.stage = "begin" /\ restoring'.left = L /\ saved' = saved
  BY <1>2 DEF Restore
<1>4. RetoldBy(L, tr)'
  BY <1>1, <1>3 DEF RetoldBy, ToldByLedger, Split
<1> QED BY <1>1, <1>4 DEF Retold

\* A tick that is accepted extends what the ledger tells.
LEMMA CommitTells ==
  ASSUME Books, IInv, Retold, NEW control, NEW s \in Snapshots, NEW time \in Times,
         ObserveCommits(control, s, time)
  PROVE  Retold'
<1>1. PICK L, tr : L \in Seq(Commits) /\ RetoldBy(L, tr)
  BY DEF Retold
<1>2. /\ Ready /\ Step(s) /\ lastTick' = nextTick /\ lastTime' = time
      /\ ledger' = Append(ledger, Commit(s, nextTick, time, episode))
      /\ saved' = execution' /\ restoring' = restoring
  BY DEF ObserveCommits, Tick, Listening
<1>3. ledger = L /\ restoring.stage = "idle" /\ restoring.left = <<>> /\ Whole = tr[Len(L)]
  BY <1>1, <1>2, ReadyIsTold
<1>4. PICK c \in Commits : /\ c = Commit(s, nextTick, time, episode)
                           /\ c.snapshot = s /\ c.tick = nextTick /\ c.time = time
  <2>1. nextTick \in Nat /\ episode \in 0..MaxEpisodes
    BY DEF Books, BooksType
  <2>2. Commit(s, nextTick, time, episode) \in Commits
    BY <2>1, NewCommit
  <2>3. /\ Commit(s, nextTick, time, episode).snapshot = s
        /\ Commit(s, nextTick, time, episode).tick = nextTick
        /\ Commit(s, nextTick, time, episode).time = time
    BY DEF Commit
  <2> QED BY <2>2, <2>3
<1>5. PICK M : M = Append(L, c)
  OBVIOUS
<1>6. /\ M \in Seq(Commits)
      /\ \E more : Told(M, more) /\ more[Len(M)] = After(tr[Len(L)], s)
      /\ TickAfter(M) = nextTick /\ TimeAfter(M) = time
  <2>1. Told(L, tr)
    BY <1>1 DEF RetoldBy
  <2>2. Extended(L, tr, c, M)
    BY <1>1, <1>5, <2>1, OneMore
  <2> QED BY <1>4, <2>2 DEF Extended
<1>7. PICK more : Told(M, more) /\ more[Len(M)] = After(tr[Len(L)], s)
  BY <1>6
<1>8. Whole' = more[Len(M)]
  BY <1>2, <1>3, <1>7, StepTells
<1>9. ledger' = M
  BY <1>2, <1>3, <1>4, <1>5
<1>10. execution' = Bundle(more[Len(M)], M, TickAfter(M), TimeAfter(M))
  <2>1. execution' = Bundle(Whole', ledger', lastTick', lastTime')
    BY ExecutionBundle
  <2> QED BY <1>2, <1>6, <1>8, <1>9, <2>1
<1>11. ToldByLedger(more)'
  BY <1>2, <1>6, <1>8, <1>9 DEF ToldByLedger
<1>12. Split(M)'
  <2>1. restoring'.stage = "idle" /\ restoring'.left = <<>> /\ Len(restoring'.left) = 0
    BY <1>2, <1>3, NoCommits
  <2>2. Len(M) \in Nat
    BY <1>6
  <2> QED BY <1>9, <2>1, <2>2 DEF Split
<1>13. RetoldBy(M, more)'
  BY <1>2, <1>7, <1>10, <1>11, <1>12 DEF RetoldBy
<1> QED BY <1>6, <1>13 DEF Retold

\* The restoration starts from a new executive and an empty ledger.
LEMMA BeginTells ==
  ASSUME Books, Retold, RestoreBegins
  PROVE  Retold'
<1>1. PICK L, tr : L \in Seq(Commits) /\ RetoldBy(L, tr)
  BY DEF Retold
<1>2. /\ restoring.stage = "begin" /\ NewExecutive /\ saved' = saved
      /\ restoring' = [restoring EXCEPT !.stage = "replay"]
  BY DEF RestoreBegins
<1>3. restoring'.stage = "replay" /\ restoring'.left = L
  BY <1>1, <1>2 DEF Books, BooksType, RetoldBy, Split
<1>4. Len(ledger') = 0 /\ lastTick' = Silent /\ lastTime' = Silent
  BY <1>2, NoCommits DEF NewExecutive
<1>5. Whole' = First
  BY <1>2 DEF NewExecutive, Whole, Here, First
<1>6. ToldByLedger(tr)'
  BY <1>1, <1>4, <1>5 DEF RetoldBy, Told, ToldByLedger, TickAfter, TimeAfter
<1>7. Split(L)'
  <2>1. Len(L) \in Nat
    OBVIOUS
  <2> QED BY <1>3, <1>4, <2>1 DEF Split
<1>8. RetoldBy(L, tr)'
  BY <1>1, <1>2, <1>6, <1>7 DEF RetoldBy
<1> QED BY <1>1, <1>8 DEF Retold

\* One replayed snapshot takes the executive one entry further along the same trail.
LEMMA ReplayTells ==
  ASSUME Books, IInv, Retold, RestoreReplays
  PROVE  Retold'
<1>1. PICK L, tr : L \in Seq(Commits) /\ RetoldBy(L, tr)
  BY DEF Retold
<1>2. PICK c : c = Head(restoring.left)
  OBVIOUS
<1>3. /\ restoring.stage = "replay" /\ restoring.left # <<>>
      /\ Step(c.snapshot) /\ lastTick' = c.tick /\ lastTime' = c.time
      /\ ledger' = Append(ledger, Commit(c.snapshot, c.tick, c.time, c.episode))
      /\ restoring' = [restoring EXCEPT !.left = Tail(@)] /\ saved' = saved
  BY <1>2 DEF RestoreReplays, LeftToReplay, Tick
<1>4. c \in Commits /\ c.snapshot \in Snapshots /\ c = restoring.left[1]
  BY <1>2, <1>3, ReplayKnown
<1>5. Commit(c.snapshot, c.tick, c.time, c.episode) = c
  BY <1>4 DEF Commit, Commits
<1> DEFINE n == Len(ledger)
           m == Len(restoring.left)
<1>6. /\ n \in Nat /\ m \in Nat \ {0} /\ Len(Tail(restoring.left)) = m - 1
      /\ \A i \in 1..m - 1 : Tail(restoring.left)[i] = restoring.left[i + 1]
  BY <1>3, ConsumeCommits DEF Books, BooksType
<1>7. /\ Len(ledger') = n + 1
      /\ \A i \in 1..n + 1 : ledger'[i] = IF i = n + 1 THEN c ELSE ledger[i]
  <2>1. ledger \in Seq(Commits) /\ ledger' = Append(ledger, c)
    BY <1>3, <1>5 DEF Books, BooksType
  <2> QED BY <1>4, <2>1, AppendCommits
<1>8. restoring'.stage = "replay" /\ restoring'.left = Tail(restoring.left)
  BY <1>3 DEF Books, BooksType
<1>9. /\ Len(L) = n + m
      /\ \A i \in 1..n : ledger[i] = L[i]
      /\ \A i \in 1..m : restoring.left[i] = L[n + i]
      /\ Whole = tr[n]
  BY <1>1, <1>3 DEF RetoldBy, Split, ToldByLedger
<1> HIDE DEF n, m
<1>10. c = L[n + 1] /\ n + 1 \in 1..Len(L)
  BY <1>4, <1>6, <1>9
<1>11. Whole' = tr[n + 1]
  <2>1. \A i \in 1..Len(L) : tr[i] = After(tr[i - 1], L[i].snapshot)
    BY <1>1 DEF RetoldBy, Told
  <2>2. PICK k : k = n + 1 /\ k - 1 = n
    BY <1>6
  <2>3. tr[k] = After(tr[k - 1], L[k].snapshot) /\ c = L[k]
    BY <1>10, <2>1, <2>2
  <2>4. tr[k] = After(tr[n], c.snapshot)
    BY <2>2, <2>3
  <2>5. Whole' = After(Whole, c.snapshot)
    BY <1>3, <1>4, StepTells
  <2> QED BY <1>9, <2>2, <2>4, <2>5
<1>12. ToldByLedger(tr)'
  <2>1. ledger'[Len(ledger')] = c /\ Len(ledger') # 0
    BY <1>6, <1>7
  <2> QED BY <1>3, <1>7, <1>11, <2>1 DEF ToldByLedger, TickAfter, TimeAfter
<1>13. Split(L)'
  <2>1. Len(L) = Len(ledger') + Len(restoring'.left)
    <3>1. Len(ledger') = n + 1 /\ Len(restoring'.left) = m - 1 /\ Len(L) = n + m
      BY <1>6, <1>7, <1>8, <1>9
    <3>2. n + m = (n + 1) + (m - 1)
      BY <1>6, Shift
    <3> QED BY <3>1, <3>2
  <2>2. \A i \in 1..Len(ledger') : ledger'[i] = L[i]
    BY <1>6, <1>7, <1>9, <1>10
  <2>3. ASSUME NEW i \in 1..Len(restoring'.left)
        PROVE  restoring'.left[i] = L[Len(ledger') + i]
    <3>1. i \in 1..m - 1 /\ i + 1 \in 1..m /\ n + (i + 1) = (n + 1) + i
      BY <1>6, <1>8
    <3>2. restoring'.left[i] = L[n + (i + 1)]
      BY <1>6, <1>8, <1>9, <3>1
    <3> QED BY <1>7, <3>1, <3>2
  <2> QED BY <1>8, <2>1, <2>2, <2>3 DEF Split
<1>14. RetoldBy(L, tr)'
  BY <1>1, <1>3, <1>12, <1>13 DEF RetoldBy
<1> QED BY <1>1, <1>14 DEF Retold

\* A new executive with an empty ledger tells of nothing.
LEMMA ForgetTells ==
  ASSUME Books, Ready, NewExecutive, saved' = execution', restoring' = restoring
  PROVE  Retold'
<1> DEFINE tr == [i \in {0} |-> First]
<1>1. restoring'.stage = "idle" /\ Len(restoring'.left) = 0
  BY NoCommits DEF Books, Numbered, Ready
<1>2. /\ ledger' = <<>> /\ <<>> \in Seq(Commits) /\ Len(<<>>) = 0
      /\ lastTick' = Silent /\ lastTime' = Silent
  BY NoCommits DEF NewExecutive
<1>3. Whole' = First
  BY DEF NewExecutive, Whole, Here, First
<1>4. tr[0] = First
  OBVIOUS
<1> HIDE DEF tr
<1>5. execution' = Bundle(Whole', ledger', lastTick', lastTime')
  BY ExecutionBundle
<1>6. saved' = Bundle(tr[Len(<<>>)], <<>>, TickAfter(<<>>), TimeAfter(<<>>))
  BY <1>2, <1>3, <1>4, <1>5 DEF TickAfter, TimeAfter
<1>7. Told(<<>>, tr)
  BY <1>2, <1>4 DEF Told
<1>8. ToldByLedger(tr)' /\ Split(<<>>)'
  BY <1>1, <1>2, <1>3, <1>4 DEF ToldByLedger, Split, TickAfter, TimeAfter
<1>9. RetoldBy(<<>>, tr)'
  BY <1>6, <1>7, <1>8 DEF RetoldBy
<1> QED BY <1>2, <1>9 DEF Retold

\* A step that changes neither the executive, nor what is being restored, nor what was saved.
LEMMA SameTold ==
  ASSUME Retold, execution' = execution, saved' = saved, restoring' = restoring
  PROVE  Retold'
<1>1. PICK L, tr : L \in Seq(Commits) /\ RetoldBy(L, tr)
  BY DEF Retold
<1>2. RetoldBy(L, tr)'
  BY <1>1 DEF RetoldBy, ToldByLedger, Split, Whole, Here, execution, vars
<1> QED BY <1>1, <1>2 DEF Retold

LEMMA EndTells ==
  ASSUME Books, Retold, RestoreEnds
  PROVE  Retold'
<1>1. PICK L, tr : L \in Seq(Commits) /\ RetoldBy(L, tr)
  BY DEF Retold
<1>2. /\ restoring.stage = "replay" /\ restoring.left = <<>>
      /\ restoring'.stage = "idle" /\ restoring'.left = <<>>
      /\ UNCHANGED <<execution, saved>>
  BY DEF RestoreEnds, LeftToReplay, Idle
<1>3. RetoldBy(L, tr)'
  BY <1>1, <1>2 DEF RetoldBy, ToldByLedger, Split, Whole, Here, execution, vars
<1> QED BY <1>1, <1>3 DEF Retold

LEMMA RetoldKept ==
  ASSUME Books, IInv, Retold, [ObserverNext]_allVars
  PROVE  Retold'
<1>1. CASE \E control \in Controls : Observe(control)
  <2>1. PICK control \in Controls : Observe(control)
    BY <1>1
  <2>2. CASE \E time \in Times, s \in Deployable : ObserveCommits(control, s, time)
    BY <2>2, CommitTells DEF Deployable
  <2>3. CASE ObserveStale(control)
    BY <2>3, RestoreTells DEF ObserveStale, Listening
  <2>4. CASE ObserveWithoutEvidence(control)
    BY <2>4, RestoreTells DEF ObserveWithoutEvidence, Listening
  <2>5. CASE \E time \in Times : ObserveRefused(control, time)
    <3>1. PICK time \in Times : ObserveRefused(control, time)
      BY <2>5
    <3>2. PICK error : error = ClockError(nextTick, time)
      OBVIOUS
    <3>3. Ready /\ Restore(control, error)
      BY <3>1, <3>2 DEF ObserveRefused, Listening
    <3> QED BY <3>3, RestoreTells
  <2>6. CASE \E time \in Times, s \in Deployable : ObserveBreaks(control, s, time)
    BY <2>6, RestoreTells DEF ObserveBreaks, Listening
  <2> QED BY <2>1, <2>2, <2>3, <2>4, <2>5, <2>6 DEF Observe
<1>2. CASE RestoreCommitted
  BY <1>2, BeginTells, ReplayTells, EndTells DEF RestoreCommitted
<1>3. CASE ReplanUnheard
  BY <1>3, SameTold DEF ReplanUnheard
<1>4. CASE LoopReset
  BY <1>4, SameTold, ForgetTells DEF LoopReset, Forget
<1>5. CASE UNCHANGED allVars
  BY <1>5, SameTold DEF allVars
<1> QED BY <1>1, <1>2, <1>3, <1>4, <1>5 DEF ObserverNext

LEMMA RetoldInit == ObserverInit => Retold
<1> SUFFICES ASSUME ObserverInit PROVE Retold
  OBVIOUS
<1> DEFINE tr == [i \in {0} |-> First]
<1>1. restoring.stage = "idle" /\ Len(restoring.left) = 0
  BY NoCommits DEF ObserverInit, Idle
<1>2. /\ ledger = <<>> /\ <<>> \in Seq(Commits) /\ Len(<<>>) = 0
      /\ lastTick = Silent /\ lastTime = Silent /\ saved = execution
  BY NoCommits DEF ObserverInit
<1>3. Whole = First
  BY DEF ObserverInit, Init, Whole, Here, First
<1>4. tr[0] = First
  OBVIOUS
<1> HIDE DEF tr
<1>5. saved = Bundle(tr[Len(<<>>)], <<>>, TickAfter(<<>>), TimeAfter(<<>>))
  BY <1>2, <1>3, <1>4, ExecutionBundle DEF TickAfter, TimeAfter
<1>6. Told(<<>>, tr)
  BY <1>2, <1>4 DEF Told
<1>7. ToldByLedger(tr) /\ Split(<<>>)
  BY <1>1, <1>2, <1>3, <1>4 DEF ToldByLedger, Split, TickAfter, TimeAfter
<1>8. RetoldBy(<<>>, tr)
  BY <1>5, <1>6, <1>7 DEF RetoldBy
<1> QED BY <1>2, <1>8 DEF Retold

\* Whatever a call did to the executive before it failed, the executive that remains after it
\* is, field for field, the one the latest accepted tick left: a tick is a function of the
\* executive and the snapshot, so replaying the committed ledger leads to it again.
THEOREM FailuresLeaveNoTrace == ObserverSpec => []FailureLeavesNoTrace
<1>1. Books /\ Retold => FailureLeavesNoTrace
  BY ReadyIsTold DEF Retold, FailureLeavesNoTrace
<1>2. Books /\ IInv /\ Retold /\ [ObserverNext]_allVars => Retold'
  BY RetoldKept
<1> QED BY <1>1, <1>2, RetoldInit, BooksAgree, ExecutiveStaysConsistent, PTL DEF ObserverSpec
=============================================================================
