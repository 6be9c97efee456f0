------------------------------ MODULE Executive ------------------------------
(***************************************************************************)
(* HierarchicalExecutive: the deterministic state machine that is the only *)
(* component allowed to commit a phase transition.  Each control tick      *)
(* hands it one snapshot of deployable evidence; Step(s) is the whole of   *)
(* HierarchicalExecutive.step for a snapshot s with a valid tick and       *)
(* timestamp (ShadowObserver adds the clock), one disjunct per way the     *)
(* handler can end.  Every disjunct appends one entry to the transition    *)
(* ledger; this module keeps the latest entry.                             *)
(***************************************************************************)
EXTENDS Integers, Sequences

CONSTANTS
  NormalPhases,         (* plan.normal_phases, in order                        *)
  PhaseSpec,            (* plan.phase_spec: a function from every phase         *)
  AllowedNext,          (* SubtaskSpec.allowed_next: the declared subtask graph *)
  Snapshots,            (* the evidence a tick can bring                        *)
  MaxRecoveryAttempts,  (* ExecutiveConfig.max_recovery_attempts                *)
  ShadowOnly,           (* ExecutiveConfig.shadow_only                          *)
  RequireStateEstimate, (* ExecutiveConfig.require_state_estimate               *)
  AgeCap                (* phase_age_ticks is counted up to this bound          *)

RecoveryPhases == {"SAFE_HOLD", "REOBSERVE", "DIAGNOSE"}
Normal         == {NormalPhases[i] : i \in 1..Len(NormalPhases)}
Phases         == Normal \cup RecoveryPhases
Recover        == "RECOVER_OR_HOLD"

Terminal == {"COMPLETED", "ABORTED"}
Statuses == {"RUNNING", "HOLDING"} \cup Terminal

Subtasks == {"APPROACH_AND_ALIGN", "ACQUIRE_AND_VERIFY", "TRANSFER_HELD_OBJECT",
             "DEPOSIT_AND_VERIFY", Recover}
Owners   == {"ACTION_CHUNK", "PRECISION", "FORCE_GUARD", "SAFE_HOLD"}
Criticals == {"NONE", "CLOSE_GRIPPER", "LIFT", "RELEASE_GRIPPER"}
Outcomes == {"UNCHANGED", "REJECTED", "COMMITTED"}
Reasons  ==
  {"EXIT_NOT_SATISFIED", "ENTRY_NOT_SATISFIED", "STABILITY_PENDING", "PHASE_COMPLETED",
   "TASK_COMPLETED", "MISSING_MODALITY", "CRITICAL_ACTION_NOT_AUTHORIZED",
   "STATE_INVARIANT_FAILED", "UNSAFE_OR_ANOMALOUS", "HIDDEN_GT_REJECTED",
   "MISSING_STATE_ESTIMATE", "INCONSISTENT_STATE_EVIDENCE", "PHASE_TIMEOUT",
   "RECOVERY_HOLD_PENDING", "RECOVERY_REOBSERVE_PENDING", "RECOVERY_DIAGNOSE_PENDING",
   "RECOVERY_PHASE_COMPLETED", "RECOVERY_RETRY", "RECOVERY_REPLAN", "RETRY_BUDGET_EXHAUSTED",
   "ABORT_REQUESTED", "TERMINAL_STATE"}

NoPhase       == "None"
TaskCompleted == "__task_completed__"

\* _state_evidence_inconsistencies: the estimate a satisfied predicate must rest on.
EvidenceFor ==
  [object_track_valid       |-> "object_track",
   goal_track_valid         |-> "goal_track",
   grasp_candidate          |-> "grasp",
   grasp_verified           |-> "grasp",
   support_contact_detected |-> "support_contact",
   support_verified         |-> "support_contact",
   placement_verified       |-> "settled"]

\* An ExecutiveSnapshot: valid modalities, satisfied predicates, whether a state
\* estimate is present and which of its parts are valid, evaluator ground truth, anomaly.
SnapshotType ==
  [modalities : SUBSET STRING, predicates : SUBSET STRING,
   estimated : BOOLEAN, estimates : SUBSET STRING, gt : BOOLEAN, unsafe : BOOLEAN]

PhaseSpecType ==
  [subtask : Subtasks, owner : Owners, required : SUBSET STRING, entry : SUBSET STRING,
   exit : SUBSET STRING, invariant : SUBSET STRING, critical : Criticals,
   stable : Nat \ {0}, timeout : Nat]

ASSUME NormalAssumption ==
  /\ NormalPhases \in Seq(STRING)
  /\ Len(NormalPhases) > 0
  /\ \A i, j \in 1..Len(NormalPhases) : NormalPhases[i] = NormalPhases[j] => i = j
  /\ Normal \cap (RecoveryPhases \cup {NoPhase, TaskCompleted}) = {}

ASSUME PlanAssumption ==
  /\ PhaseSpec \in [Phases -> PhaseSpecType]
  /\ \A p \in Phases : PhaseSpec[p].subtask = Recover <=> p \in RecoveryPhases
  /\ \A p \in RecoveryPhases : PhaseSpec[p].owner = "SAFE_HOLD"

\* _build_subtask_specs declares every edge the normal order and recovery need.
ASSUME GraphAssumption ==
  /\ \A p \in Normal : /\ PhaseSpec[p].subtask \in AllowedNext[Recover]
                       /\ Recover \in AllowedNext[PhaseSpec[p].subtask]
  /\ \A i \in 1..Len(NormalPhases)-1 :
       LET here == PhaseSpec[NormalPhases[i]].subtask
           next == PhaseSpec[NormalPhases[i + 1]].subtask
       IN  here # next => next \in AllowedNext[here]

ASSUME InputAssumption ==
  /\ Snapshots \subseteq SnapshotType
  /\ Snapshots # {}

ASSUME ConfigAssumption ==
  /\ MaxRecoveryAttempts \in Nat
  /\ ShadowOnly \in BOOLEAN
  /\ RequireStateEstimate \in BOOLEAN
  /\ AgeCap \in Nat \ {0}
  /\ \A p \in Normal : PhaseSpec[p].timeout <= AgeCap

VARIABLES
  status, subtask, phase, owner,  (* ExecutiveState                                *)
  age, attempts,                  (* phase_age_ticks, recovery_attempts            *)
  candidate,                      (* _candidate_key and _candidate_ticks           *)
  resume,                         (* _resume_phase                                 *)
  entry,                          (* the latest TransitionLedgerEntry              *)
  streak                          (* history: latest ticks in a row on which the   *)
                                  (* evidence for leaving the phase was complete   *)

state == <<status, subtask, phase, owner, age, attempts>>
vars  == <<status, subtask, phase, owner, age, attempts, candidate, resume, entry, streak>>

-----------------------------------------------------------------------------
(* Evidence *)

HasModalities(p, s) == PhaseSpec[p].required \subseteq s.modalities
Satisfied(names, s) == names \subseteq s.predicates

\* Mutant: the invariant of the target phase is not checked before it is entered.
EntryMetIgnoringInvariant(p, s) == Satisfied(PhaseSpec[p].entry, s)

\* The requirements checked before a phase is committed to.
EntryMet(p, s) == Satisfied(PhaseSpec[p].entry \cup PhaseSpec[p].invariant, s)

Inconsistent(s) ==
  s.estimated /\ \E name \in DOMAIN EvidenceFor :
                    name \in s.predicates /\ EvidenceFor[name] \notin s.estimates

Inadmissible(s) ==
  s.gt \/ (RequireStateEstimate /\ ~s.estimated) \/ Inconsistent(s) \/ s.unsafe

InadmissibleReason(s) ==
  IF s.gt THEN "HIDDEN_GT_REJECTED"
  ELSE IF RequireStateEstimate /\ ~s.estimated THEN "MISSING_STATE_ESTIMATE"
  ELSE IF Inconsistent(s) THEN "INCONSISTENT_STATE_EVIDENCE"
  ELSE "UNSAFE_OR_ANOMALOUS"

IsLast(p) == p = NormalPhases[Len(NormalPhases)]

\* Mutant: an off-by-one in next_normal_phase skips a phase.
NextPhaseSkipping(p) ==
  NormalPhases[(CHOOSE i \in 1..Len(NormalPhases) : NormalPhases[i] = p) + 2]

NextPhase(p) == NormalPhases[(CHOOSE i \in 1..Len(NormalPhases) : NormalPhases[i] = p) + 1]

Authorized(p, s)   == PhaseSpec[p].critical # "NONE" => Satisfied(PhaseSpec[p].entry, s)
InvariantMet(p, s) == Satisfied(PhaseSpec[p].invariant, s)
TimedOut(p, ticks) == PhaseSpec[p].timeout # 0 /\ ticks >= PhaseSpec[p].timeout

\* A clean snapshot supports staying in normal phase p.
Supports(p, s) == HasModalities(p, s) /\ Authorized(p, s) /\ InvariantMet(p, s)

\* The stability a transition out of p needs, and the key it is counted under.
Required(p) ==
  IF p \in Normal /\ ~IsLast(p) /\ PhaseSpec[NextPhase(p)].stable > PhaseSpec[p].stable
    THEN PhaseSpec[NextPhase(p)].stable
    ELSE PhaseSpec[p].stable

KeyAfter(p) ==
  CASE p = "SAFE_HOLD" -> "REOBSERVE"
    [] p = "REOBSERVE" -> "DIAGNOSE"
    [] OTHER           -> IF IsLast(p) THEN TaskCompleted ELSE NextPhase(p)

-----------------------------------------------------------------------------
(* Parts shared by the actions *)

NoCandidate == [key |-> NoPhase, ticks |-> 0]

\* Mutant: the counter restarts for the same key and grows for a new one.
TicksForSwapped(key) == IF candidate.key = key THEN 1 ELSE candidate.ticks + 1

\* _stable_candidate: count one more tick for this key, or start at one.
TicksFor(key) == IF candidate.key = key THEN candidate.ticks + 1 ELSE 1

Aged == IF age < AgeCap THEN age + 1 ELSE age

State(st, sub, p, own, rec) ==
  [status |-> st, subtask |-> sub, phase |-> p, owner |-> own, attempts |-> rec]

\* Everything the history variable calls complete evidence for leaving p.
Complete(p, s) ==
  /\ ~Inadmissible(s)
  /\ HasModalities(p, s)
  /\ Satisfied(PhaseSpec[p].exit, s)
  /\ p \in Normal =>
       /\ Supports(p, s)
       /\ ~IsLast(p) => HasModalities(NextPhase(p), s) /\ EntryMet(NextPhase(p), s)

\* _record, evaluated after the state change: the decision and its ledger entry.
Record(s, outcome, reason, reset) ==
  /\ entry' = [snapshot  |-> s,
               before    |-> State(status, subtask, phase, owner, attempts),
               after     |-> State(status', subtask', phase', owner', attempts'),
               outcome   |-> outcome,
               reason    |-> reason,
               critical  |-> IF status' = "RUNNING" THEN PhaseSpec[phase'].critical ELSE "NONE",
               actuation |-> ~ShadowOnly /\ status' = "RUNNING" /\ owner' # "SAFE_HOLD",
               reset     |-> reset]
  /\ streak' = IF status' = status /\ phase' = phase /\ Complete(phase, s)
                    /\ status \notin Terminal
                 THEN IF streak < Required(phase) THEN streak + 1 ELSE streak
                 ELSE 0

\* The phase goes on: only its age changes.
Stay == age' = Aged /\ UNCHANGED <<status, subtask, phase, owner, attempts, resume>>

\* Mutant: the committed phase keeps the previous controller.
EnterKeepingOwner(st, p) ==
  /\ status' = st
  /\ phase' = p
  /\ subtask' = PhaseSpec[p].subtask
  /\ UNCHANGED owner
  /\ age' = 0
  /\ candidate' = NoCandidate

Enter(st, p) ==
  /\ status' = st
  /\ phase' = p
  /\ subtask' = PhaseSpec[p].subtask
  /\ owner' = PhaseSpec[p].owner
  /\ age' = 0
  /\ candidate' = NoCandidate

\* Mutant: every anomaly overwrites the phase to resume.
EnterRecoveryForgetting(s, reason) ==
  /\ status' = "HOLDING"
  /\ subtask' = Recover
  /\ phase' = "SAFE_HOLD"
  /\ owner' = "SAFE_HOLD"
  /\ age' = 0
  /\ candidate' = NoCandidate
  /\ resume' = IF subtask = Recover THEN NoPhase ELSE phase
  /\ UNCHANGED attempts
  /\ Record(s, IF subtask = Recover THEN "UNCHANGED" ELSE "COMMITTED", reason, subtask # Recover)

\* _enter_recovery: only the first entry remembers the phase to resume.
EnterRecovery(s, reason) ==
  /\ status' = "HOLDING"
  /\ subtask' = Recover
  /\ phase' = "SAFE_HOLD"
  /\ owner' = "SAFE_HOLD"
  /\ age' = 0
  /\ candidate' = NoCandidate
  /\ resume' = IF subtask = Recover THEN resume ELSE phase
  /\ UNCHANGED attempts
  /\ Record(s, IF subtask = Recover THEN "UNCHANGED" ELSE "COMMITTED", reason, subtask # Recover)

\* Mutant: the end of a task leaves the remaining action chunk in place.
FinishKeepingAction(st, s, reason) ==
  /\ status' = st
  /\ owner' = "SAFE_HOLD"
  /\ age' = 0
  /\ candidate' = NoCandidate
  /\ UNCHANGED <<subtask, phase, attempts, resume>>
  /\ Record(s, "COMMITTED", reason, FALSE)

\* _complete_or_abort: the phase and subtask stay where the task ended.
Finish(st, s, reason) ==
  /\ status' = st
  /\ owner' = "SAFE_HOLD"
  /\ age' = 0
  /\ candidate' = NoCandidate
  /\ UNCHANGED <<subtask, phase, attempts, resume>>
  /\ Record(s, "COMMITTED", reason, TRUE)

-----------------------------------------------------------------------------
(* Actions: terminal states and inadmissible evidence *)

TerminalTick(s) ==
  /\ status \in Terminal
  /\ UNCHANGED <<status, subtask, phase, owner, age, attempts, resume, candidate>>
  /\ Record(s, "UNCHANGED", "TERMINAL_STATE", FALSE)

FailClosed(s) ==
  /\ status \notin Terminal
  /\ Inadmissible(s)
  /\ EnterRecovery(s, InadmissibleReason(s))

-----------------------------------------------------------------------------
(* Actions: _step_recovery *)

InRecovery(s) == status \notin Terminal /\ ~Inadmissible(s) /\ subtask = Recover
Observing(s)  == HasModalities(phase, s)

\* A recovery phase without its modalities waits where it is.
RecoveryBlind(s) ==
  /\ ~HasModalities(phase, s)
  /\ Stay
  /\ candidate' = NoCandidate
  /\ Record(s, "REJECTED",
            IF phase = "REOBSERVE" THEN "RECOVERY_REOBSERVE_PENDING" ELSE "MISSING_MODALITY",
            FALSE)

RecoveryExitPending(s) ==
  /\ Observing(s)
  /\ phase \in {"SAFE_HOLD", "REOBSERVE"}
  /\ ~Satisfied(PhaseSpec[phase].exit, s)
  /\ Stay
  /\ candidate' = NoCandidate
  /\ Record(s, "UNCHANGED",
            IF phase = "SAFE_HOLD" THEN "RECOVERY_HOLD_PENDING" ELSE "RECOVERY_REOBSERVE_PENDING",
            FALSE)

RecoverySettling(s) ==
  /\ Observing(s)
  /\ phase \in {"SAFE_HOLD", "REOBSERVE"}
  /\ Satisfied(PhaseSpec[phase].exit, s)
  /\ TicksFor(KeyAfter(phase)) < PhaseSpec[phase].stable
  /\ Stay
  /\ candidate' = [key |-> KeyAfter(phase), ticks |-> TicksFor(KeyAfter(phase))]
  /\ Record(s, "REJECTED", "STABILITY_PENDING", FALSE)

RecoveryAdvance(s) ==
  /\ Observing(s)
  /\ phase \in {"SAFE_HOLD", "REOBSERVE"}
  /\ Satisfied(PhaseSpec[phase].exit, s)
  /\ TicksFor(KeyAfter(phase)) >= PhaseSpec[phase].stable
  /\ Enter("HOLDING", KeyAfter(phase))
  /\ UNCHANGED <<attempts, resume>>
  /\ Record(s, "COMMITTED", "RECOVERY_PHASE_COMPLETED", TRUE)

Diagnosing(s) == Observing(s) /\ phase = "DIAGNOSE" /\ InvariantMet(phase, s)

\* Back to REOBSERVE; subtask, status and owner already fit that phase.
Reobserve(s) ==
  /\ phase' = "REOBSERVE"
  /\ age' = 0
  /\ candidate' = NoCandidate
  /\ UNCHANGED <<status, subtask, owner, attempts, resume>>
  /\ Record(s, "REJECTED", "RECOVERY_REOBSERVE_PENDING", FALSE)

DiagnoseRelapse(s) ==
  /\ Observing(s)
  /\ phase = "DIAGNOSE"
  /\ ~InvariantMet(phase, s)
  /\ Reobserve(s)

DiagnoseAbort(s) ==
  /\ Diagnosing(s)
  /\ "abort_required" \in s.predicates
  /\ Finish("ABORTED", s, "ABORT_REQUESTED")

Verdict(s) == {"retry_authorized", "replan_authorized"} \cap s.predicates

DiagnoseIdle(s) ==
  /\ Diagnosing(s)
  /\ "abort_required" \notin s.predicates
  /\ Verdict(s) = {}
  /\ Stay
  /\ UNCHANGED candidate
  /\ Record(s, "UNCHANGED", "RECOVERY_DIAGNOSE_PENDING", FALSE)

Decided(s) == Diagnosing(s) /\ "abort_required" \notin s.predicates /\ Verdict(s) # {}

DiagnoseExhausted(s) ==
  /\ Decided(s)
  /\ attempts >= MaxRecoveryAttempts
  /\ Finish("ABORTED", s, "RETRY_BUDGET_EXHAUSTED")

\* A replan starts over; a retry goes back to the interrupted phase.
ReturnPhase(s) ==
  IF "replan_authorized" \in s.predicates \/ resume = NoPhase THEN NormalPhases[1] ELSE resume

DiagnoseNotReady(s) ==
  /\ Decided(s)
  /\ attempts < MaxRecoveryAttempts
  /\ ~(HasModalities(ReturnPhase(s), s) /\ EntryMet(ReturnPhase(s), s))
  /\ Reobserve(s)

\* Mutant: a replan is not charged to the recovery budget.
DiagnoseReturnForFree(s) ==
  /\ Decided(s)
  /\ attempts < MaxRecoveryAttempts
  /\ HasModalities(ReturnPhase(s), s)
  /\ EntryMet(ReturnPhase(s), s)
  /\ Enter("RUNNING", ReturnPhase(s))
  /\ attempts' = IF "replan_authorized" \in s.predicates THEN attempts ELSE attempts + 1
  /\ resume' = NoPhase
  /\ Record(s, "COMMITTED",
            IF "replan_authorized" \in s.predicates THEN "RECOVERY_REPLAN" ELSE "RECOVERY_RETRY",
            TRUE)

DiagnoseReturn(s) ==
  /\ Decided(s)
  /\ attempts < MaxRecoveryAttempts
  /\ HasModalities(ReturnPhase(s), s)
  /\ EntryMet(ReturnPhase(s), s)
  /\ Enter("RUNNING", ReturnPhase(s))
  /\ attempts' = attempts + 1
  /\ resume' = NoPhase
  /\ Record(s, "COMMITTED",
            IF "replan_authorized" \in s.predicates THEN "RECOVERY_REPLAN" ELSE "RECOVERY_RETRY",
            TRUE)

-----------------------------------------------------------------------------
(* Actions: _step_normal *)

InNormal(s) == status \notin Terminal /\ ~Inadmissible(s) /\ subtask # Recover

NormalFaultReason(s) ==
  CASE ~HasModalities(phase, s) -> "MISSING_MODALITY"
    [] HasModalities(phase, s) /\ ~Authorized(phase, s) -> "CRITICAL_ACTION_NOT_AUTHORIZED"
    [] OTHER -> IF InvariantMet(phase, s) THEN "PHASE_TIMEOUT" ELSE "STATE_INVARIANT_FAILED"

Faulty(s) == ~Supports(phase, s) \/ TimedOut(phase, Aged)

NormalFault(s) ==
  /\ Faulty(s)
  /\ EnterRecovery(s, NormalFaultReason(s))

Leaving(s) == ~Faulty(s) /\ Satisfied(PhaseSpec[phase].exit, s)

\* Mutant: a tick without the exit condition does not restart the stability count.
ExitPendingKeepingCount(s) ==
  /\ ~Faulty(s)
  /\ ~Satisfied(PhaseSpec[phase].exit, s)
  /\ Stay
  /\ UNCHANGED candidate
  /\ Record(s, "UNCHANGED", "EXIT_NOT_SATISFIED", FALSE)

ExitPending(s) ==
  /\ ~Faulty(s)
  /\ ~Satisfied(PhaseSpec[phase].exit, s)
  /\ Stay
  /\ candidate' = NoCandidate
  /\ Record(s, "UNCHANGED", "EXIT_NOT_SATISFIED", FALSE)

TargetUnobservable(s) ==
  /\ Leaving(s)
  /\ ~IsLast(phase)
  /\ ~HasModalities(NextPhase(phase), s)
  /\ EnterRecovery(s, "MISSING_MODALITY")

EntryPending(s) ==
  /\ Leaving(s)
  /\ ~IsLast(phase)
  /\ HasModalities(NextPhase(phase), s)
  /\ ~EntryMet(NextPhase(phase), s)
  /\ Stay
  /\ candidate' = NoCandidate
  /\ Record(s, "REJECTED", "ENTRY_NOT_SATISFIED", FALSE)

TargetReady(s) ==
  ~IsLast(phase) => HasModalities(NextPhase(phase), s) /\ EntryMet(NextPhase(phase), s)

Settling(s) ==
  /\ Leaving(s)
  /\ TargetReady(s)
  /\ TicksFor(KeyAfter(phase)) < Required(phase)
  /\ Stay
  /\ candidate' = [key |-> KeyAfter(phase), ticks |-> TicksFor(KeyAfter(phase))]
  /\ Record(s, "REJECTED", "STABILITY_PENDING", FALSE)

CommitPhase(s) ==
  /\ Leaving(s)
  /\ ~IsLast(phase)
  /\ TargetReady(s)
  /\ TicksFor(KeyAfter(phase)) >= Required(phase)
  /\ Enter("RUNNING", NextPhase(phase))
  /\ UNCHANGED <<attempts, resume>>
  /\ Record(s, "COMMITTED", "PHASE_COMPLETED", TRUE)

CompleteTask(s) ==
  /\ Leaving(s)
  /\ IsLast(phase)
  /\ TicksFor(KeyAfter(phase)) >= Required(phase)
  /\ Finish("COMPLETED", s, "TASK_COMPLETED")

-----------------------------------------------------------------------------
(* Specification *)

NoEntry == [reason |-> "NONE"]

Init ==
  /\ status = "RUNNING"
  /\ phase = NormalPhases[1]
  /\ subtask = PhaseSpec[phase].subtask
  /\ owner = PhaseSpec[phase].owner
  /\ age = 0
  /\ attempts = 0
  /\ candidate = NoCandidate
  /\ resume = NoPhase
  /\ entry = NoEntry
  /\ streak = 0

\* _step_recovery and _step_normal: the branch taken for admissible evidence.
RecoveryStep(s) ==
  /\ InRecovery(s)
  /\ \/ RecoveryBlind(s)    \/ RecoveryExitPending(s) \/ RecoverySettling(s)
     \/ RecoveryAdvance(s)  \/ DiagnoseRelapse(s)     \/ DiagnoseAbort(s)
     \/ DiagnoseIdle(s)     \/ DiagnoseExhausted(s)   \/ DiagnoseNotReady(s)
     \/ DiagnoseReturn(s)

NormalStep(s) ==
  /\ InNormal(s)
  /\ \/ NormalFault(s) \/ ExitPending(s) \/ TargetUnobservable(s) \/ EntryPending(s)
     \/ Settling(s)    \/ CommitPhase(s) \/ CompleteTask(s)

Step(s) == TerminalTick(s) \/ FailClosed(s) \/ RecoveryStep(s) \/ NormalStep(s)

Next == \E s \in Snapshots : Step(s)

Spec == Init /\ [][Next]_vars

\* The runtime keeps handing the executive one snapshot per tick.
FairSpec == Spec /\ WF_vars(Next)

-----------------------------------------------------------------------------
(* Properties *)

StateType ==
  [status : Statuses, subtask : Subtasks, phase : Phases, owner : Owners, attempts : Nat]

EntryType ==
  [snapshot : Snapshots, before : StateType, after : StateType,
   outcome : Outcomes, reason : Reasons, critical : Criticals,
   actuation : BOOLEAN, reset : BOOLEAN]

StateOK ==
  /\ status \in Statuses
  /\ phase \in Phases
  /\ subtask = PhaseSpec[phase].subtask
  /\ owner = IF status \in Terminal THEN "SAFE_HOLD" ELSE PhaseSpec[phase].owner
  /\ age \in 0..AgeCap
  /\ attempts \in Nat
  /\ candidate \in [key : Phases \cup {NoPhase, TaskCompleted}, ticks : Nat]
  /\ resume \in Normal \cup {NoPhase}

\* The executive's state has the shape ExecutiveState and PhaseSpec demand, and the
\* stored subtask and owner are those of the stored phase (SAFE_HOLD once finished).
TypeOK ==
  /\ StateOK
  /\ entry \in EntryType \cup {NoEntry}
  /\ streak \in Nat

\* A tick that leaves the task running was clean and carried every modality, every
\* invariant and, for gripper close, lift and release, every authorisation of the
\* phase it leaves active; an actuation permission is given to no one else.
RunningSupported ==
  entry # NoEntry =>
    LET spec == PhaseSpec[entry.after.phase]
        s    == entry.snapshot
    IN  /\ entry.after.status = "RUNNING" =>
             /\ ~s.gt /\ ~s.unsafe /\ ~Inconsistent(s)
             /\ RequireStateEstimate => s.estimated
             /\ spec.required \subseteq s.modalities
             /\ spec.invariant \subseteq s.predicates
             /\ entry.critical # "NONE" => spec.entry \subseteq s.predicates
        /\ entry.actuation \/ entry.critical # "NONE" => entry.after.status = "RUNNING"

CountsReturn ==
  /\ attempts' <= MaxRecoveryAttempts
  /\ attempts' = attempts + (IF status = "HOLDING" /\ status' = "RUNNING" THEN 1 ELSE 0)

\* The task returns from recovery at most MaxRecoveryAttempts times, each return is
\* counted, and no return forgets an earlier one.
ReturnsAreCounted == [][CountsReturn]_vars

RemembersInterruption ==
  /\ subtask # Recover /\ subtask' = Recover => resume' = phase
  /\ subtask = Recover /\ subtask' = Recover => resume' = resume
  /\ subtask = Recover /\ subtask' # Recover =>
       phase' = IF entry'.reason = "RECOVERY_RETRY" THEN resume ELSE NormalPhases[1]

\* However often the anomaly repeats while recovering, the phase remembered is the one
\* that was interrupted, and a retry returns exactly there.
RetryReturnsToInterruption == [][RemembersInterruption]_vars

ResetsOnHandover ==
  <<status, owner>>' # <<status, owner>> => entry'.reset /\ entry'.outcome = "COMMITTED"

\* Whoever owns the controller changes only with a decision that is committed and
\* tells the runtime to drop the remaining action chunk.
HandoverResetsAction == [][ResetsOnHandover]_vars

FollowsGraph ==
  /\ subtask' # subtask => subtask' \in AllowedNext[subtask]
  /\ phase \in Normal /\ phase' \in Normal /\ phase' # phase =>
       \E i \in 1..Len(NormalPhases)-1 : phase = NormalPhases[i] /\ phase' = NormalPhases[i + 1]

\* Phases change only along the declared graph: inside the normal order one phase at a
\* time, between subtasks only where allowed_next permits it.
GraphOnly == [][FollowsGraph]_vars

StabilityNeeded(p, q) ==
  IF q \in Normal /\ PhaseSpec[q].stable > PhaseSpec[p].stable
    THEN PhaseSpec[q].stable ELSE PhaseSpec[p].stable

Progress ==
  \/ status = "RUNNING" /\ status' = "RUNNING" /\ phase' # phase
  \/ status = "RUNNING" /\ status' = "COMPLETED"
  \/ <<phase, phase'>> \in {<<"SAFE_HOLD", "REOBSERVE">>, <<"REOBSERVE", "DIAGNOSE">>}

RestsOnStableEvidence ==
  Progress => /\ Complete(phase, entry'.snapshot)
              /\ streak + 1 >= StabilityNeeded(phase, phase')

\* Progress is committed only after the evidence for it was complete on the required
\* number of consecutive ticks, this one included; one bad tick starts over.
ProgressIsStable == [][RestsOnStableEvidence]_vars

\* Every requirement of every phase, and a verdict other than abort.
Nominal(s) ==
  /\ ~Inadmissible(s)
  /\ \A p \in Phases :
       HasModalities(p, s) /\ Satisfied(PhaseSpec[p].entry, s)
         /\ Satisfied(PhaseSpec[p].exit, s) /\ InvariantMet(p, s)
  /\ "abort_required" \in s.predicates \/ Verdict(s) # {}

\* Once the evidence stays complete the task ends: completed, or aborted because the
\* budget is spent or an abort is asked for.  No phase can absorb it.
NominalEvidenceFinishes ==
  <>[](entry # NoEntry /\ Nominal(entry.snapshot)) => <>(status \in Terminal)
=============================================================================
