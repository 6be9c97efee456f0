---------------------------- MODULE CandidatePool ----------------------------
(***************************************************************************)
(* The amended formal collection of local DAgger candidates: a runner      *)
(* (cli/collect_local_dagger_amended_pool.py) executes one child process   *)
(* (cli/collect_local_dagger.py) per seed of a frozen range, keeps what    *)
(* they leave on disk, and publishes a selection when every seed has its   *)
(* record.  Runner and child can die between any two writes; a runner that *)
(* dies leaves its child running, and another runner may resume.           *)
(*                                                                         *)
(* The disk is what survives: the experiment, one directory per seed and   *)
(* four derived files.  Hashes and receipts are replaced by what they bind:*)
(* a derived file holds the outcomes it was written from.                  *)
(***************************************************************************)
EXTENDS Naturals, Sequences, FiniteSets

CONSTANTS
  Runners,   \* runner processes, started by hand
  LastSeed,  \* the seeds are 1..LastSeed, frozen with the experiment
  Gate,      \* eligible candidates the selection needs
  MaxStops   \* bound: how often a process is killed, or stopped by an exception

NoRunner == "none"

ASSUME PoolAssumption ==
  /\ LastSeed \in Nat \ {0} /\ Gate \in 1..LastSeed /\ MaxStops \in Nat
  /\ NoRunner \notin Runners

VARIABLES
  lock,        \* the runner that holds the flock on the output, or NoRunner
  step,        \* what each runner does next
  rows,        \* the outcomes each runner has in memory
  experiment,  \* experiment.json: "absent", only its "temp" file, or "written"
  temps,       \* temporary files of interrupted atomic writes of derived files
  manifest,    \* rows of collection_candidates.jsonl; none is as if it were absent
  summary,     \* collection_summary.json
  risk,        \* the outcomes risk_selection.json was made from; none if absent
  canonical,   \* the same for canonical_selected_records.jsonl
  opened,      \* seeds whose directory holds files
  dataset,     \* the dataset each child has left: hidden, with its marker, or committed
  record,      \* record.json of each seed
  child,       \* what the child of each seed does next
  stops        \* processes stopped so far

runnerVars == <<lock, step, rows>>
diskVars == <<experiment, temps, manifest, summary, risk, canonical>>
seedVars == <<opened, dataset, record, child>>
poolVars == <<runnerVars, diskVars, seedVars, stops>>

Seeds == 1..LastSeed

Live == {"started", "collecting", "rejecting", "erring", "published", "prepared", "recorded"}
Ended == {"succeeded", "failed", "interrupted"}

-----------------------------------------------------------------------------
(* What is on disk *)

Eligible(os) == Cardinality({s \in DOMAIN os : os[s] = "accepted"})

NoSummary == [state |-> "absent", rows |-> <<>>]

\* _progress_summary and the two outcomes of _selection_summary
Progress(os) == [state |-> "progress", rows |-> os]
GateFailed(os) == [state |-> "gate_failed", rows |-> os]
Complete(os) == [state |-> "complete", rows |-> os]

\* The first n records, each reduced to its outcome (compact_candidate_record).
Rows(n) == [s \in 1..n |-> record[s]]

\* _load_record and _accepted_artifact_receipt: an accepted record has its committed dataset,
\* a rejected one none; status error and records whose contents the pool refuses are not fit.
Fit(s) ==
  \/ record[s] = "accepted" /\ dataset[s] = "committed"
  \/ record[s] = "rejected" /\ dataset[s] \notin {"marked", "committed"}

Recorded == {s \in Seeds : record[s] # "none"}

\* _load_existing_candidates: the records are fit and those of the first n seeds, and no other
\* seed has left anything.
Existing(n) ==
  /\ Recorded = 1..n
  /\ \A s \in 1..n : Fit(s)
  /\ \A s \in Seeds \ Recorded : s \notin opened

Passes(os) == Len(os) = LastSeed /\ Eligible(os) >= Gate

\* Mutant: the summary must be the one of the manifest.
SnapshotsExact(os) ==
  {Progress(manifest)} \cup IF Passes(os) /\ canonical # <<>> THEN {Complete(os)} ELSE {}

\* The summaries that may lie beside n records: the one of the manifest or, when the manifest
\* is not behind itself and nothing was selected from it, the one before; or the final one.
Snapshots(os) ==
  LET behind == manifest = os /\ os # <<>> /\ risk = <<>>
      chosen == Passes(os) /\ risk # <<>> /\ canonical # <<>>
      failed == Len(os) = LastSeed /\ manifest = os /\ ~Passes(os)
  IN {Progress(manifest)}
     \cup (IF behind THEN {Progress(SubSeq(manifest, 1, Len(manifest) - 1))} ELSE {})
     \cup (IF chosen THEN {Complete(os)} ELSE {})
     \cup (IF failed THEN {GateFailed(os)} ELSE {})

\* _validate_resume_derived_artifacts, for the rows os of the records that were loaded
Derived(os) ==
  /\ Len(manifest) = Len(os) \/ Len(manifest) + 1 = Len(os)
  /\ manifest = SubSeq(os, 1, Len(manifest))
  /\ risk # <<>> => Passes(os) /\ manifest = os /\ risk = os
  /\ canonical # <<>> => risk # <<>> /\ canonical = os
  /\ IF summary = NoSummary THEN Len(os) <= 1 ELSE summary \in Snapshots(os)

\* _ROOT_DERIVED_ATOMIC_FILENAMES: whose stale temporary files a resume removes.
DerivedFiles == {"collection_candidates.jsonl", "collection_summary.json",
                 "risk_selection.json", "canonical_selected_records.jsonl"}

\* --resume goes on only from here: any other temporary file would be a name that
\* _validate_resume_derived_artifacts does not allow in the output root.
Resumable ==
  /\ temps \subseteq DerivedFiles
  /\ \E n \in 0..LastSeed : Existing(n) /\ Derived(Rows(n))

-----------------------------------------------------------------------------
(* The runner *)

At(r, where) == step[r] = where

Goes(r, next) == step' = [step EXCEPT ![r] = next] /\ UNCHANGED <<lock, rows>>

\* Mutant: the flock stays when its holder is gone.
LeavesLocked(r) ==
  /\ UNCHANGED lock
  /\ step' = [step EXCEPT ![r] = "off"]
  /\ rows' = [rows EXCEPT ![r] = <<>>]

\* run() ends, by returning or by raising; the flock goes with it.
Leaves(r) ==
  /\ lock' = NoRunner
  /\ step' = [step EXCEPT ![r] = "off"]
  /\ rows' = [rows EXCEPT ![r] = <<>>]

Now(r) == Len(rows[r]) + 1

\* Mutant: two runners may work on one output.
MayStart == TRUE

\* _formal_pool_lock: whoever comes second raises.
Unlocked == lock = NoRunner

Starts(r, next) ==
  /\ step[r] = "off" /\ Unlocked
  /\ lock' = r
  /\ step' = [step EXCEPT ![r] = next]
  /\ UNCHANGED <<rows, diskVars, seedVars, stops>>

\* Without --resume the output must be empty.
StartFresh(r) == experiment = "absent" /\ Starts(r, "create")

StartResume(r) == experiment = "written" /\ Starts(r, "load")

Create(r) ==
  /\ At(r, "create")
  /\ experiment' = "written"
  /\ Goes(r, "next")
  /\ UNCHANGED <<temps, manifest, summary, risk, canonical, seedVars, stops>>

\* Mutant: the progress is always written anew, also over a final summary.
AfterLoadAlways(os) == IF os # <<>> THEN "manifest" ELSE "next"

\* _synchronize_resume_progress
AfterLoad(os) ==
  IF os # <<>> /\ (manifest # os \/ Len(summary.rows) # Len(os)) THEN "manifest" ELSE "next"

\* --resume: stale temporary files are removed, everything is validated, or it raises.
Load(r) ==
  /\ At(r, "load")
  /\ temps' = temps \ DerivedFiles
  /\ IF Resumable
       THEN LET os == Rows(Cardinality(Recorded))
            IN /\ rows' = [rows EXCEPT ![r] = os]
               /\ step' = [step EXCEPT ![r] = AfterLoad(os)]
               /\ UNCHANGED lock
       ELSE Leaves(r)
  /\ UNCHANGED <<experiment, manifest, summary, risk, canonical, seedVars, stops>>

\* The next seed must have neither a record nor a directory with files.
Choose(r) ==
  /\ At(r, "next") /\ Len(rows[r]) < LastSeed
  /\ IF record[Now(r)] = "none" /\ Now(r) \notin opened THEN Goes(r, "open") ELSE Leaves(r)
  /\ UNCHANGED <<diskVars, seedVars, stops>>

\* Its directory is made and the log files are opened.
Open(r) ==
  /\ At(r, "open")
  /\ opened' = opened \cup {Now(r)}
  /\ Goes(r, "spawn")
  /\ UNCHANGED <<diskVars, dataset, record, child, stops>>

Spawn(r) ==
  /\ At(r, "spawn")
  /\ child' = [child EXCEPT ![Now(r)] = "started"]
  /\ Goes(r, "wait")
  /\ UNCHANGED <<diskVars, opened, dataset, record, stops>>

\* Mutant: any record a child leaves is taken, whatever it says.
BelievesAny(s) == record[s] # "none"

\* The record is there, it is fit, and the exit status agrees with it.
Believes(s) == Fit(s) /\ (child[s] = "succeeded" <=> record[s] = "accepted")

Reap(r) ==
  /\ At(r, "wait") /\ child[Now(r)] \in Ended
  /\ IF Believes(Now(r))
       THEN /\ rows' = [rows EXCEPT ![r] = Append(@, record[Now(r)])]
            /\ step' = [step EXCEPT ![r] = "manifest"]
            /\ UNCHANGED lock
       ELSE Leaves(r)
  /\ UNCHANGED <<diskVars, seedVars, stops>>

\* _write_progress: the manifest first, then the summary.
WriteManifest(r) ==
  /\ At(r, "manifest")
  /\ manifest' = rows[r]
  /\ Goes(r, "summary")
  /\ UNCHANGED <<experiment, temps, summary, risk, canonical, seedVars, stops>>

WriteSummary(r) ==
  /\ At(r, "summary")
  /\ summary' = Progress(rows[r])
  /\ Goes(r, "next")
  /\ UNCHANGED <<experiment, temps, manifest, risk, canonical, seedVars, stops>>

FailGate(r) ==
  /\ At(r, "next") /\ Len(rows[r]) = LastSeed /\ ~Passes(rows[r])
  /\ summary' = GateFailed(rows[r])
  /\ Leaves(r)
  /\ UNCHANGED <<experiment, temps, manifest, risk, canonical, seedVars, stops>>

PublishRisk(r) ==
  /\ At(r, "next") /\ Passes(rows[r])
  /\ risk' = rows[r]
  /\ Goes(r, "canonical")
  /\ UNCHANGED <<experiment, temps, manifest, summary, canonical, seedVars, stops>>

\* score_and_select_risk_candidates: a choice of Gate eligible seeds, made by their scores.
Selected(os) ==
  CHOOSE chosen \in SUBSET {s \in DOMAIN os : os[s] = "accepted"} : Cardinality(chosen) = Gate

\* build_canonical_selected_records reads the manifest, the risk selection, and the records and
\* datasets of the selected seeds again.
PublishCanonical(r) ==
  /\ At(r, "canonical")
  /\ IF /\ manifest = rows[r] /\ risk = rows[r]
        /\ \A s \in Selected(rows[r]) : record[s] = rows[r][s] /\ Fit(s)
       THEN canonical' = rows[r] /\ Goes(r, "complete")
       ELSE Leaves(r) /\ UNCHANGED canonical
  /\ UNCHANGED <<experiment, temps, manifest, summary, risk, seedVars, stops>>

PublishSummary(r) ==
  /\ At(r, "complete")
  /\ summary' = Complete(rows[r])
  /\ Leaves(r)
  /\ UNCHANGED <<experiment, temps, manifest, risk, canonical, seedVars, stops>>

\* The file an atomic write of the runner would replace next.
Writing(r) ==
  CASE step[r] = "manifest" -> {"collection_candidates.jsonl"}
    [] step[r] = "summary" -> {"collection_summary.json"}
    [] step[r] = "complete" -> {"collection_summary.json"}
    [] step[r] = "canonical" -> {"canonical_selected_records.jsonl"}
    [] step[r] = "next" /\ Len(rows[r]) = LastSeed ->
         IF Passes(rows[r]) THEN {"risk_selection.json"} ELSE {"collection_summary.json"}
    [] OTHER -> {}

\* The runner is killed, in the middle of a write perhaps, or an input check raises.
RunnerStops(r) ==
  /\ step[r] # "off" /\ stops < MaxStops
  /\ stops' = stops + 1
  /\ Leaves(r)
  /\ \E left \in SUBSET Writing(r) : temps' = temps \cup left
  /\ experiment' \in {experiment} \cup (IF step[r] = "create" THEN {"temp"} ELSE {})
  /\ UNCHANGED <<manifest, summary, risk, canonical, seedVars>>

Runner(r) ==
  \/ Create(r)        \/ Load(r)          \/ Choose(r)       \/ Open(r)
  \/ Spawn(r)         \/ Reap(r)          \/ WriteManifest(r) \/ WriteSummary(r)
  \/ FailGate(r)      \/ PublishRisk(r)   \/ PublishCanonical(r) \/ PublishSummary(r)

-----------------------------------------------------------------------------
(* The child: _CandidateDatasetPublisher around one episode *)

ChildGoes(s, from, next) == child[s] = from /\ child' = [child EXCEPT ![s] = next]

Leaving(s, what) == dataset' = [dataset EXCEPT ![s] = what]

Writes(s, what) == record' = [record EXCEPT ![s] = what]

\* __enter__: the hidden staging directory with its marker
EnterPublisher(s) ==
  /\ ChildGoes(s, "started", "collecting")
  /\ Leaving(s, "hidden")
  /\ UNCHANGED record

\* Something raises before the try: no CUDA, no checkpoint, statistics that change while read.
SetUpFails(s) == ChildGoes(s, "started", "failed") /\ UNCHANGED <<dataset, record>>

\* EpisodeRejected, raised by the collector: __exit__ removes the dataset first.
Reject(s) ==
  /\ ChildGoes(s, "collecting", "rejecting")
  /\ Leaving(s, "none")
  /\ UNCHANGED record

\* Any other exception, up to and including the write of the record.
Raise(s) ==
  /\ \E from \in {"collecting", "published", "prepared"} : ChildGoes(s, from, "erring")
  /\ Leaving(s, "none")
  /\ UNCHANGED record

\* The record of a rejection; some the collector can write are refused by the pool (LocalDagger).
RecordRejection(s) ==
  /\ ChildGoes(s, "rejecting", "failed")
  /\ \E what \in {"rejected", "unfit"} : Writes(s, what)
  /\ UNCHANGED dataset

RecordError(s) ==
  /\ ChildGoes(s, "erring", "failed")
  /\ Writes(s, "error")
  /\ UNCHANGED dataset

Publish(s) ==
  /\ ChildGoes(s, "collecting", "published")
  /\ Leaving(s, "marked")
  /\ UNCHANGED record

PrepareCommit(s) ==
  /\ ChildGoes(s, "published", "prepared")
  /\ Leaving(s, "committed")
  /\ UNCHANGED record

RecordAccepted(s) ==
  /\ ChildGoes(s, "prepared", "recorded")
  /\ \E what \in {"accepted", "unfit"} : Writes(s, what)
  /\ UNCHANGED dataset

\* commit() and the last line of output, which may fail.
CommitCandidate(s) ==
  /\ \E end \in {"succeeded", "failed"} : ChildGoes(s, "recorded", end)
  /\ UNCHANGED <<dataset, record>>

ChildStep(s) ==
  /\ \/ EnterPublisher(s) \/ SetUpFails(s)  \/ Reject(s)        \/ Raise(s)
     \/ RecordRejection(s) \/ RecordError(s) \/ Publish(s)      \/ PrepareCommit(s)
     \/ RecordAccepted(s) \/ CommitCandidate(s)
  /\ UNCHANGED <<runnerVars, diskVars, opened, stops>>

\* A kill leaves everything as it is.
ChildIsKilled(s) ==
  /\ child[s] \in Live
  /\ child' = [child EXCEPT ![s] = "failed"]
  /\ UNCHANGED dataset

\* An interrupt is no Exception: the dataset is removed unless commit() was reached, and no
\* failure is recorded.
ChildIsInterrupted(s) ==
  /\ child[s] \in {"collecting", "published", "prepared", "recorded"}
  /\ child' = [child EXCEPT ![s] = "interrupted"]
  /\ Leaving(s, "none")

ChildStops(s) ==
  /\ stops < MaxStops
  /\ stops' = stops + 1
  /\ ChildIsKilled(s) \/ ChildIsInterrupted(s)
  /\ UNCHANGED <<runnerVars, diskVars, opened, record>>

-----------------------------------------------------------------------------
(* The whole *)

Init ==
  /\ lock = NoRunner
  /\ step = [r \in Runners |-> "off"]
  /\ rows = [r \in Runners |-> <<>>]
  /\ experiment = "absent" /\ temps = {}
  /\ manifest = <<>> /\ summary = NoSummary /\ risk = <<>> /\ canonical = <<>>
  /\ opened = {}
  /\ dataset = [s \in Seeds |-> "none"]
  /\ record = [s \in Seeds |-> "none"]
  /\ child = [s \in Seeds |-> "none"]
  /\ stops = 0

Next ==
  \/ \E r \in Runners : StartFresh(r) \/ StartResume(r) \/ Runner(r) \/ RunnerStops(r)
  \/ \E s \in Seeds : ChildStep(s) \/ ChildStops(s)

Spec == Init /\ [][Next]_poolVars

\* Processes run on, and whoever operates the pool resumes it.
FairSpec ==
  /\ Spec
  /\ \A r \in Runners : WF_poolVars(Runner(r))
  /\ \A s \in Seeds : WF_poolVars(ChildStep(s))
  /\ WF_poolVars(\E r \in Runners : StartFresh(r) \/ StartResume(r))

-----------------------------------------------------------------------------
(* Properties *)

\* Every variable has its type, and only the holder of the lock is anywhere in the program.
TypeOK ==
  /\ lock \in Runners \cup {NoRunner}
  /\ step \in [Runners -> {"off", "create", "load", "next", "open", "spawn", "wait",
                           "manifest", "summary", "canonical", "complete"}]
  /\ \A r \in Runners : step[r] # "off" <=> lock = r
  /\ experiment \in {"absent", "temp", "written"}
  /\ dataset \in [Seeds -> {"none", "hidden", "marked", "committed"}]
  /\ record \in [Seeds -> {"none", "accepted", "rejected", "unfit", "error"}]
  /\ child \in [Seeds -> Live \cup Ended \cup {"none"}]
  /\ opened \subseteq Seeds
  /\ stops \in 0..MaxStops

\* A seed is executed by at most one child, also when the runner died and another one resumed
\* while the child was still running; and a record never changes once it is written.
SeedRunsOnce ==
  [][\A s \in Seeds :
       /\ child'[s] = "started" => child[s] \in {"none", "started"}
       /\ record[s] # "none" => record'[s] = record[s]]_poolVars

\* Whatever a derived file says of a seed is what the record of that seed says, and that
\* record is fit for training: an accepted one has its committed dataset, no error is counted.
\* Only a child that outlived its runner, and is interrupted between its record and commit()
\* while the next runner counts it, can take the dataset away again.
PublishedIsRecorded ==
  \A os \in {manifest, summary.rows, risk, canonical} :
    \A s \in DOMAIN os : os[s] = record[s] /\ (Fit(s) \/ child[s] = "interrupted")

\* A directory that no process is going to finish, or a record that is not fit: the cases in
\* which the documents want a resume to refuse.
Damaged(s) ==
  \/ /\ s \in opened /\ record[s] = "none"
     /\ \/ child[s] \in Ended
        \/ child[s] = "none" /\ \A r \in Runners : step[r] # "spawn"
  \/ record[s] # "none" /\ ~Fit(s)

Blocked == experiment = "temp" \/ \E s \in Seeds : Damaged(s)

\* And only then: whenever the processes died, between whichever two writes, --resume goes on,
\* unless a candidate is damaged or its child is still running.
ResumeNeverStuck ==
  (experiment = "written" /\ lock = NoRunner /\ ~Blocked /\ \A s \in Seeds : child[s] \notin Live)
    => Resumable

\* The pool keeps the promise of a frozen population.
Frozen == INSTANCE FrozenPopulation WITH
  outcomes <- manifest,
  verdict  <- IF summary.state \in {"gate_failed", "complete"} THEN summary.state ELSE "open"

KeepsPopulation == Frozen!Population

Settled == summary.state \in {"gate_failed", "complete"}

\* Resumed as often as it is stopped, a pool comes to its verdict or is blocked for good.
Finishes == <>[](Settled \/ Blocked)
=============================================================================
