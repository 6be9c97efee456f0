------------------------- MODULE CandidatePoolProofs -------------------------
(***************************************************************************)
(* Theorems about the candidate pool, for any number of runners and seeds, *)
(* any gate, and however often runners and children are stopped.           *)
(***************************************************************************)
EXTENDS CandidatePool, FiniteSetTheorems, TLAPS

Outcome == {"accepted", "rejected"}

Phases == {"off", "create", "load", "next", "open", "spawn", "wait",
           "manifest", "summary", "canonical", "complete"}
Places == {"none", "hidden", "marked", "committed"}
Records == {"none", "accepted", "rejected", "unfit", "error"}
States == {"absent", "progress", "gate_failed", "complete"}

Types ==
  /\ lock \in Runners \cup {NoRunner}
  /\ step \in [Runners -> Phases]
  /\ rows \in [Runners -> Seq(Outcome)]
  /\ experiment \in {"absent", "temp", "written"}
  /\ dataset \in [Seeds -> Places] /\ record \in [Seeds -> Records]
  /\ child \in [Seeds -> Live \cup Ended \cup {"none"}]
  /\ opened \subseteq Seeds
  /\ summary \in [state : States, rows : Seq(Outcome)]
  /\ stops \in 0..MaxStops

\* Only the holder of the flock runs, and it has read nothing before it loads.
Locked ==
  \A r \in Runners :
    /\ step[r] # "off" <=> lock = r
    /\ step[r] \in {"off", "create", "load"} => rows[r] = <<>>

\* A child is started in its directory, and writes its record near its end.
Children ==
  \A s \in Seeds :
    /\ child[s] # "none" => s \in opened
    /\ record[s] # "none" => child[s] \in {"recorded"} \cup Ended

\* Says of the first seeds what their records say: such rows are the same if they are as many.
Says(os, rec, data, ch) ==
  /\ os \in Seq(Outcome) /\ Len(os) <= LastSeed
  /\ \A s \in 1..Len(os) :
       /\ os[s] = rec[s]
       /\ \/ ch[s] = "interrupted"
          \/ rec[s] = "accepted" /\ data[s] = "committed"
          \/ rec[s] = "rejected" /\ data[s] \notin {"marked", "committed"}

Truthful(os) == Says(os, record, dataset, child)

Told ==
  /\ Truthful(manifest) /\ Truthful(summary.rows) /\ Truthful(risk) /\ Truthful(canonical)
  /\ \A r \in Runners : Truthful(rows[r])

\* How far a runner with rows os is apart from the directories and the derived files.
Fitting(place, os) ==
  /\ place \in {"next", "open", "spawn", "wait", "summary", "canonical", "complete"} =>
       Len(os) = Len(manifest)
  /\ place \in {"next", "open", "spawn", "wait", "canonical", "complete"} =>
       Len(summary.rows) = Len(manifest)
  /\ place = "manifest" =>
       /\ opened = 1..Len(os) /\ os # <<>>
       /\ \/ Len(os) = Len(manifest)
          \/ Len(os) = Len(manifest) + 1 /\ Len(summary.rows) = Len(manifest)
  /\ place \in {"next", "open", "summary", "canonical", "complete"} => opened = 1..Len(manifest)
  /\ place = "summary" => manifest # <<>>
  /\ place \in {"open", "spawn", "wait"} => Len(manifest) < LastSeed
  /\ place \in {"spawn", "wait"} => opened = 1..Len(manifest) + 1
  /\ place = "spawn" => child[Len(manifest) + 1] = "none"
  /\ place \in {"manifest", "summary"} => ~Settled
  /\ place \in {"canonical", "complete"} => Passes(manifest) /\ risk # <<>>
  /\ place = "complete" => canonical # <<>>

Advance == \A r \in Runners : Fitting(step[r], rows[r])

\* Before the experiment there is nothing, and nobody does more than write it.
Begun ==
  experiment # "written" =>
    /\ opened = {} /\ manifest = <<>> /\ summary = NoSummary /\ risk = <<>> /\ canonical = <<>>
    /\ \A r \in Runners : step[r] = "off" \/ (step[r] = "create" /\ experiment = "absent")

NotCreating == experiment = "written" => \A r \in Runners : step[r] # "create"

Disk ==
  /\ opened = 1..Len(manifest) \/ opened = 1..Len(manifest) + 1
  /\ risk # <<>> => Passes(manifest) /\ Len(risk) = Len(manifest)
  /\ canonical # <<>> => risk # <<>> /\ Len(canonical) = Len(manifest)
  /\ summary.state = "absent" => summary = NoSummary /\ opened \subseteq 1..1
  /\ summary.state = "progress" =>
       \/ Len(summary.rows) = Len(manifest)
       \/ /\ Len(summary.rows) + 1 = Len(manifest)
          /\ risk = <<>> /\ opened = 1..Len(manifest)
  /\ Settled => Len(summary.rows) = Len(manifest) /\ Len(manifest) = LastSeed
  /\ summary.state = "complete" => Passes(manifest) /\ risk # <<>> /\ canonical # <<>>
  /\ summary.state = "gate_failed" => ~Passes(manifest)

PoolInvariant ==
  Types /\ Locked /\ Children /\ Told /\ Advance /\ Begun /\ NotCreating /\ Disk

-----------------------------------------------------------------------------
(* Rows *)

LEMMA Numbers == LastSeed \in Nat \ {0} /\ Gate \in 1..LastSeed /\ MaxStops \in Nat /\ NoRunner \notin Runners
  BY PoolAssumption

LEMMA NoRows == <<>> \in Seq(Outcome) /\ Len(<<>>) = 0
  OBVIOUS

LEMMA Length == ASSUME NEW os \in Seq(Outcome)
                PROVE Len(os) \in Nat /\ DOMAIN os = 1..Len(os) /\ (os = <<>> <=> Len(os) = 0)
  OBVIOUS

LEMMA SameRows ==
  ASSUME NEW rec, NEW data, NEW ch, NEW a, NEW b,
         Says(a, rec, data, ch), Says(b, rec, data, ch), Len(a) = Len(b)
  PROVE  a = b
  <1>1. a \in Seq(Outcome) /\ b \in Seq(Outcome) /\ \A s \in 1..Len(a) : a[s] = b[s]
    BY DEF Says
  <1> QED BY <1>1

LEMMA NothingSaid == ASSUME NEW rec, NEW data, NEW ch PROVE Says(<<>>, rec, data, ch)
  BY NoRows, Numbers DEF Says

\* What is said stays true: a record stays, and is fit until its child is interrupted.
LEMMA StillSaid ==
  ASSUME NEW os, NEW rec, NEW data, NEW ch, NEW rec2, NEW data2, NEW ch2,
         Says(os, rec, data, ch),
         \A s \in Seeds : rec[s] # "none" =>
           /\ rec2[s] = rec[s]
           /\ ch[s] = "interrupted" => ch2[s] = "interrupted"
           /\ data2[s] = data[s] \/ ch2[s] = "interrupted"
  PROVE  Says(os, rec2, data2, ch2)
  <1>1. Len(os) \in Nat /\ Len(os) <= LastSeed /\ os \in Seq(Outcome)
    BY Length DEF Says
  <1>2. \A s \in 1..Len(os) : s \in Seeds /\ os[s] \in Outcome
    BY <1>1, Numbers DEF Seeds
  <1>3. \A s \in 1..Len(os) : rec[s] # "none"
    BY <1>2 DEF Says, Outcome
  <1> QED BY <1>1, <1>2, <1>3 DEF Says

LEMMA OneMore ==
  ASSUME NEW os, NEW rec, NEW data, NEW ch, NEW x \in Outcome, Says(os, rec, data, ch),
         Len(os) < LastSeed, rec[Len(os) + 1] = x,
         \/ x = "accepted" /\ data[Len(os) + 1] = "committed"
         \/ x = "rejected" /\ data[Len(os) + 1] \notin {"marked", "committed"}
  PROVE  /\ Says(Append(os, x), rec, data, ch)
         /\ Len(Append(os, x)) = Len(os) + 1 /\ Append(os, x) # <<>>
         /\ Append(os, x) \in Seq(Outcome)
  <1>1. os \in Seq(Outcome) /\ Len(os) \in Nat
    BY Length DEF Says
  <1>2. /\ Append(os, x) \in Seq(Outcome) /\ Len(Append(os, x)) = Len(os) + 1
        /\ \A s \in 1..Len(os) : Append(os, x)[s] = os[s]
        /\ Append(os, x)[Len(os) + 1] = x
    BY <1>1
  <1>3. Append(os, x) # <<>>
    BY <1>1, <1>2, NoRows
  <1>4. Len(Append(os, x)) <= LastSeed
    BY <1>1, <1>2, Numbers
  <1>5. ASSUME NEW s \in 1..Len(Append(os, x))
        PROVE  /\ Append(os, x)[s] = rec[s]
               /\ \/ ch[s] = "interrupted"
                  \/ rec[s] = "accepted" /\ data[s] = "committed"
                  \/ rec[s] = "rejected" /\ data[s] \notin {"marked", "committed"}
    <2>1. CASE s = Len(os) + 1
      BY <1>2, <2>1
    <2>2. CASE s \in 1..Len(os)
      BY <1>2, <2>2 DEF Says
    <2> QED BY <1>1, <1>2, <2>1, <2>2
  <1> QED BY <1>2, <1>3, <1>4, <1>5 DEF Says

LEMMA Upto == ASSUME NEW m \in Nat, NEW n \in Nat, 1..m = 1..n PROVE m = n
  <1>1. CASE m < n
    <2>1. n \in 1..n /\ n \notin 1..m
      BY <1>1
    <2> QED BY <2>1
  <1>2. CASE n < m
    <2>1. m \in 1..m /\ m \notin 1..n
      BY <1>2
    <2> QED BY <2>1
  <1> QED BY <1>1, <1>2

-----------------------------------------------------------------------------
(* The start *)

LEMMA InvariantInit == Init => PoolInvariant
  <1> SUFFICES ASSUME Init PROVE PoolInvariant
    OBVIOUS
  <1>1. /\ summary = NoSummary /\ NoSummary.rows = <<>> /\ NoSummary.state = "absent"
        /\ ~Settled
    BY DEF Init, NoSummary, Settled
  <1>2. Types
    <2>1. summary \in [state : States, rows : Seq(Outcome)]
      BY <1>1, NoRows DEF NoSummary, States
    <2>2. stops \in 0..MaxStops
      BY Numbers DEF Init
    <2>3. rows \in [Runners -> Seq(Outcome)]
      BY NoRows DEF Init
    <2> QED BY <2>1, <2>2, <2>3 DEF Init, Types, Phases, Places, Records
  <1>3. Locked
    BY Numbers DEF Init, Locked
  <1>4. Children
    BY DEF Init, Children
  <1>5. Told
    BY <1>1, NothingSaid DEF Init, Told, Truthful
  <1>6. Advance
    BY DEF Init, Advance, Fitting
  <1>7. Begun /\ NotCreating
    BY <1>1 DEF Init, Begun, NotCreating
  <1>8. Disk
    BY <1>1, NoRows DEF Init, Disk
  <1> QED BY <1>2, <1>3, <1>4, <1>5, <1>6, <1>7, <1>8 DEF PoolInvariant

-----------------------------------------------------------------------------
(* The runner *)

LEMMA Alone ==
  ASSUME Locked, NEW r \in Runners, step[r] # "off"
  PROVE  lock = r /\ \A q \in Runners : q # r => step[q] = "off" /\ rows[q] = <<>>
  BY DEF Locked

LEMMA IdleFits == \A os : Fitting("off", os)' /\ Fitting("create", os)' /\ Fitting("load", os)'
  BY DEF Fitting

\* A runner that leaves: nobody runs, and nothing has to fit.
LEMMA LeavesKeeps ==
  ASSUME Types, Locked, NEW r \in Runners, step[r] # "off", Leaves(r)
  PROVE  /\ lock' \in Runners \cup {NoRunner}
         /\ step' \in [Runners -> Phases] /\ rows' \in [Runners -> Seq(Outcome)]
         /\ Locked' /\ Advance' /\ NotCreating'
         /\ \A q \in Runners : step'[q] = "off" /\ rows'[q] = <<>>
  <1>1. /\ lock' = NoRunner /\ step' = [step EXCEPT ![r] = "off"] /\ rows' = [rows EXCEPT ![r] = <<>>]
        /\ step \in [Runners -> Phases] /\ rows \in [Runners -> Seq(Outcome)]
    BY DEF Leaves, Types
  <1>2. \A q \in Runners : step'[q] = "off" /\ rows'[q] = <<>>
    BY <1>1, Alone
  <1>3. step' \in [Runners -> Phases] /\ rows' \in [Runners -> Seq(Outcome)]
    BY <1>1, NoRows DEF Phases
  <1>4. Locked'
    BY <1>1, <1>2, Numbers DEF Locked
  <1>5. Advance'
    BY <1>2, IdleFits DEF Advance
  <1>6. NotCreating'
    BY <1>2 DEF NotCreating
  <1> QED BY <1>1, <1>2, <1>3, <1>4, <1>5, <1>6

\* A runner that goes on.
LEMMA GoesKeeps ==
  ASSUME Types, Locked, NEW r \in Runners, step[r] # "off",
         NEW next \in Phases \ {"off", "create", "load"}, NEW os \in Seq(Outcome),
         lock' = lock, step' = [step EXCEPT ![r] = next], rows' = [rows EXCEPT ![r] = os],
         Fitting(next, os)'
  PROVE  /\ lock' \in Runners \cup {NoRunner}
         /\ step' \in [Runners -> Phases] /\ rows' \in [Runners -> Seq(Outcome)]
         /\ Locked' /\ Advance' /\ NotCreating'
         /\ \A q \in Runners : rows'[q] = IF q = r THEN os ELSE <<>>
  <1>1. lock = r /\ \A q \in Runners : q # r => step[q] = "off" /\ rows[q] = <<>>
    BY Alone
  <1>2. step \in [Runners -> Phases] /\ rows \in [Runners -> Seq(Outcome)]
    BY DEF Types
  <1>3. \A q \in Runners : /\ step'[q] = IF q = r THEN next ELSE "off"
                           /\ rows'[q] = IF q = r THEN os ELSE <<>>
    BY <1>1, <1>2
  <1>4. step' \in [Runners -> Phases] /\ rows' \in [Runners -> Seq(Outcome)]
    BY <1>2
  <1>5. Locked'
    BY <1>1, <1>3 DEF Locked
  <1>6. Advance'
    <2> SUFFICES ASSUME NEW q \in Runners PROVE Fitting(step[q], rows[q])'
      BY DEF Advance
    <2>1. CASE q = r
      <3>1. step'[q] = next /\ rows'[q] = os
        BY <1>3, <2>1
      <3> QED BY <3>1 DEF Fitting
    <2>2. CASE q # r
      <3>1. step'[q] = "off"
        BY <1>3, <2>2
      <3> QED BY <3>1 DEF Fitting
    <2> QED BY <2>1, <2>2
  <1>7. NotCreating'
    BY <1>3 DEF NotCreating
  <1> QED BY <1>1, <1>3, <1>4, <1>5, <1>6, <1>7 DEF Types

\* What a step of a runner that works on the written experiment has to show.
LEMMA WorksOn ==
  ASSUME PoolInvariant, NEW r \in Runners, step[r] \notin {"off", "create"}
  PROVE  /\ experiment = "written" /\ Locked /\ Types
         /\ rows[r] \in Seq(Outcome) /\ Truthful(rows[r]) /\ Fitting(step[r], rows[r])
         /\ Len(rows[r]) \in Nat /\ Len(rows[r]) <= LastSeed
         /\ manifest \in Seq(Outcome) /\ Len(manifest) \in Nat /\ Len(manifest) <= LastSeed
         /\ Len(rows[r]) = Len(manifest) => rows[r] = manifest
  <1>1. /\ experiment = "written" /\ Locked /\ Types /\ Truthful(rows[r]) /\ Truthful(manifest)
        /\ Fitting(step[r], rows[r])
    BY DEF PoolInvariant, Begun, Told, Advance
  <1>2. /\ rows[r] \in Seq(Outcome) /\ manifest \in Seq(Outcome)
        /\ Len(rows[r]) <= LastSeed /\ Len(manifest) <= LastSeed
    BY <1>1 DEF Truthful, Says
  <1>3. Len(rows[r]) = Len(manifest) => rows[r] = manifest
    BY <1>1, SameRows DEF Truthful
  <1> QED BY <1>1, <1>2, <1>3, Length

LEMMA StartKeeps ==
  ASSUME PoolInvariant, NEW r \in Runners, StartFresh(r) \/ StartResume(r)
  PROVE  PoolInvariant'
  <1>1. PICK next \in {"create", "load"} :
          /\ lock = NoRunner /\ step[r] = "off" /\ lock' = r
          /\ step' = [step EXCEPT ![r] = next]
          /\ experiment = IF next = "create" THEN "absent" ELSE "written"
          /\ UNCHANGED <<rows, diskVars, seedVars, stops>>
    BY DEF StartFresh, StartResume, Starts, Unlocked
  <1>2. /\ UNCHANGED <<rows, experiment, manifest, summary, risk, canonical, opened, dataset,
                       record, child, stops>>
        /\ step \in [Runners -> Phases] /\ next \in Phases
    BY <1>1 DEF diskVars, seedVars, PoolInvariant, Types, Phases
  <1>3. \A q \in Runners : step[q] = "off" /\ rows[q] = <<>>
    BY <1>1, Numbers DEF PoolInvariant, Locked
  <1>4. \A q \in Runners : step'[q] = IF q = r THEN next ELSE "off"
    BY <1>1, <1>2, <1>3
  <1>5. Types'
    BY <1>1, <1>2 DEF PoolInvariant, Types
  <1>6. Locked'
    BY <1>1, <1>2, <1>3, <1>4 DEF Locked
  <1>7. Children' /\ Told' /\ Disk'
    <2>1. Children'
      BY <1>2 DEF PoolInvariant, Children
    <2>2. Told'
      BY <1>2 DEF PoolInvariant, Told, Truthful
    <2>3. Disk'
      BY <1>2 DEF PoolInvariant, Disk, Settled
    <2> QED BY <2>1, <2>2, <2>3
  <1>8. Advance'
    BY <1>4 DEF Advance, Fitting
  <1>9. Begun' /\ NotCreating'
    BY <1>1, <1>2, <1>4 DEF PoolInvariant, Begun, NotCreating
  <1> QED BY <1>5, <1>6, <1>7, <1>8, <1>9 DEF PoolInvariant

LEMMA CreateKeeps == ASSUME PoolInvariant, NEW r \in Runners, Create(r) PROVE PoolInvariant'
  <1>1. /\ step[r] = "create" /\ experiment' = "written"
        /\ step' = [step EXCEPT ![r] = "next"] /\ UNCHANGED <<lock, rows>>
        /\ UNCHANGED <<manifest, summary, risk, canonical, opened, dataset, record, child, stops>>
    BY DEF Create, At, Goes, seedVars
  <1>2. /\ opened = {} /\ manifest = <<>> /\ summary = NoSummary /\ risk = <<>> /\ canonical = <<>>
    BY <1>1 DEF PoolInvariant, NotCreating, Begun, Types
  <1>3. Types /\ Locked /\ rows \in [Runners -> Seq(Outcome)] /\ rows[r] = <<>>
    BY <1>1 DEF PoolInvariant, Types, Locked
  <1>4. Fitting("next", <<>>)'
    BY <1>1, <1>2, NoRows DEF Fitting, NoSummary
  <1>5. rows' = [rows EXCEPT ![r] = <<>>]
    BY <1>1, <1>3
  <1>6. /\ lock' \in Runners \cup {NoRunner}
        /\ step' \in [Runners -> Phases] /\ rows' \in [Runners -> Seq(Outcome)]
        /\ Locked' /\ Advance' /\ NotCreating'
    <2>1. "next" \in Phases \ {"off", "create", "load"} /\ <<>> \in Seq(Outcome)
      BY NoRows DEF Phases
    <2> QED BY <1>1, <1>3, <1>4, <1>5, <2>1, GoesKeeps
  <1>7. Types'
    BY <1>1, <1>3, <1>6 DEF Types
  <1>8. Children' /\ Begun'
    BY <1>1 DEF PoolInvariant, Children, Begun
  <1>9. Told'
    BY <1>1 DEF PoolInvariant, Told, Truthful
  <1>10. Disk'
    BY <1>1 DEF PoolInvariant, Disk, Settled
  <1> QED BY <1>6, <1>7, <1>8, <1>9, <1>10 DEF PoolInvariant

\* The invariant after a step of a runner that leaves records and datasets alone.
LEMMA RunnerKeeps ==
  ASSUME PoolInvariant, experiment' = "written", UNCHANGED <<dataset, record, child>>,
         stops' \in 0..MaxStops,
         lock' \in Runners \cup {NoRunner},
         step' \in [Runners -> Phases], rows' \in [Runners -> Seq(Outcome)],
         Locked', Advance', NotCreating',
         opened \subseteq opened', opened' \subseteq Seeds,
         summary' \in [state : States, rows : Seq(Outcome)],
         Truthful(manifest'), Truthful(summary'.rows), Truthful(risk'), Truthful(canonical'),
         \A q \in Runners : Truthful(rows'[q]),
         Disk'
  PROVE  PoolInvariant'
  <1>1. Types'
    BY DEF PoolInvariant, Types
  <1>2. Children'
    BY DEF PoolInvariant, Children
  <1>3. Told'
    BY DEF Told, Truthful
  <1>4. Begun'
    BY DEF Begun
  <1> QED BY <1>1, <1>2, <1>3, <1>4 DEF PoolInvariant

\* A runner leaves, having written the summary or nothing.
LEMMA LeavingKeeps ==
  ASSUME PoolInvariant, NEW r \in Runners, step[r] \notin {"off", "create"}, Leaves(r),
         experiment' = experiment, stops' \in 0..MaxStops,
         UNCHANGED <<manifest, risk, canonical, opened, dataset, record, child>>,
         summary' \in [state : States, rows : Seq(Outcome)], Truthful(summary'.rows), Disk'
  PROVE  PoolInvariant'
  <1>1. experiment = "written" /\ Locked /\ Types
    BY WorksOn
  <1>2. /\ lock' \in Runners \cup {NoRunner}
        /\ step' \in [Runners -> Phases] /\ rows' \in [Runners -> Seq(Outcome)]
        /\ Locked' /\ Advance' /\ NotCreating'
        /\ \A q \in Runners : rows'[q] = <<>>
    BY <1>1, LeavesKeeps
  <1>3. \A q \in Runners : Truthful(rows'[q])
    BY <1>2, NothingSaid DEF Truthful
  <1>4. Truthful(manifest') /\ Truthful(risk') /\ Truthful(canonical') /\ opened' \subseteq Seeds
    BY DEF PoolInvariant, Told, Types
  <1> QED BY <1>1, <1>2, <1>3, <1>4, RunnerKeeps

\* A runner goes on, with rows os.
LEMMA GoingKeeps ==
  ASSUME PoolInvariant, NEW r \in Runners, step[r] \notin {"off", "create"},
         NEW next \in Phases \ {"off", "create", "load"}, NEW os, Truthful(os),
         lock' = lock, step' = [step EXCEPT ![r] = next], rows' = [rows EXCEPT ![r] = os],
         Fitting(next, os)',
         experiment' = experiment, stops' = stops,
         UNCHANGED <<dataset, record, child>>,
         opened \subseteq opened', opened' \subseteq Seeds,
         summary' \in [state : States, rows : Seq(Outcome)],
         Truthful(manifest'), Truthful(summary'.rows), Truthful(risk'), Truthful(canonical'),
         Disk'
  PROVE  PoolInvariant'
  <1>1. experiment = "written" /\ Locked /\ Types
    BY WorksOn
  <1>2. os \in Seq(Outcome) /\ Truthful(<<>>)
    BY NothingSaid DEF Truthful, Says
  <1>3. /\ lock' \in Runners \cup {NoRunner}
        /\ step' \in [Runners -> Phases] /\ rows' \in [Runners -> Seq(Outcome)]
        /\ Locked' /\ Advance' /\ NotCreating'
        /\ \A q \in Runners : rows'[q] = IF q = r THEN os ELSE <<>>
    BY <1>1, <1>2, GoesKeeps
  <1>4. \A q \in Runners : Truthful(rows'[q])
    BY <1>2, <1>3
  <1>5. stops' \in 0..MaxStops
    BY <1>1 DEF Types
  <1> QED BY <1>1, <1>3, <1>4, <1>5, RunnerKeeps

\* Nothing on disk has moved.
LEMMA SameDisk ==
  ASSUME PoolInvariant, UNCHANGED <<manifest, summary, risk, canonical, opened>>
  PROVE  /\ Disk' /\ summary' \in [state : States, rows : Seq(Outcome)]
         /\ Truthful(manifest') /\ Truthful(summary'.rows) /\ Truthful(risk') /\ Truthful(canonical')
         /\ opened' \subseteq Seeds
  BY DEF PoolInvariant, Disk, Settled, Types, Told

LEMMA ExistingRows ==
  ASSUME PoolInvariant, NEW n \in 0..LastSeed, Existing(n)
  PROVE  /\ opened = 1..n /\ Cardinality(Recorded) = n
         /\ Truthful(Rows(n)) /\ Len(Rows(n)) = n /\ Rows(n) \in Seq(Outcome)
  <1>1. Recorded = 1..n /\ n \in Nat /\ \A s \in 1..n : s \in Seeds /\ Fit(s)
    BY Numbers DEF Existing, Seeds
  <1>2. opened = 1..n
    <2>1. opened \subseteq Recorded
      BY DEF Existing, PoolInvariant, Types
    <2>2. Recorded \subseteq opened
      BY DEF PoolInvariant, Children, Recorded, Ended
    <2> QED BY <1>1, <2>1, <2>2
  <1>3. Cardinality(Recorded) = n
    BY <1>1, FS_Interval
  <1>4. Len(Rows(n)) = n /\ Rows(n) \in Seq(Outcome) /\ \A s \in 1..n : Rows(n)[s] = record[s]
    <2>1. \A s \in 1..n : record[s] \in Outcome
      BY <1>1 DEF Fit, Outcome
    <2> QED BY <1>1, <2>1 DEF Rows
  <1>5. Truthful(Rows(n))
    BY <1>1, <1>4, Numbers DEF Truthful, Says, Fit
  <1> QED BY <1>2, <1>3, <1>4, <1>5

LEMMA LoadKeeps == ASSUME PoolInvariant, NEW r \in Runners, Load(r) PROVE PoolInvariant'
  <1>1. /\ step[r] = "load" /\ experiment' = experiment /\ stops' = stops
        /\ UNCHANGED <<manifest, summary, risk, canonical, opened, dataset, record, child>>
    BY DEF Load, At, seedVars
  <1>2. /\ manifest \in Seq(Outcome) /\ Len(manifest) \in Nat /\ Len(manifest) <= LastSeed
        /\ Types /\ Locked
    BY <1>1, WorksOn
  <1>3. CASE ~Resumable
    <2>1. Leaves(r)
      BY <1>3 DEF Load
    <2>2. stops' \in 0..MaxStops
      BY <1>1, <1>2 DEF Types
    <2> QED BY <1>1, <2>1, <2>2, SameDisk, LeavingKeeps
  <1>4. CASE Resumable
    <2>1. PICK n \in 0..LastSeed : Existing(n)
      BY <1>4 DEF Resumable
    <2> PICK os : os = Rows(n)
      OBVIOUS
    <2>2. /\ opened = 1..n /\ Cardinality(Recorded) = n
          /\ Truthful(os) /\ Len(os) = n /\ os \in Seq(Outcome) /\ n \in Nat /\ n <= LastSeed
      BY <2>1, ExistingRows, Numbers
    <2>3. /\ rows' = [rows EXCEPT ![r] = os] /\ step' = [step EXCEPT ![r] = AfterLoad(os)]
          /\ lock' = lock
      BY <1>4, <2>2 DEF Load
    <2>4. n = Len(manifest) \/ n = Len(manifest) + 1
      BY <1>2, <2>2, Upto DEF PoolInvariant, Disk
    <2>5. n = Len(manifest) => os = manifest
      BY <2>2, SameRows DEF PoolInvariant, Told, Truthful
    <2>6. (os = <<>> <=> n = 0) /\ Len(summary.rows) \in Nat /\ summary.state \in States
      BY <1>2, <2>2, Length DEF Types
    <2>7. n = Len(manifest) + 1 => Len(summary.rows) = Len(manifest)
      <3> SUFFICES ASSUME n = Len(manifest) + 1 PROVE Len(summary.rows) = Len(manifest)
        OBVIOUS
      <3>1. CASE summary.state = "absent"
        <4>1. summary = NoSummary /\ opened \subseteq 1..1
          BY <3>1 DEF PoolInvariant, Disk
        <4>2. n \in opened
          BY <1>2, <2>2
        <4>3. n = 1 /\ Len(manifest) = 0
          BY <1>2, <4>1, <4>2
        <4> QED BY <4>1, <4>3, NoRows DEF NoSummary
      <3>2. CASE summary.state = "progress"
        <4>1. opened # 1..Len(manifest)
          BY <1>2, <2>2, Upto
        <4> QED BY <3>2, <4>1 DEF PoolInvariant, Disk
      <3>3. CASE Settled
        BY <3>3 DEF PoolInvariant, Disk
      <3> QED BY <2>6, <3>1, <3>2, <3>3 DEF States, Settled
    <2>8. Settled => n = Len(manifest) /\ Len(summary.rows) = n
      <3>1. Settled => Len(manifest) = LastSeed /\ Len(summary.rows) = Len(manifest)
        BY DEF PoolInvariant, Disk
      <3> QED BY <1>2, <2>2, <2>4, <3>1, Numbers
    <2>9. CASE AfterLoad(os) = "manifest"
      <3>1. os # <<>> /\ ~(os = manifest /\ Len(summary.rows) = n)
        BY <2>2, <2>9 DEF AfterLoad
      <3>2. ~Settled
        BY <2>5, <2>8, <3>1
      <3>3. Fitting("manifest", os)'
        BY <1>1, <2>2, <2>4, <2>7, <3>1, <3>2 DEF Fitting, Settled
      <3>4. "manifest" \in Phases \ {"off", "create", "load"}
        BY DEF Phases
      <3> QED BY <1>1, <2>2, <2>3, <2>9, <3>3, <3>4, SameDisk, GoingKeeps
    <2>10. CASE AfterLoad(os) = "next"
      <3>1. os = <<>> \/ (os = manifest /\ Len(summary.rows) = n)
        BY <2>2, <2>10 DEF AfterLoad
      <3>2. n = Len(manifest) /\ Len(summary.rows) = Len(manifest)
        <4>1. CASE os = <<>>
          <5>1. n = 0 /\ Len(manifest) = 0
            BY <1>2, <2>4, <2>6, <4>1
          <5>2. summary.state = "absent" => Len(summary.rows) = 0
            BY NoRows DEF PoolInvariant, Disk, NoSummary
          <5>3. summary.state = "progress" =>
                  Len(summary.rows) = Len(manifest) \/ Len(summary.rows) + 1 = Len(manifest)
            BY DEF PoolInvariant, Disk
          <5>4. Settled => Len(summary.rows) = n
            BY <2>8
          <5> QED BY <2>6, <5>1, <5>2, <5>3, <5>4 DEF States, Settled
        <4>2. CASE os = manifest /\ Len(summary.rows) = n
          BY <2>2, <4>2
        <4> QED BY <3>1, <4>1, <4>2
      <3>3. Fitting("next", os)'
        BY <1>1, <2>2, <3>2 DEF Fitting
      <3>4. "next" \in Phases \ {"off", "create", "load"}
        BY DEF Phases
      <3> QED BY <1>1, <2>2, <2>3, <2>10, <3>3, <3>4, SameDisk, GoingKeeps
    <2> QED BY <2>9, <2>10 DEF AfterLoad
  <1> QED BY <1>3, <1>4

\* What a runner at work knows of its rows.
LEMMA AtWork ==
  ASSUME PoolInvariant, NEW r \in Runners, step[r] \notin {"off", "create", "load", "manifest"},
         NEW os, os = rows[r]
  PROVE  /\ os = manifest /\ Truthful(os) /\ Len(os) \in Nat /\ Len(os) <= LastSeed
         /\ os \in Seq(Outcome)
         /\ Fitting(step[r], os) /\ rows = [rows EXCEPT ![r] = os]
         /\ stops \in 0..MaxStops /\ Now(r) = Len(os) + 1
  <1>1. /\ Locked /\ Types /\ os \in Seq(Outcome) /\ Truthful(os) /\ Fitting(step[r], os)
        /\ Len(os) \in Nat /\ Len(os) <= LastSeed /\ (Len(os) = Len(manifest) => os = manifest)
    BY WorksOn
  <1>2. Len(os) = Len(manifest)
    BY <1>1 DEF Types, Phases, Fitting
  <1> QED BY <1>1, <1>2 DEF Types, Now

LEMMA ChooseKeeps == ASSUME PoolInvariant, NEW r \in Runners, Choose(r) PROVE PoolInvariant'
  <1> PICK os : os = rows[r]
    OBVIOUS
  <1>1. /\ step[r] = "next" /\ Len(os) < LastSeed /\ experiment' = experiment /\ stops' = stops
        /\ UNCHANGED <<manifest, summary, risk, canonical, opened, dataset, record, child>>
    BY DEF Choose, At, diskVars, seedVars
  <1>2. /\ os = manifest /\ Truthful(os) /\ Fitting("next", os) /\ rows = [rows EXCEPT ![r] = os]
        /\ stops \in 0..MaxStops
    BY <1>1, AtWork
  <1>3. CASE Goes(r, "open")
    <2>1. Fitting("open", os)'
      BY <1>1, <1>2 DEF Fitting
    <2>2. "open" \in Phases \ {"off", "create", "load"}
      BY DEF Phases
    <2> QED BY <1>1, <1>2, <1>3, <2>1, <2>2, SameDisk, GoingKeeps DEF Goes
  <1>4. CASE Leaves(r)
    BY <1>1, <1>2, <1>4, SameDisk, LeavingKeeps
  <1> QED BY <1>3, <1>4 DEF Choose

LEMMA OpenKeeps == ASSUME PoolInvariant, NEW r \in Runners, Open(r) PROVE PoolInvariant'
  <1> PICK os : os = rows[r]
    OBVIOUS
  <1>1. /\ step[r] = "open" /\ experiment' = experiment /\ stops' = stops
        /\ step' = [step EXCEPT ![r] = "spawn"] /\ lock' = lock /\ rows' = rows
        /\ opened' = opened \cup {Now(r)}
        /\ UNCHANGED <<manifest, summary, risk, canonical, dataset, record, child>>
    BY DEF Open, At, Goes, diskVars
  <1>2. /\ os = manifest /\ Truthful(os) /\ Fitting("open", os) /\ rows = [rows EXCEPT ![r] = os]
        /\ Len(os) \in Nat /\ Now(r) = Len(os) + 1
    BY <1>1, AtWork
  <1>3. /\ opened = 1..Len(manifest) /\ Len(manifest) < LastSeed
        /\ Len(summary.rows) = Len(manifest) /\ Len(manifest) + 1 \in Seeds
    BY <1>2, Numbers DEF Fitting, Seeds
  <1>4. opened' = 1..Len(manifest) + 1 /\ Len(manifest) + 1 \notin opened
    BY <1>1, <1>2, <1>3
  <1>5. child[Len(manifest) + 1] = "none"
    BY <1>3, <1>4 DEF PoolInvariant, Children
  <1>6. opened \subseteq opened' /\ opened' \subseteq Seeds
    BY <1>1, <1>2, <1>3 DEF PoolInvariant, Types
  <1>7. Fitting("spawn", os)'
    BY <1>1, <1>2, <1>3, <1>4, <1>5 DEF Fitting
  <1>8. /\ summary' \in [state : States, rows : Seq(Outcome)]
        /\ Truthful(manifest') /\ Truthful(summary'.rows) /\ Truthful(risk') /\ Truthful(canonical')
    BY <1>1 DEF PoolInvariant, Types, Told
  <1>9. Disk'
    <2>1. summary.state = "absent" => opened' \subseteq 1..1
      <3> SUFFICES ASSUME summary.state = "absent" PROVE Len(manifest) = 0
        BY <1>4
      <3>1. summary = NoSummary
        BY DEF PoolInvariant, Disk
      <3> QED BY <1>3, <3>1, NoRows DEF NoSummary
    <2> QED BY <1>1, <1>3, <1>4, <2>1 DEF PoolInvariant, Disk, Settled
  <1>10. "spawn" \in Phases \ {"off", "create", "load"}
    BY DEF Phases
  <1> QED BY <1>1, <1>2, <1>6, <1>7, <1>8, <1>9, <1>10, GoingKeeps

LEMMA SpawnKeeps == ASSUME PoolInvariant, NEW r \in Runners, Spawn(r) PROVE PoolInvariant'
  <1> PICK os : os = rows[r]
    OBVIOUS
  <1>1. /\ step[r] = "spawn" /\ experiment' = experiment /\ stops' = stops
        /\ step' = [step EXCEPT ![r] = "wait"] /\ lock' = lock /\ rows' = rows
        /\ child' = [child EXCEPT ![Now(r)] = "started"]
        /\ UNCHANGED <<manifest, summary, risk, canonical, opened, dataset, record>>
    BY DEF Spawn, At, Goes, diskVars
  <1>2. /\ os = manifest /\ Fitting("spawn", os) /\ rows = [rows EXCEPT ![r] = os]
        /\ Len(os) \in Nat /\ Now(r) = Len(os) + 1 /\ os \in Seq(Outcome)
    BY <1>1, AtWork
  <1> DEFINE n == Len(manifest) + 1
  <1>3. /\ Now(r) = n /\ n \in Seeds /\ opened = 1..n /\ n \in opened /\ child[n] = "none"
        /\ Len(manifest) < LastSeed /\ Len(summary.rows) = Len(manifest)
    BY <1>2, Numbers DEF Fitting, Seeds
  <1>4. /\ Types /\ Locked /\ experiment = "written"
        /\ child \in [Seeds -> Live \cup Ended \cup {"none"}]
    BY <1>1, WorksOn DEF Types
  <1>5. record[n] = "none"
    BY <1>3, <1>4 DEF PoolInvariant, Children, Ended
  <1>6. \A s \in Seeds : child'[s] = IF s = n THEN "started" ELSE child[s]
    BY <1>1, <1>3, <1>4
  <1>7. Fitting("wait", os)'
    BY <1>1, <1>2, <1>3 DEF Fitting
  <1>8. /\ lock' \in Runners \cup {NoRunner}
        /\ step' \in [Runners -> Phases] /\ rows' \in [Runners -> Seq(Outcome)]
        /\ Locked' /\ Advance' /\ NotCreating'
    <2>1. "wait" \in Phases \ {"off", "create", "load"}
      BY DEF Phases
    <2>2. rows' = [rows EXCEPT ![r] = os]
      BY <1>1, <1>2
    <2> QED BY <1>1, <1>2, <1>4, <1>7, <2>1, <2>2, GoesKeeps
  <1>9. Types'
    <2>1. "started" \in Live
      BY DEF Live
    <2> QED BY <1>1, <1>4, <1>8, <2>1 DEF Types
  <1>10. Children'
    BY <1>1, <1>3, <1>5, <1>6 DEF PoolInvariant, Children
  <1>11. \A x : Truthful(x) => Says(x, record', dataset', child')
    <2>1. \A s \in Seeds : record[s] # "none" =>
            /\ record'[s] = record[s]
            /\ child[s] = "interrupted" => child'[s] = "interrupted"
            /\ dataset'[s] = dataset[s] \/ child'[s] = "interrupted"
      BY <1>1, <1>5, <1>6
    <2> QED BY <2>1, StillSaid DEF Truthful
  <1>12. Told'
    BY <1>1, <1>11 DEF PoolInvariant, Told, Truthful
  <1>13. Begun' /\ Disk'
    BY <1>1, <1>4 DEF PoolInvariant, Begun, Disk, Settled
  <1> QED BY <1>8, <1>9, <1>10, <1>12, <1>13 DEF PoolInvariant

LEMMA ReapKeeps == ASSUME PoolInvariant, NEW r \in Runners, Reap(r) PROVE PoolInvariant'
  <1> PICK os : os = rows[r]
    OBVIOUS
  <1>1. /\ step[r] = "wait" /\ experiment' = experiment /\ stops' = stops
        /\ UNCHANGED <<manifest, summary, risk, canonical, opened, dataset, record, child>>
    BY DEF Reap, At, diskVars, seedVars
  <1>2. /\ os = manifest /\ Fitting("wait", os) /\ Truthful(os)
        /\ Len(os) \in Nat /\ Now(r) = Len(os) + 1 /\ os \in Seq(Outcome) /\ stops \in 0..MaxStops
    BY <1>1, AtWork
  <1>3. CASE Believes(Now(r))
    <2>1. PICK x : x = record[Now(r)]
      OBVIOUS
    <2>2. /\ rows' = [rows EXCEPT ![r] = Append(os, x)] /\ lock' = lock
          /\ step' = [step EXCEPT ![r] = "manifest"]
      BY <1>2, <1>3, <2>1 DEF Reap, PoolInvariant, Types
    <2>3. /\ x \in Outcome
          /\ \/ x = "accepted" /\ dataset[Len(os) + 1] = "committed"
             \/ x = "rejected" /\ dataset[Len(os) + 1] \notin {"marked", "committed"}
      BY <1>2, <1>3, <2>1 DEF Believes, Fit, Outcome
    <2>4. Len(os) < LastSeed /\ opened = 1..Len(os) + 1 /\ Len(summary.rows) = Len(manifest)
      BY <1>2 DEF Fitting
    <2>5. PICK more : more = Append(os, x)
      OBVIOUS
    <2>6. Truthful(more) /\ Len(more) = Len(os) + 1 /\ more # <<>>
      <3>1. Says(os, record, dataset, child) /\ record[Len(os) + 1] = x
        BY <1>2, <2>1 DEF Truthful
      <3>2. Says(more, record, dataset, child) /\ Len(more) = Len(os) + 1 /\ more # <<>>
        BY <2>3, <2>4, <2>5, <3>1, OneMore
      <3> QED BY <3>2 DEF Truthful
    <2>7. ~Settled
      <3>1. Settled => Len(manifest) = LastSeed
        BY DEF PoolInvariant, Disk
      <3> QED BY <1>2, <2>4, <3>1, Numbers
    <2>8. Fitting("manifest", more)'
      BY <1>1, <1>2, <2>4, <2>6, <2>7 DEF Fitting, Settled
    <2>9. "manifest" \in Phases \ {"off", "create", "load"}
      BY DEF Phases
    <2> QED BY <1>1, <2>2, <2>5, <2>6, <2>8, <2>9, SameDisk, GoingKeeps
  <1>4. CASE ~Believes(Now(r))
    <2>1. Leaves(r)
      BY <1>4 DEF Reap
    <2> QED BY <1>1, <1>2, <2>1, SameDisk, LeavingKeeps
  <1> QED BY <1>3, <1>4

-----------------------------------------------------------------------------
(* The derived files *)

LEMMA WriteManifestKeeps ==
  ASSUME PoolInvariant, NEW r \in Runners, WriteManifest(r) PROVE PoolInvariant'
  <1> PICK os : os = rows[r]
    OBVIOUS
  <1>1. /\ step[r] = "manifest" /\ experiment' = experiment /\ stops' = stops
        /\ step' = [step EXCEPT ![r] = "summary"] /\ lock' = lock /\ rows' = rows
        /\ manifest' = os
        /\ UNCHANGED <<summary, risk, canonical, opened, dataset, record, child>>
    BY DEF WriteManifest, At, Goes, seedVars
  <1>2. /\ Truthful(os) /\ Fitting("manifest", os) /\ Types
        /\ Len(os) \in Nat /\ Len(os) <= LastSeed /\ Len(manifest) \in Nat
        /\ (Len(os) = Len(manifest) => os = manifest)
    BY <1>1, WorksOn
  <1>3. rows' = [rows EXCEPT ![r] = os]
    BY <1>1, <1>2 DEF Types
  <1>4. /\ opened = 1..Len(os) /\ os # <<>> /\ ~Settled
        /\ os = manifest \/ (Len(os) = Len(manifest) + 1 /\ Len(summary.rows) = Len(manifest))
    BY <1>2 DEF Fitting
  <1>5. Fitting("summary", os)'
    BY <1>1, <1>4 DEF Fitting, Settled
  <1>6. Len(os) = Len(manifest) + 1 => risk = <<>> /\ canonical = <<>>
    <2>1. risk # <<>> => Len(manifest) = LastSeed
      BY DEF PoolInvariant, Disk, Passes
    <2>2. Len(os) = Len(manifest) + 1 => risk = <<>>
      BY <1>2, <2>1, Numbers
    <2> QED BY <2>2 DEF PoolInvariant, Disk
  <1>7. Disk'
    <2>1. summary.state \notin {"gate_failed", "complete"}
      BY <1>4 DEF Settled
    <2>2. CASE os = manifest
      BY <1>1, <2>1, <2>2 DEF PoolInvariant, Disk, Settled
    <2>3. CASE Len(os) = Len(manifest) + 1 /\ Len(summary.rows) = Len(manifest)
      BY <1>1, <1>4, <1>6, <2>1, <2>3 DEF PoolInvariant, Disk, Settled
    <2> QED BY <1>4, <2>2, <2>3
  <1>8. /\ summary' \in [state : States, rows : Seq(Outcome)] /\ opened' \subseteq Seeds
        /\ opened \subseteq opened'
        /\ Truthful(manifest') /\ Truthful(summary'.rows) /\ Truthful(risk') /\ Truthful(canonical')
    BY <1>1, <1>2 DEF PoolInvariant, Types, Told
  <1>9. "summary" \in Phases \ {"off", "create", "load"}
    BY DEF Phases
  <1> QED BY <1>1, <1>2, <1>3, <1>5, <1>7, <1>8, <1>9, GoingKeeps

LEMMA WriteSummaryKeeps ==
  ASSUME PoolInvariant, NEW r \in Runners, WriteSummary(r) PROVE PoolInvariant'
  <1> PICK os : os = rows[r]
    OBVIOUS
  <1>1. /\ step[r] = "summary" /\ experiment' = experiment /\ stops' = stops
        /\ step' = [step EXCEPT ![r] = "next"] /\ lock' = lock /\ rows' = rows
        /\ summary' = Progress(os)
        /\ UNCHANGED <<manifest, risk, canonical, opened, dataset, record, child>>
    BY DEF WriteSummary, At, Goes, seedVars
  <1>2. /\ os = manifest /\ Truthful(os) /\ Fitting("summary", os) /\ rows' = [rows EXCEPT ![r] = os]
        /\ os \in Seq(Outcome)
    BY <1>1, AtWork
  <1>3. /\ summary'.rows = os /\ summary'.state = "progress"
        /\ summary' \in [state : States, rows : Seq(Outcome)]
    BY <1>1, <1>2 DEF Progress, States
  <1>4. Fitting("next", os)'
    BY <1>1, <1>2, <1>3 DEF Fitting
  <1>5. Disk'
    BY <1>1, <1>2, <1>3 DEF PoolInvariant, Disk, Settled
  <1>6. /\ opened \subseteq opened' /\ opened' \subseteq Seeds
        /\ Truthful(manifest') /\ Truthful(summary'.rows) /\ Truthful(risk') /\ Truthful(canonical')
    BY <1>1, <1>2, <1>3 DEF PoolInvariant, Types, Told
  <1>7. "next" \in Phases \ {"off", "create", "load"}
    BY DEF Phases
  <1> QED BY <1>1, <1>2, <1>3, <1>4, <1>5, <1>6, <1>7, GoingKeeps

LEMMA FailGateKeeps ==
  ASSUME PoolInvariant, NEW r \in Runners, FailGate(r) PROVE PoolInvariant'
  <1> PICK os : os = rows[r]
    OBVIOUS
  <1>1. /\ step[r] = "next" /\ Len(os) = LastSeed /\ ~Passes(os) /\ Leaves(r)
        /\ experiment' = experiment /\ stops' = stops /\ summary' = GateFailed(os)
        /\ UNCHANGED <<manifest, risk, canonical, opened, dataset, record, child>>
    BY DEF FailGate, At, seedVars
  <1>2. os = manifest /\ Truthful(os) /\ os \in Seq(Outcome) /\ stops \in 0..MaxStops
    BY <1>1, AtWork
  <1>3. /\ summary'.rows = os /\ summary'.state = "gate_failed"
        /\ summary' \in [state : States, rows : Seq(Outcome)]
    BY <1>1, <1>2 DEF GateFailed, States
  <1>4. Disk'
    BY <1>1, <1>2, <1>3 DEF PoolInvariant, Disk, Settled
  <1> QED BY <1>1, <1>2, <1>3, <1>4, LeavingKeeps

LEMMA PublishRiskKeeps ==
  ASSUME PoolInvariant, NEW r \in Runners, PublishRisk(r) PROVE PoolInvariant'
  <1> PICK os : os = rows[r]
    OBVIOUS
  <1>1. /\ step[r] = "next" /\ Passes(os) /\ experiment' = experiment /\ stops' = stops
        /\ step' = [step EXCEPT ![r] = "canonical"] /\ lock' = lock /\ rows' = rows
        /\ risk' = os
        /\ UNCHANGED <<manifest, summary, canonical, opened, dataset, record, child>>
    BY DEF PublishRisk, At, Goes, seedVars
  <1>2. /\ os = manifest /\ Truthful(os) /\ Fitting("next", os) /\ rows' = [rows EXCEPT ![r] = os]
        /\ os \in Seq(Outcome)
    BY <1>1, AtWork
  <1>3. os # <<>>
    BY <1>1, NoRows, Numbers DEF Passes
  <1>4. Fitting("canonical", os)'
    BY <1>1, <1>2, <1>3 DEF Fitting
  <1>5. Disk'
    <2>1. Len(summary.rows) = Len(manifest)
      BY <1>2 DEF Fitting
    <2> QED BY <1>1, <1>2, <1>3, <2>1 DEF PoolInvariant, Disk, Settled
  <1>6. /\ opened \subseteq opened' /\ opened' \subseteq Seeds
        /\ summary' \in [state : States, rows : Seq(Outcome)]
        /\ Truthful(manifest') /\ Truthful(summary'.rows) /\ Truthful(risk') /\ Truthful(canonical')
    BY <1>1, <1>2 DEF PoolInvariant, Types, Told
  <1>7. "canonical" \in Phases \ {"off", "create", "load"}
    BY DEF Phases
  <1> QED BY <1>1, <1>2, <1>4, <1>5, <1>6, <1>7, GoingKeeps

LEMMA PublishCanonicalKeeps ==
  ASSUME PoolInvariant, NEW r \in Runners, PublishCanonical(r) PROVE PoolInvariant'
  <1> PICK os : os = rows[r]
    OBVIOUS
  <1>1. /\ step[r] = "canonical" /\ experiment' = experiment /\ stops' = stops
        /\ UNCHANGED <<manifest, summary, risk, opened, dataset, record, child>>
    BY DEF PublishCanonical, At, seedVars
  <1>2. /\ os = manifest /\ Truthful(os) /\ Fitting("canonical", os)
        /\ rows = [rows EXCEPT ![r] = os] /\ os \in Seq(Outcome) /\ stops \in 0..MaxStops
    BY <1>1, AtWork
  <1>3. CASE canonical' = os /\ Goes(r, "complete")
    <2>1. os # <<>>
      BY <1>2, NoRows, Numbers DEF Fitting, Passes
    <2>2. Fitting("complete", os)'
      BY <1>1, <1>2, <1>3, <2>1 DEF Fitting
    <2>3. Disk'
      BY <1>1, <1>2, <1>3, <2>1 DEF PoolInvariant, Disk, Settled, Fitting
    <2>4. /\ opened \subseteq opened' /\ opened' \subseteq Seeds
          /\ summary' \in [state : States, rows : Seq(Outcome)]
          /\ Truthful(manifest') /\ Truthful(summary'.rows) /\ Truthful(risk') /\ Truthful(canonical')
      BY <1>1, <1>2, <1>3 DEF PoolInvariant, Types, Told
    <2>5. "complete" \in Phases \ {"off", "create", "load"}
      BY DEF Phases
    <2> QED BY <1>1, <1>2, <1>3, <2>2, <2>3, <2>4, <2>5, GoingKeeps DEF Goes
  <1>4. CASE Leaves(r) /\ UNCHANGED canonical
    BY <1>1, <1>2, <1>4, SameDisk, LeavingKeeps
  <1> QED BY <1>3, <1>4 DEF PublishCanonical

LEMMA PublishSummaryKeeps ==
  ASSUME PoolInvariant, NEW r \in Runners, PublishSummary(r) PROVE PoolInvariant'
  <1> PICK os : os = rows[r]
    OBVIOUS
  <1>1. /\ step[r] = "complete" /\ Leaves(r)
        /\ experiment' = experiment /\ stops' = stops /\ summary' = Complete(os)
        /\ UNCHANGED <<manifest, risk, canonical, opened, dataset, record, child>>
    BY DEF PublishSummary, At, seedVars
  <1>2. /\ os = manifest /\ Truthful(os) /\ Fitting("complete", os) /\ os \in Seq(Outcome)
        /\ stops \in 0..MaxStops
    BY <1>1, AtWork
  <1>3. /\ summary'.rows = os /\ summary'.state = "complete"
        /\ summary' \in [state : States, rows : Seq(Outcome)]
    BY <1>1, <1>2 DEF Complete, States
  <1>4. Disk'
    BY <1>1, <1>2, <1>3 DEF PoolInvariant, Disk, Settled, Fitting, Passes
  <1> QED BY <1>1, <1>2, <1>3, <1>4, LeavingKeeps

LEMMA RunnerStopsKeeps ==
  ASSUME PoolInvariant, NEW r \in Runners, RunnerStops(r) PROVE PoolInvariant'
  <1>1. /\ step[r] # "off" /\ stops < MaxStops /\ stops' = stops + 1 /\ Leaves(r)
        /\ experiment' = experiment \/ (experiment' = "temp" /\ step[r] = "create")
        /\ UNCHANGED <<manifest, summary, risk, canonical, opened, dataset, record, child>>
    BY DEF RunnerStops, seedVars
  <1>2. stops' \in 0..MaxStops
    BY <1>1, Numbers DEF PoolInvariant, Types
  <1>3. CASE step[r] # "create"
    BY <1>1, <1>2, <1>3, SameDisk, LeavingKeeps
  <1>4. CASE step[r] = "create"
    <2>1. Types /\ Locked
      BY DEF PoolInvariant
    <2>2. /\ lock' \in Runners \cup {NoRunner}
          /\ step' \in [Runners -> Phases] /\ rows' \in [Runners -> Seq(Outcome)]
          /\ Locked' /\ Advance' /\ NotCreating'
          /\ \A q \in Runners : step'[q] = "off" /\ rows'[q] = <<>>
      BY <1>1, <2>1, LeavesKeeps
    <2>3. experiment' \in {"absent", "temp", "written"}
      BY <1>1, <2>1 DEF Types
    <2>4. Types'
      BY <1>1, <1>2, <2>1, <2>2, <2>3 DEF Types
    <2>5. Children'
      BY <1>1 DEF PoolInvariant, Children
    <2>6. Told'
      BY <1>1, <2>2, NothingSaid DEF PoolInvariant, Told, Truthful
    <2>7. Begun'
      <3>1. experiment # "written"
        BY <1>4 DEF PoolInvariant, NotCreating
      <3> QED BY <1>1, <2>2, <3>1 DEF PoolInvariant, Begun
    <2> QED BY <1>1, <2>2, <2>4, <2>5, <2>6, <2>7, SameDisk DEF PoolInvariant
  <1> QED BY <1>3, <1>4

-----------------------------------------------------------------------------
(* The child *)

\* A child that is alive takes a step; its record is the last it writes, and stays.
ChildMoves(s) ==
  \E c \in Live \cup Ended, d \in Places, w \in Records :
    /\ child[s] \in Live
    /\ child' = [child EXCEPT ![s] = c]
    /\ dataset' = [dataset EXCEPT ![s] = d]
    /\ record' = [record EXCEPT ![s] = w]
    /\ c # "started"
    /\ w # "none" => c \in {"recorded"} \cup Ended
    /\ record[s] # "none" => w = record[s] /\ (d = dataset[s] \/ c = "interrupted")

LEMMA ChildStepMoves ==
  ASSUME Types, Children, NEW s \in Seeds, ChildStep(s) \/ ChildStops(s)
  PROVE  ChildMoves(s)
  <1>1. /\ dataset = [dataset EXCEPT ![s] = dataset[s]] /\ dataset[s] \in Places
        /\ record = [record EXCEPT ![s] = record[s]] /\ record[s] \in Records
    BY DEF Types
  <1>2. record[s] # "none" => child[s] \in {"recorded"} \cup Ended
    BY DEF Children
  <1>3. CASE EnterPublisher(s)
    BY <1>1, <1>2, <1>3 DEF EnterPublisher, ChildGoes, Leaving, ChildMoves, Live, Ended, Places
  <1>4. CASE SetUpFails(s)
    BY <1>1, <1>2, <1>4 DEF SetUpFails, ChildGoes, ChildMoves, Live, Ended
  <1>5. CASE Reject(s)
    BY <1>1, <1>2, <1>5 DEF Reject, ChildGoes, Leaving, ChildMoves, Live, Ended, Places
  <1>6. CASE Raise(s)
    BY <1>1, <1>2, <1>6 DEF Raise, ChildGoes, Leaving, ChildMoves, Live, Ended, Places
  <1>7. CASE RecordRejection(s)
    BY <1>1, <1>2, <1>7 DEF RecordRejection, ChildGoes, Writes, ChildMoves, Live, Ended, Records
  <1>8. CASE RecordError(s)
    BY <1>1, <1>2, <1>8 DEF RecordError, ChildGoes, Writes, ChildMoves, Live, Ended, Records
  <1>9. CASE Publish(s)
    BY <1>1, <1>2, <1>9 DEF Publish, ChildGoes, Leaving, ChildMoves, Live, Ended, Places
  <1>10. CASE PrepareCommit(s)
    BY <1>1, <1>2, <1>10 DEF PrepareCommit, ChildGoes, Leaving, ChildMoves, Live, Ended, Places
  <1>11. CASE RecordAccepted(s)
    BY <1>1, <1>2, <1>11 DEF RecordAccepted, ChildGoes, Writes, ChildMoves, Live, Ended, Records
  <1>12. CASE CommitCandidate(s)
    BY <1>1, <1>2, <1>12 DEF CommitCandidate, ChildGoes, ChildMoves, Live, Ended
  <1>13. CASE ChildStops(s)
    <2>1. CASE ChildIsKilled(s)
      BY <1>1, <1>2, <1>13, <2>1 DEF ChildStops, ChildIsKilled, ChildMoves, Live, Ended
    <2>2. CASE ChildIsInterrupted(s)
      BY <1>1, <1>2, <1>13, <2>2 DEF ChildStops, ChildIsInterrupted, Leaving, ChildMoves, Live, Ended, Places
    <2> QED BY <1>13, <2>1, <2>2 DEF ChildStops
  <1> QED BY <1>3, <1>4, <1>5, <1>6, <1>7, <1>8, <1>9, <1>10, <1>11, <1>12, <1>13 DEF ChildStep

LEMMA ChildKeeps ==
  ASSUME PoolInvariant, NEW s \in Seeds, ChildStep(s) \/ ChildStops(s) PROVE PoolInvariant'
  <1>1. /\ UNCHANGED <<lock, step, rows, experiment, manifest, summary, risk, canonical, opened>>
        /\ stops' \in 0..MaxStops
    <2>1. UNCHANGED <<runnerVars, diskVars, opened>>
      BY DEF ChildStep, ChildStops
    <2>2. stops' = stops \/ (stops < MaxStops /\ stops' = stops + 1)
      BY DEF ChildStep, ChildStops
    <2>3. stops' \in 0..MaxStops
      BY <2>2, Numbers DEF PoolInvariant, Types
    <2> QED BY <2>1, <2>3 DEF runnerVars, diskVars
  <1>2. PICK c \in Live \cup Ended, d \in Places, w \in Records :
          /\ child[s] \in Live
          /\ child' = [child EXCEPT ![s] = c]
          /\ dataset' = [dataset EXCEPT ![s] = d]
          /\ record' = [record EXCEPT ![s] = w]
          /\ w # "none" => c \in {"recorded"} \cup Ended
          /\ record[s] # "none" => w = record[s] /\ (d = dataset[s] \/ c = "interrupted")
    BY ChildStepMoves DEF PoolInvariant, ChildMoves
  <1>3. Types'
    BY <1>1, <1>2 DEF PoolInvariant, Types
  <1>4. \A t \in Seeds : /\ child'[t] = IF t = s THEN c ELSE child[t]
                         /\ dataset'[t] = IF t = s THEN d ELSE dataset[t]
                         /\ record'[t] = IF t = s THEN w ELSE record[t]
    BY <1>2 DEF PoolInvariant, Types
  <1>5. child[s] # "none" /\ child[s] # "interrupted" /\ c # "none"
    BY <1>2 DEF Live, Ended
  <1>6. Children'
    BY <1>1, <1>2, <1>4, <1>5 DEF PoolInvariant, Children
  <1>7. \A x : Truthful(x) => Says(x, record', dataset', child')
    <2>1. \A t \in Seeds : record[t] # "none" =>
            /\ record'[t] = record[t]
            /\ child[t] = "interrupted" => child'[t] = "interrupted"
            /\ dataset'[t] = dataset[t] \/ child'[t] = "interrupted"
      BY <1>2, <1>4, <1>5
    <2> QED BY <2>1, StillSaid DEF Truthful
  <1>8. Told'
    BY <1>1, <1>7 DEF PoolInvariant, Told, Truthful
  <1>9. Advance'
    <2> SUFFICES ASSUME NEW r \in Runners PROVE Fitting(step[r], rows[r])'
      BY DEF Advance
    <2>1. Fitting(step[r], rows[r])
      BY DEF PoolInvariant, Advance
    <2>2. step[r] = "spawn" => child'[Len(manifest) + 1] = "none"
      <3> SUFFICES ASSUME step[r] = "spawn" PROVE child'[Len(manifest) + 1] = "none"
        OBVIOUS
      <3>1. child[Len(manifest) + 1] = "none" /\ Len(manifest) < LastSeed
        BY <2>1 DEF Fitting
      <3>2. Len(manifest) + 1 \in Seeds
        BY <3>1, WorksOn, Numbers DEF Seeds
      <3> QED BY <1>4, <1>5, <3>1, <3>2
    <2> QED BY <1>1, <2>1, <2>2 DEF Fitting, Settled
  <1>10. Locked' /\ Begun' /\ NotCreating' /\ Disk'
    BY <1>1 DEF PoolInvariant, Locked, Begun, NotCreating, Disk, Settled
  <1> QED BY <1>3, <1>6, <1>8, <1>9, <1>10 DEF PoolInvariant

-----------------------------------------------------------------------------
(* Theorems *)

LEMMA StutterKeeps == ASSUME PoolInvariant, UNCHANGED poolVars PROVE PoolInvariant'
  <1>1. /\ UNCHANGED <<lock, step, rows, experiment, manifest, summary, risk, canonical>>
        /\ UNCHANGED <<opened, dataset, record, child, stops>>
    BY DEF poolVars, runnerVars, diskVars, seedVars
  <1>2. Types' /\ Locked' /\ Children'
    BY <1>1 DEF PoolInvariant, Types, Locked, Children
  <1>3. Told'
    BY <1>1 DEF PoolInvariant, Told, Truthful
  <1>4. Advance'
    BY <1>1 DEF PoolInvariant, Advance, Fitting, Settled
  <1>5. Begun' /\ NotCreating' /\ Disk'
    BY <1>1 DEF PoolInvariant, Begun, NotCreating, Disk, Settled
  <1> QED BY <1>2, <1>3, <1>4, <1>5 DEF PoolInvariant

LEMMA InvariantStep == ASSUME PoolInvariant, [Next]_poolVars PROVE PoolInvariant'
  <1>1. ASSUME NEW r \in Runners, StartFresh(r) \/ StartResume(r) \/ Runner(r) \/ RunnerStops(r)
        PROVE  PoolInvariant'
    BY <1>1, StartKeeps, CreateKeeps, LoadKeeps, ChooseKeeps, OpenKeeps, SpawnKeeps, ReapKeeps,
       WriteManifestKeeps, WriteSummaryKeeps, FailGateKeeps, PublishRiskKeeps,
       PublishCanonicalKeeps, PublishSummaryKeeps, RunnerStopsKeeps DEF Runner
  <1>2. ASSUME NEW s \in Seeds, ChildStep(s) \/ ChildStops(s) PROVE PoolInvariant'
    BY <1>2, ChildKeeps
  <1>3. CASE UNCHANGED poolVars
    BY <1>3, StutterKeeps
  <1> QED BY <1>1, <1>2, <1>3 DEF Next

\* Runners, children and files keep in step, wherever the processes are stopped.
THEOREM PoolSafe == Spec => []PoolInvariant
  <1>1. Init => PoolInvariant
    BY InvariantInit
  <1>2. PoolInvariant /\ [Next]_poolVars => PoolInvariant'
    BY InvariantStep
  <1> QED BY <1>1, <1>2, PTL DEF Spec

\* Whatever a derived file says of a seed is what its record says, and the record is fit:
\* for any number of runners and seeds, and however often they are stopped.
THEOREM FilesTellTheRecords == Spec => []PublishedIsRecorded
  <1>1. PoolInvariant => PublishedIsRecorded
    <2> SUFFICES ASSUME PoolInvariant, NEW os \in {manifest, summary.rows, risk, canonical},
                        NEW s \in DOMAIN os
                 PROVE  os[s] = record[s] /\ (Fit(s) \/ child[s] = "interrupted")
      BY DEF PublishedIsRecorded
    <2>1. Says(os, record, dataset, child)
      BY DEF PoolInvariant, Told, Truthful
    <2>2. DOMAIN os = 1..Len(os)
      BY <2>1, Length DEF Says
    <2> QED BY <2>1, <2>2 DEF Says, Fit
  <1> QED BY <1>1, PoolSafe, PTL

\* A seed is executed at most once, and its record never changes, whoever resumes whenever.
THEOREM EachSeedRunsOnce == Spec => SeedRunsOnce
  <1> DEFINE Once == \A s \in Seeds :
                       /\ child'[s] = "started" => child[s] \in {"none", "started"}
                       /\ record[s] # "none" => record'[s] = record[s]
  <1>1. PoolInvariant /\ [Next]_poolVars => [Once]_poolVars
    <2> SUFFICES ASSUME PoolInvariant, Next PROVE Once
      OBVIOUS
    <2>1. ASSUME NEW r \in Runners, Spawn(r) PROVE Once
      <3>1. record' = record /\ child' = [child EXCEPT ![Now(r)] = "started"] /\ step[r] = "spawn"
        BY <2>1 DEF Spawn, At
      <3>2. Now(r) = Len(manifest) + 1 /\ child[Len(manifest) + 1] = "none"
        BY <3>1, AtWork DEF Fitting
      <3> QED BY <3>1, <3>2 DEF PoolInvariant, Types
    <2>2. ASSUME NEW r \in Runners, StartFresh(r) \/ StartResume(r) \/ Runner(r) \/ RunnerStops(r),
                 ~Spawn(r)
          PROVE  Once
      <3>1. UNCHANGED <<record, child>>
        BY <2>2 DEF StartFresh, StartResume, Starts, Runner, Create, Load, Choose, Open, Reap,
           WriteManifest, WriteSummary, FailGate, PublishRisk, PublishCanonical, PublishSummary,
           RunnerStops, seedVars
      <3> QED BY <3>1
    <2>3. ASSUME NEW s \in Seeds, ChildStep(s) \/ ChildStops(s) PROVE Once
      <3>1. PICK c \in Live \cup Ended, w \in Records :
              /\ child' = [child EXCEPT ![s] = c] /\ record' = [record EXCEPT ![s] = w]
              /\ c # "started" /\ (record[s] # "none" => w = record[s])
        BY <2>3, ChildStepMoves DEF PoolInvariant, ChildMoves
      <3> QED BY <3>1 DEF PoolInvariant, Types
    <2> QED BY <2>1, <2>2, <2>3 DEF Next
  <1> QED BY <1>1, PoolSafe, PTL DEF Spec, SeedRunsOnce

\* A resume removes every temporary file that an interrupted write left in the output root.
Sweepable == temps \subseteq DerivedFiles

\* Every atomic write in the output root is of a file whose leftovers a resume removes.
LEMMA LeftoversAreSwept == Spec => []Sweepable
  <1> USE DEF Sweepable
  <1>1. Init => Sweepable
    BY DEF Init
  <1>2. Sweepable /\ [Next]_poolVars => Sweepable'
    <2> SUFFICES ASSUME Sweepable, [Next]_poolVars
                 PROVE  temps' \subseteq DerivedFiles
      BY DEF Sweepable, DerivedFiles
    <2>1. ASSUME NEW r \in Runners, StartFresh(r) \/ StartResume(r) \/ Runner(r)
          PROVE  temps' \in {temps, temps \ DerivedFiles}
      BY <2>1 DEF StartFresh, StartResume, Starts, Runner, Create, Load, Choose, Open, Spawn, Reap,
         WriteManifest, WriteSummary, FailGate, PublishRisk, PublishCanonical, PublishSummary, diskVars
    <2>2. ASSUME NEW r \in Runners, RunnerStops(r)
          PROVE  temps' \subseteq DerivedFiles
      <3>1. Writing(r) \subseteq DerivedFiles
        BY DEF Writing, DerivedFiles
      <3>2. PICK left \in SUBSET Writing(r) : temps' = temps \cup left
        BY <2>2 DEF RunnerStops
      <3> QED BY <3>1, <3>2
    <2>3. ASSUME NEW s \in Seeds, ChildStep(s) \/ ChildStops(s)
          PROVE  temps' = temps
      BY <2>3 DEF ChildStep, ChildStops, diskVars
    <2>4. CASE UNCHANGED poolVars
      BY <2>4 DEF poolVars, diskVars
    <2> QED BY <2>1, <2>2, <2>3, <2>4 DEF Next
  <1> QED BY <1>1, <1>2, PTL DEF Spec

\* Wherever the processes were stopped, a resume goes on, unless a candidate is damaged.
THEOREM ResumesWhenUndamaged == Spec => []ResumeNeverStuck
  <1>1. PoolInvariant /\ Sweepable => ResumeNeverStuck
    <2> SUFFICES ASSUME PoolInvariant, temps \subseteq DerivedFiles,
                        experiment = "written", lock = NoRunner, ~Blocked,
                        \A s \in Seeds : child[s] \notin Live
                 PROVE  Resumable
      BY DEF ResumeNeverStuck, Sweepable
    <2>1. /\ manifest \in Seq(Outcome) /\ Len(manifest) \in Nat /\ Len(manifest) <= LastSeed
          /\ Truthful(manifest) /\ Truthful(risk) /\ Truthful(canonical) /\ Truthful(summary.rows)
      BY Length DEF PoolInvariant, Told, Truthful, Says
    <2>2. \A r \in Runners : step[r] = "off"
      BY Numbers DEF PoolInvariant, Locked
    <2>3. \A s \in opened : s \in Seeds /\ record[s] # "none" /\ Fit(s)
      BY <2>2 DEF Blocked, Damaged, PoolInvariant, Types
    <2>4. Recorded = opened
      BY <2>3 DEF Recorded, PoolInvariant, Children, Ended
    <2>5. PICK n \in {Len(manifest), Len(manifest) + 1} : opened = 1..n
      BY DEF PoolInvariant, Disk
    <2>6. n \in Nat /\ n \in 0..LastSeed
      <3>1. n \in Nat
        BY <2>1, <2>5
      <3>2. n = 0 \/ n \in Seeds
        BY <2>3, <2>5, <3>1
      <3> QED BY <3>1, <3>2, Numbers DEF Seeds
    <2>7. Existing(n)
      BY <2>3, <2>4, <2>5 DEF Existing
    <2> PICK os : os = Rows(n)
      OBVIOUS
    <2>8. Truthful(os) /\ Len(os) = n /\ os \in Seq(Outcome)
      BY <2>6, <2>7, ExistingRows
    <2>9. Len(manifest) = n => manifest = os
      BY <2>1, <2>8, SameRows DEF Truthful
    <2>10. manifest = SubSeq(os, 1, Len(manifest))
      <3>1. \A i \in 1..Len(manifest) : manifest[i] = os[i]
        <4> SUFFICES ASSUME NEW i \in 1..Len(manifest) PROVE manifest[i] = os[i]
          OBVIOUS
        <4>1. i \in 1..Len(os)
          BY <2>1, <2>5, <2>8
        <4> QED BY <2>1, <2>8, <4>1 DEF Truthful, Says
      <3>2. Len(manifest) <= Len(os) /\ Len(os) \in Nat
        BY <2>1, <2>5, <2>6, <2>8
      <3> QED BY <2>1, <2>8, <3>1, <3>2
    <2>11. Passes(manifest) => manifest = os
      <3>1. Passes(manifest) => Len(manifest) = LastSeed
        BY DEF Passes
      <3> QED BY <2>5, <2>6, <2>9, <3>1, Numbers
    <2>12. risk # <<>> => Passes(os) /\ manifest = os /\ risk = os
      BY <2>1, <2>11, SameRows DEF PoolInvariant, Disk, Truthful
    <2>13. canonical # <<>> => risk # <<>> /\ canonical = os
      BY <2>1, <2>12, SameRows DEF PoolInvariant, Disk, Truthful
    <2>14. summary = [state |-> summary.state, rows |-> summary.rows] /\ summary.state \in States
           /\ summary.rows \in Seq(Outcome) /\ Len(summary.rows) \in Nat
      BY Length DEF PoolInvariant, Types
    <2>15. summary = NoSummary => Len(os) <= 1
      <3> SUFFICES ASSUME summary = NoSummary PROVE n <= 1
        BY <2>8
      <3>1. opened \subseteq 1..1
        BY DEF NoSummary, PoolInvariant, Disk
      <3>2. n = 0 \/ n \in opened
        BY <2>5, <2>6
      <3> QED BY <3>1, <3>2
    <2>16. CASE summary.state = "absent"
      BY <2>1, <2>5, <2>8, <2>10, <2>12, <2>13, <2>15, <2>16, <2>6, <2>7 DEF PoolInvariant, Disk, Derived, Resumable
    <2>17. ASSUME summary.state # "absent" PROVE summary \in Snapshots(os)
      <3>1. CASE summary.state = "progress"
        <4>1. CASE Len(summary.rows) = Len(manifest)
          <5>1. summary.rows = manifest
            BY <2>1, <4>1, SameRows DEF Truthful
          <5>2. summary = Progress(manifest)
            BY <2>14, <3>1, <5>1 DEF Progress
          <5> QED BY <5>2 DEF Snapshots
        <4>2. CASE Len(summary.rows) + 1 = Len(manifest) /\ risk = <<>> /\ opened = 1..Len(manifest)
          <5>1. n = Len(manifest) /\ manifest = os /\ os # <<>>
            <6>1. n = Len(manifest)
              BY <2>1, <2>5, <2>6, <4>2, Upto
            <6>2. Len(manifest) # 0
              BY <2>14, <4>2
            <6> QED BY <2>1, <2>9, <6>1, <6>2, Length
          <5>2. summary.rows = SubSeq(manifest, 1, Len(manifest) - 1)
            <6>1. \A i \in 1..Len(summary.rows) : summary.rows[i] = manifest[i]
              <7> SUFFICES ASSUME NEW i \in 1..Len(summary.rows) PROVE summary.rows[i] = manifest[i]
                OBVIOUS
              <7>1. i \in 1..Len(manifest)
                BY <2>1, <2>14, <4>2
              <7> QED BY <2>1, <7>1 DEF Truthful, Says
            <6>2. Len(manifest) - 1 = Len(summary.rows) /\ Len(summary.rows) <= Len(manifest)
              BY <2>1, <2>14, <4>2
            <6> QED BY <2>1, <2>14, <6>1, <6>2
          <5>3. summary = Progress(SubSeq(manifest, 1, Len(manifest) - 1))
            BY <2>14, <3>1, <5>2 DEF Progress
          <5> QED BY <4>2, <5>1, <5>3 DEF Snapshots
        <4> QED BY <3>1, <4>1, <4>2 DEF PoolInvariant, Disk
      <3>2. CASE Settled
        <4>1. Len(summary.rows) = Len(manifest) /\ Len(manifest) = LastSeed
          BY <3>2 DEF PoolInvariant, Disk
        <4>2. n = LastSeed /\ manifest = os /\ summary.rows = os
          <5>1. n = Len(manifest)
            BY <2>5, <2>6, <4>1, Numbers
          <5> QED BY <2>1, <2>8, <2>9, <4>1, <5>1, SameRows DEF Truthful
        <4>3. CASE summary.state = "complete"
          <5>1. Passes(os) /\ risk # <<>> /\ canonical # <<>>
            BY <4>2, <4>3 DEF PoolInvariant, Disk
          <5>2. summary = Complete(os)
            BY <2>14, <4>2, <4>3 DEF Complete
          <5> QED BY <5>1, <5>2 DEF Snapshots
        <4>4. CASE summary.state = "gate_failed"
          <5>1. ~Passes(os) /\ Len(os) = LastSeed
            BY <2>8, <4>2, <4>4 DEF PoolInvariant, Disk
          <5>2. summary = GateFailed(os)
            BY <2>14, <4>2, <4>4 DEF GateFailed
          <5> QED BY <4>2, <5>1, <5>2 DEF Snapshots
        <4> QED BY <3>2, <4>3, <4>4 DEF Settled
      <3> QED BY <2>14, <2>17, <3>1, <3>2 DEF States, Settled
    <2>18. CASE summary.state # "absent"
      <3>1. Len(manifest) = Len(os) \/ Len(manifest) + 1 = Len(os)
        BY <2>5, <2>8
      <3>2. Derived(os)
        BY <2>10, <2>12, <2>13, <2>15, <2>17, <2>18, <3>1 DEF Derived
      <3> QED BY <2>6, <2>7, <3>2 DEF Resumable
    <2> QED BY <2>16, <2>18
  <1> QED BY <1>1, PoolSafe, LeftoversAreSwept, PTL

-----------------------------------------------------------------------------
(* The promise of a frozen population *)

Verdict == IF summary.state \in {"gate_failed", "complete"} THEN summary.state ELSE "open"

LEMMA JudgedByGate ==
  ASSUME NEW os \in Seq(Outcome), Len(os) = LastSeed
  PROVE  /\ Frozen!Judged(os) = "complete" <=> Passes(os)
         /\ Frozen!Judged(os) = "gate_failed" <=> ~Passes(os)
  <1>1. Eligible(os) \in Nat
    <2>1. DOMAIN os = 1..Len(os) /\ Len(os) \in Int
      BY Length
    <2>2. IsFiniteSet(1..Len(os))
      BY <2>1, FS_Interval
    <2>3. {s \in DOMAIN os : os[s] = "accepted"} \in SUBSET (1..Len(os))
      BY <2>1
    <2>4. IsFiniteSet({s \in DOMAIN os : os[s] = "accepted"})
      BY <2>2, <2>3, FS_Subset
    <2> QED BY <2>4, FS_CardinalityType DEF Eligible
  <1>2. Frozen!Eligible(os) = Eligible(os)
    BY DEF Frozen!Eligible, Eligible, Frozen!Cardinality, Cardinality
  <1>3. Gate \in Nat
    BY Numbers
  <1>4. Eligible(os) < Gate <=> ~(Eligible(os) >= Gate)
    BY <1>1, <1>3
  <1> QED BY <1>2, <1>4 DEF Frozen!Judged, Passes

LEMMA CountsNext ==
  ASSUME PoolInvariant, NEW r \in Runners, WriteManifest(r)
  PROVE  Frozen!Count \/ UNCHANGED <<manifest, Verdict>>
  <1> PICK os : os = rows[r]
    OBVIOUS
  <1>1. step[r] = "manifest" /\ manifest' = os /\ summary' = summary
    BY DEF WriteManifest, At
  <1>2. /\ Truthful(os) /\ Fitting("manifest", os) /\ Truthful(manifest)
        /\ os \in Seq(Outcome) /\ manifest \in Seq(Outcome)
        /\ Len(os) \in Nat /\ Len(os) <= LastSeed /\ Len(manifest) \in Nat
        /\ (Len(os) = Len(manifest) => os = manifest)
    BY <1>1, WorksOn DEF PoolInvariant, Told
  <1>3. Verdict' = Verdict
    BY <1>1 DEF Verdict
  <1>4. CASE Len(os) = Len(manifest)
    BY <1>1, <1>2, <1>3, <1>4
  <1>5. CASE Len(os) = Len(manifest) + 1
    <2>1. \A i \in 1..Len(manifest) : os[i] = manifest[i]
      <3> SUFFICES ASSUME NEW i \in 1..Len(manifest) PROVE os[i] = manifest[i]
        OBVIOUS
      <3>1. i \in 1..Len(os)
        BY <1>2, <1>5
      <3> QED BY <1>2, <3>1 DEF Truthful, Says
    <2>2. os[Len(os)] \in Outcome
      BY <1>2, <1>5
    <2>3. os = Append(manifest, os[Len(os)])
      BY <1>2, <1>5, <2>1
    <2>4. Len(manifest) < LastSeed
      BY <1>2, <1>5, Numbers
    <2>5. \E o \in Frozen!Outcomes : manifest' = Append(manifest, o)
      BY <1>1, <2>2, <2>3 DEF Frozen!Outcomes, Outcome
    <2> QED BY <1>3, <2>4, <2>5 DEF Frozen!Count, Verdict
  <1> QED BY <1>2, <1>4, <1>5 DEF Fitting

LEMMA JudgesOnce ==
  ASSUME PoolInvariant, NEW r \in Runners,
         \/ WriteSummary(r)
         \/ FailGate(r)
         \/ PublishSummary(r)
  PROVE  Frozen!Judge \/ UNCHANGED <<manifest, Verdict>>
  <1> PICK os : os = rows[r]
    OBVIOUS
  <1>1. manifest' = manifest /\ manifest \in Seq(Outcome)
    BY DEF WriteSummary, FailGate, PublishSummary, PoolInvariant, Told, Truthful, Says
  <1>2. summary.state \in States
    BY DEF PoolInvariant, Types
  <1>3. CASE WriteSummary(r)
    <2>1. step[r] = "summary" /\ summary' = Progress(os)
      BY <1>3 DEF WriteSummary, At
    <2>2. ~Settled
      BY <2>1, AtWork DEF Fitting
    <2> QED BY <1>1, <2>1, <2>2 DEF Progress, Verdict, Settled
  <1>4. CASE FailGate(r)
    <2>1. /\ step[r] = "next" /\ summary' = GateFailed(os) /\ Len(os) = LastSeed /\ ~Passes(os)
      BY <1>4 DEF FailGate, At
    <2>2. os = manifest
      BY <2>1, AtWork
    <2>3. Verdict' = "gate_failed" /\ Frozen!Judged(manifest) = "gate_failed"
      BY <1>1, <2>1, <2>2, JudgedByGate DEF GateFailed, Verdict
    <2>4. Verdict = "open" \/ Verdict = "gate_failed"
      BY <2>1, <2>2 DEF PoolInvariant, Disk, Verdict
    <2> QED BY <1>1, <2>1, <2>2, <2>3, <2>4 DEF Frozen!Judge, Verdict
  <1>5. CASE PublishSummary(r)
    <2>1. step[r] = "complete" /\ summary' = Complete(os)
      BY <1>5 DEF PublishSummary, At
    <2>2. os = manifest /\ Passes(manifest)
      BY <2>1, AtWork DEF Fitting
    <2>3. Len(manifest) = LastSeed
      BY <2>2 DEF Passes
    <2>4. Verdict' = "complete" /\ Frozen!Judged(manifest) = "complete"
      BY <1>1, <2>1, <2>2, <2>3, JudgedByGate DEF Complete, Verdict
    <2>5. Verdict = "open" \/ Verdict = "complete"
      BY <2>2 DEF PoolInvariant, Disk, Verdict
    <2> QED BY <1>1, <2>3, <2>4, <2>5 DEF Frozen!Judge, Verdict
  <1> QED BY <1>3, <1>4, <1>5

\* The pool is a frozen population: outcomes are counted once, in the order of the seeds, and
\* the verdict is given once and on all of them, whoever resumes and however often.
THEOREM PoolKeepsPopulation == Spec => KeepsPopulation
  <1>1. Init => Frozen!PopulationInit
    BY DEF Init, Frozen!PopulationInit, NoSummary
  <1>2. PoolInvariant /\ [Next]_poolVars => [Frozen!Count \/ Frozen!Judge]_<<manifest, Verdict>>
    <2> SUFFICES ASSUME PoolInvariant, [Next]_poolVars
                 PROVE  Frozen!Count \/ Frozen!Judge \/ UNCHANGED <<manifest, Verdict>>
      OBVIOUS
    <2>1. ASSUME UNCHANGED <<manifest, summary>>
          PROVE  UNCHANGED <<manifest, Verdict>>
      BY <2>1 DEF Verdict
    <2>2. ASSUME NEW r \in Runners, StartFresh(r) \/ StartResume(r) \/ Runner(r) \/ RunnerStops(r)
          PROVE  Frozen!Count \/ Frozen!Judge \/ UNCHANGED <<manifest, Verdict>>
      <3>1. CASE WriteManifest(r)
        BY <3>1, CountsNext
      <3>2. CASE WriteSummary(r) \/ FailGate(r) \/ PublishSummary(r)
        BY <3>2, JudgesOnce
      <3>3. CASE /\ ~WriteManifest(r) /\ ~WriteSummary(r) /\ ~FailGate(r) /\ ~PublishSummary(r)
        <4>1. UNCHANGED <<manifest, summary>>
          BY <2>2, <3>3 DEF StartFresh, StartResume, Starts, Runner, Create, Load, Choose, Open,
             Spawn, Reap, PublishRisk, PublishCanonical, RunnerStops, diskVars
        <4> QED BY <2>1, <4>1
      <3> QED BY <3>1, <3>2, <3>3
    <2>3. ASSUME NEW s \in Seeds, ChildStep(s) \/ ChildStops(s)
          PROVE  UNCHANGED <<manifest, Verdict>>
      <3>1. UNCHANGED <<manifest, summary>>
        BY <2>3 DEF ChildStep, ChildStops, diskVars
      <3> QED BY <2>1, <3>1
    <2>4. CASE UNCHANGED poolVars
      <3>1. UNCHANGED <<manifest, summary>>
        BY <2>4 DEF poolVars, diskVars
      <3> QED BY <2>1, <3>1
    <2> QED BY <2>2, <2>3, <2>4 DEF Next
  <1>3. [Frozen!Count \/ Frozen!Judge]_<<manifest, Verdict>>
          <=> [Frozen!Count \/ Frozen!Judge]_Frozen!populationVars
    BY DEF Frozen!populationVars, Verdict
  <1> QED BY <1>1, <1>2, <1>3, PoolSafe, PTL DEF Spec, KeepsPopulation, Frozen!Population
=============================================================================
