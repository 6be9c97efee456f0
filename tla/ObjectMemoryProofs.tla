-------------------------- MODULE ObjectMemoryProofs --------------------------
(***************************************************************************)
(* Theorems about the object memory and its verifier, for every set of     *)
(* images and safety contexts and every value of the configuration.  The   *)
(* window, the decision a caller keeps, the memory and the latest report   *)
(* each have an invariant of their own; MemoryInvariant is all four.       *)
(***************************************************************************)
EXTENDS ObjectMemory, TLAPS

\* What an ObjectMeasurement can be: its image was taken at the tick or before, not before zero.
Measurements == {m \in [image : Images, at : Nat, rgbAt : Nat] : m.rgbAt = m.at - m.image.lag}

\* An empty reason list is the verdict of a full window.
DecisionOK(d) == d.measurement \in Measurements /\ (d.reasons = {} => d.count >= MinFrames)

\* Two frames that follow each other in a window.
Consecutive(one, two) == two.at - one.at \in 1..MaxGap /\ two.rgbAt - one.rgbAt \in 1..MaxGap

\* The window, with its high-water marks: the latest frame has been consumed, and no later image.
WindowOK(w) ==
  /\ w \in [frames : Seq(Measurements), last : Nat \cup {Never}, rgb : Nat \cup {Never}]
  /\ Len(w.frames) <= MinFrames
  /\ Spread(w.frames)
  /\ w.frames # <<>> => /\ w.frames[Len(w.frames)].at = w.last
                        /\ w.frames[Len(w.frames)].rgbAt = w.rgb
  /\ \A i \in 1..(Len(w.frames) - 1) : Consecutive(w.frames[i], w.frames[i + 1])

\* The reasons a call can force on a state, and all that a state can carry.
Forcing == SafetyReasons \cup Irreversible \cup Provenance \cup {"measurement_conflict"}
StateReasons == Forcing \cup {"memory_uninitialized", "memory_stale", "memory_uncertain"}

States ==
  [mode : Modes, position : Positions \cup {NoPosition}, variance : Nat, observedAt : Nat \cup {Never},
   stateAt : Nat, observable : BOOLEAN, accepted : Nat, reasons : SUBSET StateReasons]

Since(state) == state.stateAt - state.observedAt

\* A state of the memory: the mode says what the reasons say, a position has a history, and its
\* variance has grown with all the time since its image, also while the memory was invalid.
MemoryOK(state) ==
  /\ state \in States
  /\ state.observedAt <= state.stateAt
  /\ state.position = NoPosition <=> state.accepted = 0
  /\ state.position # NoPosition => Growth * Since(state) <= state.variance
  /\ state.mode = "uninitialized" <=> state.reasons = {"memory_uninitialized"}
  /\ state.mode = "uninitialized" => state.position = NoPosition
  /\ state.mode = "free_static" <=> state.reasons = {}
  /\ Valid(state) => /\ state.position # NoPosition
                     /\ Since(state) <= MaxAge
                     /\ state.variance <= MaxVariance

ReportOK(u) ==
  ContactReady(u) => u.safety = {} /\ Since(u.state) <= MaxSkew /\ u.count >= MinFrames

MemoryInvariant ==
  /\ now \in Nat
  /\ WindowOK(window)
  /\ pending # NoDecision => DecisionOK(pending)
  /\ MemoryOK(memory)
  /\ ReportOK(update)

-----------------------------------------------------------------------------
(* Images and configuration *)

LEMMA Limits ==
  /\ MaxGap \in Nat /\ MaxSpread \in Nat /\ MaxSkew \in Nat /\ MaxAge \in Nat
  /\ MaxInnovation \in Nat /\ MaxVariance \in Nat /\ MaxPending \in Nat
  /\ MinFrames \in Nat \ {0} /\ Growth \in Nat /\ Positions \subseteq Nat
  BY ObjectStateAssumption DEF ObjectStateAssumption

LEMMA ImageFacts ==
  ASSUME NEW image \in Images
  PROVE  /\ image.position \in Positions \cup {NoPosition} /\ image.position \in Int
         /\ image.variance \in Nat /\ image.lag \in Nat /\ image.skew \in Nat
         /\ image.faults \in SUBSET Faults
         /\ image.lag <= image.skew
         /\ image.position = NoPosition => "geometry_invalid" \in image.faults
  <1>1. image \in ImageType /\ Positions \subseteq Nat
    BY ObjectStateAssumption DEF ObjectStateAssumption
  <1>2. image.lag <= image.skew /\ (image.position = NoPosition => "geometry_invalid" \in image.faults)
    BY ObjectStateAssumption DEF ObjectStateAssumption
  <1>3. /\ image.position \in Positions \cup {NoPosition}
        /\ image.variance \in Nat /\ image.lag \in Nat /\ image.skew \in Nat
        /\ image.faults \in SUBSET Faults
    BY <1>1 DEF ImageType
  <1>4. image.position \in Int
    <2>1. Positions \subseteq Nat /\ image.position \in Positions \cup {NoPosition}
      BY <1>1, <1>3
    <2>2. NoPosition \in Int
      BY DEF NoPosition
    <2>3. PICK q \in Positions \cup {NoPosition} : image.position = q
      BY <2>1
    <2>4. q \in Nat \/ q = NoPosition
      BY <2>1
    <2>5. q \in Int
      BY <2>2, <2>4
    <2> QED BY <2>3, <2>5
  <1> QED BY <1>2, <1>3, <1>4

LEMMA MeasuredType ==
  ASSUME NEW image \in Images, NEW t \in Nat, image.lag <= t
  PROVE  Measured(image, t) \in Measurements /\ Measured(image, t).at = t
  <1>1. t - image.lag \in Nat
    BY ImageFacts
  <1> QED BY <1>1 DEF Measured, Measurements

LEMMA MeasurementFacts ==
  ASSUME NEW m \in Measurements
  PROVE  /\ m.image \in Images /\ m.at \in Nat /\ m.rgbAt \in Nat
         /\ m.at - m.rgbAt = m.image.lag /\ m.rgbAt <= m.at
  <1>1. m.image \in Images /\ m.at \in Nat /\ m.rgbAt \in Nat /\ m.rgbAt = m.at - m.image.lag
    BY DEF Measurements
  <1>2. m.image.lag \in Nat
    BY <1>1, ImageFacts
  <1> QED BY <1>1, <1>2

\* Against an image that nobody rejects, nothing is held.
LEMMA CleanImage ==
  ASSUME NEW m \in Measurements, ImageReasons(m) = {}
  PROVE  /\ m.image.position # NoPosition
         /\ m.image.skew <= MaxSkew
         /\ m.at - m.rgbAt <= MaxAge
         /\ m.at - m.rgbAt <= MaxSkew
  <1>1. /\ m.image.faults = {}
        /\ When(m.image.skew > MaxSkew, "sensor_timestamp_unsynchronized") = {}
        /\ When(m.at - m.rgbAt > MaxAge, "measurement_stale") = {}
    BY DEF ImageReasons
  <1>2. ~(m.image.skew > MaxSkew) /\ ~(m.at - m.rgbAt > MaxAge)
    BY <1>1 DEF When
  <1>3. /\ m.image \in Images /\ m.at \in Nat /\ m.rgbAt \in Nat
        /\ m.at - m.rgbAt = m.image.lag
    BY MeasurementFacts
  <1>4. /\ m.image.skew \in Nat /\ m.image.lag \in Nat /\ m.image.lag <= m.image.skew
        /\ m.image.position = NoPosition => "geometry_invalid" \in m.image.faults
    BY <1>3, ImageFacts
  <1> QED BY <1>1, <1>2, <1>3, <1>4, Limits

-----------------------------------------------------------------------------
(* The window *)

LEMMA OneMore ==
  ASSUME NEW S, NEW seq \in Seq(S), NEW x \in S
  PROVE  /\ Append(seq, x) \in Seq(S)
         /\ Len(seq) \in Nat
         /\ Len(Append(seq, x)) = Len(seq) + 1
         /\ \A i \in 1..Len(seq) + 1 :
              Append(seq, x)[i] = IF i = Len(seq) + 1 THEN x ELSE seq[i]
  OBVIOUS

LEMMA NoneYet == ASSUME NEW S PROVE <<>> \in Seq(S) /\ Len(<<>>) = 0
  OBVIOUS

LEMMA Alone == ASSUME NEW S, NEW x \in S PROVE <<x>> \in Seq(S) /\ Len(<<x>>) = 1 /\ <<x>>[1] = x
  OBVIOUS

\* The latest frames of a window that may be one too long: the same frames, shifted.
LEMMA LastFramesAre ==
  ASSUME NEW S, NEW seq \in Seq(S), Len(seq) \in 1..MinFrames + 1
  PROVE  \E k \in Nat :
           /\ LastFrames(seq) \in Seq(S)
           /\ Len(LastFrames(seq)) = Len(seq) - k
           /\ Len(LastFrames(seq)) \in 1..MinFrames
           /\ \A i \in 1..Len(LastFrames(seq)) : LastFrames(seq)[i] = seq[i + k]
  <1> DEFINE k == IF Len(seq) > MinFrames THEN Len(seq) - MinFrames ELSE 0
             a == IF Len(seq) > MinFrames THEN Len(seq) - MinFrames + 1 ELSE 1
             n == Len(seq)
             last == SubSeq(seq, a, n)
  <1>1. MinFrames \in Nat \ {0} /\ n \in Nat
    BY Limits
  <1>2. k \in Nat /\ a = k + 1 /\ a \in 1..n /\ n - k \in 1..MinFrames
    BY <1>1
  <1>3. LastFrames(seq) = last
    BY DEF LastFrames
  <1>4. last \in Seq(S) /\ Len(last) = n - k /\ \A i \in 1..n - k : last[i] = seq[i + k]
    <2> HIDE DEF a, k
    <2>1. last \in Seq(S) /\ Len(last) = n - a + 1
      BY <1>1, <1>2
    <2>2. \A i \in 1..n - a + 1 : last[i] = seq[a + i - 1]
      BY <1>1, <1>2
    <2>3. n - a + 1 = n - k /\ \A i \in 1..n - k : a + i - 1 = i + k
      BY <1>1, <1>2
    <2> QED BY <2>1, <2>2, <2>3
  <1> QED BY <1>2, <1>3, <1>4

\* A window of which the later frames are kept is a window again.
LEMMA ShorterWindow ==
  ASSUME NEW seq \in Seq(Measurements), Len(seq) \in 1..MinFrames + 1, Spread(seq),
         \A i \in 1..(Len(seq) - 1) : Consecutive(seq[i], seq[i + 1]),
         NEW last, NEW rgb, seq[Len(seq)].at = last, seq[Len(seq)].rgbAt = rgb,
         last \in Nat, rgb \in Nat
  PROVE  WindowOK([frames |-> LastFrames(seq), last |-> last, rgb |-> rgb])
  <1> DEFINE f == LastFrames(seq)
  <1>1. PICK k \in Nat : /\ f \in Seq(Measurements)
                          /\ Len(f) = Len(seq) - k
                          /\ Len(f) \in 1..MinFrames
                          /\ \A i \in 1..Len(f) : f[i] = seq[i + k]
    BY LastFramesAre
  <1> HIDE DEF f
  <1>2. Len(f) \in Nat /\ Len(seq) \in Nat /\ MinFrames \in Nat
    BY <1>1, Limits
  <1>3. Spread(f)
    <2>1. \A i \in DOMAIN f : i + k \in DOMAIN seq /\ f[i] = seq[i + k]
      BY <1>1, <1>2
    <2> QED BY <2>1 DEF Spread
  <1>4. f[Len(f)].at = last /\ f[Len(f)].rgbAt = rgb
    <2>1. Len(f) + k = Len(seq) /\ f[Len(f)] = seq[Len(f) + k]
      BY <1>1, <1>2
    <2> QED BY <2>1
  <1>5. \A i \in 1..(Len(f) - 1) : Consecutive(f[i], f[i + 1])
    <2> SUFFICES ASSUME NEW i \in 1..(Len(f) - 1) PROVE Consecutive(f[i], f[i + 1])
      OBVIOUS
    <2>1. /\ i + k \in 1..(Len(seq) - 1) /\ i \in 1..Len(f) /\ i + 1 \in 1..Len(f)
          /\ (i + 1) + k = (i + k) + 1
      BY <1>1, <1>2
    <2>2. f[i] = seq[i + k] /\ f[i + 1] = seq[(i + k) + 1]
      BY <1>1, <2>1
    <2> QED BY <2>1, <2>2
  <1> QED BY <1>1, <1>2, <1>3, <1>4, <1>5 DEF WindowOK, f

\* One frame is a window.
LEMMA NewWindow ==
  ASSUME NEW m \in Measurements
  PROVE  /\ Spread(<<m>>)
         /\ WindowOK([frames |-> <<m>>, last |-> m.at, rgb |-> m.rgbAt])
  <1> DEFINE one == <<m>>
  <1>1. one \in Seq(Measurements) /\ Len(one) = 1 /\ one[1] = m /\ DOMAIN one = {1}
    BY Alone
  <1>2. m.at \in Nat /\ m.rgbAt \in Nat /\ m.image \in Images
    BY MeasurementFacts
  <1>3. m.image.position \in Int /\ MaxSpread \in Nat /\ MinFrames \in Nat \ {0}
    BY <1>2, Limits, ImageFacts
  <1> HIDE DEF one
  <1>4. Spread(one)
    BY <1>1, <1>3 DEF Spread, Distance
  <1> DEFINE w == [frames |-> one, last |-> m.at, rgb |-> m.rgbAt]
  <1>5. WindowOK(w)
    <2>1. w.frames = one /\ w.last = m.at /\ w.rgb = m.rgbAt
      OBVIOUS
    <2>2. w \in [frames : Seq(Measurements), last : Nat \cup {Never}, rgb : Nat \cup {Never}]
      BY <1>1, <1>2
    <2> HIDE DEF w
    <2>3. \A i \in 1..(Len(w.frames) - 1) : Consecutive(w.frames[i], w.frames[i + 1])
      <3>1. Len(w.frames) = 1
        BY <1>1, <2>1
      <3>2. \A i \in 1..(Len(w.frames) - 1) : FALSE
        BY <3>1
      <3> QED BY <3>2
    <2>4. w.frames[Len(w.frames)].at = w.last /\ w.frames[Len(w.frames)].rgbAt = w.rgb
      <3>1. w.frames[Len(w.frames)] = m
        BY <1>1, <2>1
      <3> QED BY <2>1, <3>1
    <2>5. Len(w.frames) <= MinFrames /\ Spread(w.frames)
      BY <1>1, <1>3, <1>4, <2>1
    <2> QED BY <2>2, <2>3, <2>4, <2>5 DEF WindowOK
  <1> QED BY <1>4, <1>5 DEF one

\* observe() leaves a window and a decision, whatever came before.
LEMMA ObservedOK ==
  ASSUME NEW w, WindowOK(w), NEW m \in Measurements, m.at > w.last,
         NEW safety \in SUBSET SafetyReasons
  PROVE  /\ WindowOK(Observed(w, m, safety).window)
         /\ DecisionOK(Observed(w, m, safety).decision)
         /\ Observed(w, m, safety).decision.measurement = m
  <1> DEFINE old      == w.rgb # Never /\ m.rgbAt <= w.rgb
             rejected == safety \cup ImageReasons(m) \cup When(old, "rgb_timestamp_not_increasing")
             gap      == GapBefore(w, m)
             trial    == Append(IF gap THEN <<>> ELSE w.frames, m)
             agree    == Spread(trial)
             frames   == IF rejected # {} THEN AfterRejection(w, m)
                         ELSE IF agree THEN LastFrames(trial) ELSE <<m>>
             reasons  == IF rejected # {} THEN rejected
                         ELSE IF Len(frames) >= MinFrames THEN {}
                         ELSE {"candidate_too_short"} \cup When(gap, "candidate_time_gap")
                              \cup When(~agree, "candidate_position_inconsistent")
             rgb      == IF old THEN w.rgb ELSE m.rgbAt
  <1>1. /\ Observed(w, m, safety).window = [frames |-> frames, last |-> m.at, rgb |-> rgb]
        /\ Observed(w, m, safety).decision = Decision(m, frames, reasons)
    BY DEF Observed
  <1>2. /\ m.at \in Nat /\ m.rgbAt \in Nat /\ m.image \in Images /\ MinFrames \in Nat \ {0}
        /\ w.rgb \in Nat \cup {Never} /\ w.last \in Nat \cup {Never}
        /\ w.frames \in Seq(Measurements) /\ Len(w.frames) \in Nat
    BY MeasurementFacts, Limits DEF WindowOK
  <1>4. WindowOK([frames |-> frames, last |-> m.at, rgb |-> rgb])
    <2>1. CASE rejected # {}
      <3>1. frames = <<>>
        BY <2>1 DEF AfterRejection
      <3>2. rgb \in Nat \cup {Never}
        BY <1>2
      <3> HIDE DEF frames, rgb
      <3> QED BY <1>2, <3>1, <3>2, NoneYet DEF WindowOK, Spread
    <2>2. CASE rejected = {} /\ ~agree
      <3>1. frames = <<m>> /\ ~old
        BY <2>2 DEF When
      <3> QED BY <3>1, NewWindow
    <2>3. CASE rejected = {} /\ agree /\ gap
      <3>1. trial = <<m>> /\ ~old /\ frames = LastFrames(trial)
        BY <2>3 DEF When
      <3>2. trial \in Seq(Measurements) /\ Len(trial) = 1 /\ trial[1] = m
        BY <3>1, Alone
      <3>3. rgb = m.rgbAt /\ Spread(trial)
        BY <3>1, <2>3
      <3> HIDE DEF trial, rgb, frames
      <3>4. Len(trial) \in 1..MinFrames + 1 /\ \A i \in 1..(Len(trial) - 1) : FALSE
        BY <1>2, <3>2
      <3> QED BY <1>2, <3>1, <3>2, <3>3, <3>4, ShorterWindow
    <2>4. CASE rejected = {} /\ agree /\ ~gap
      <3>1. trial = Append(w.frames, m) /\ ~old /\ frames = LastFrames(trial) /\ rgb = m.rgbAt
        BY <2>4 DEF When
      <3>2. /\ trial \in Seq(Measurements)
            /\ Len(trial) = Len(w.frames) + 1
            /\ \A i \in 1..Len(w.frames) + 1 :
                 trial[i] = IF i = Len(w.frames) + 1 THEN m ELSE w.frames[i]
        BY <1>2, <3>1, OneMore
      <3>3. Spread(trial)
        BY <2>4
      <3>4. Len(w.frames) <= MinFrames /\ Len(trial) \in 1..MinFrames + 1
        BY <1>2, <3>2 DEF WindowOK
      <3>5. ASSUME w.frames # <<>>
            PROVE  Consecutive(w.frames[Len(w.frames)], m)
        <4>1. /\ Len(w.frames) \in 1..Len(w.frames) /\ w.frames[Len(w.frames)] \in Measurements
          BY <1>2, <3>5
        <4>2. /\ w.frames[Len(w.frames)].at = w.last
              /\ w.frames[Len(w.frames)].rgbAt = w.rgb
              /\ Last(w.frames) = w.frames[Len(w.frames)]
          BY <3>5 DEF WindowOK, Last
        <4>3. w.last \in Nat /\ w.rgb \in Nat /\ MaxGap \in Nat
          BY <4>1, <4>2, MeasurementFacts, Limits
        <4>4. ~(m.at - w.last > MaxGap) /\ ~(m.rgbAt - w.rgb > MaxGap) /\ ~(m.rgbAt <= w.rgb)
          BY <2>4, <3>1, <3>5, <4>2, <4>3 DEF GapBefore, Never
        <4> QED BY <1>2, <4>2, <4>3, <4>4 DEF Consecutive
      <3> HIDE DEF trial, rgb, frames
      <3>6. \A i \in 1..(Len(trial) - 1) : Consecutive(trial[i], trial[i + 1])
        <4> SUFFICES ASSUME NEW i \in 1..(Len(trial) - 1)
                     PROVE  Consecutive(trial[i], trial[i + 1])
          OBVIOUS
        <4>1. i \in 1..Len(w.frames) /\ trial[i] = w.frames[i]
          BY <1>2, <3>2
        <4>2. CASE i = Len(w.frames)
          <5>1. trial[i + 1] = m /\ w.frames # <<>>
            BY <1>2, <3>2, <4>1, <4>2
          <5> QED BY <3>5, <4>1, <4>2, <5>1
        <4>3. CASE i # Len(w.frames)
          <5>1. i \in 1..(Len(w.frames) - 1) /\ trial[i + 1] = w.frames[i + 1]
            BY <1>2, <3>2, <4>1, <4>3
          <5> QED BY <4>1, <5>1 DEF WindowOK
        <4> QED BY <4>2, <4>3
      <3>7. trial[Len(trial)] = m
        BY <1>2, <3>2
      <3> QED BY <1>2, <3>1, <3>2, <3>3, <3>4, <3>6, <3>7, ShorterWindow
    <2> QED BY <2>1, <2>2, <2>3, <2>4
  <1>5. DecisionOK(Decision(m, frames, reasons))
    <2>1. reasons = {} => Len(frames) >= MinFrames
      OBVIOUS
    <2> HIDE DEF frames, reasons
    <2> QED BY <2>1 DEF Decision, DecisionOK
  <1>6. Decision(m, frames, reasons).measurement = m
    BY DEF Decision
  <1> QED BY <1>1, <1>4, <1>5, <1>6

-----------------------------------------------------------------------------
(* The memory *)

LEMMA StateTypes ==
  ASSUME NEW state, MemoryOK(state)
  PROVE  /\ state \in States
         /\ state.position \in Positions \cup {NoPosition} /\ state.variance \in Nat
         /\ state.observedAt \in Int /\ state.stateAt \in Nat /\ state.accepted \in Nat
         /\ state.reasons \in SUBSET StateReasons
         /\ state.observedAt <= state.stateAt
  <1>1. state \in States /\ state.observedAt <= state.stateAt
    BY DEF MemoryOK
  <1>2. state.observedAt \in Nat \cup {Never}
    BY <1>1 DEF States
  <1>3. state.observedAt \in Int
    BY <1>2 DEF Never
  <1> QED BY <1>1, <1>3 DEF States

\* Uncertainty grows with the time that passes, however the calls divide it.
LEMMA GrowthAdds ==
  ASSUME NEW a \in Int, NEW b \in Int, NEW c \in Int
  PROVE  Growth * (c - a) = Growth * (b - a) + Growth * (c - b)
  BY Limits

LEMMA AgedSum ==
  ASSUME NEW v \in Nat, NEW a \in Int, NEW b \in Int, a <= b
  PROVE  Aged(v, b - a) \in Nat /\ Aged(v, b - a) = v + Growth * (b - a)
  <1>1. b - a \in Nat /\ Growth \in Nat
    BY Limits
  <1>2. Growth * (b - a) \in Nat
    BY <1>1
  <1>3. Aged(v, b - a) = v + Growth * (b - a)
    <2>1. CASE b - a > 0
      BY <2>1 DEF Aged
    <2>2. CASE b - a = 0
      BY <2>2, <1>1 DEF Aged
    <2> QED BY <1>1, <2>1, <2>2
  <1> QED BY <1>2, <1>3

\* What is held ages along with the tick it is held at, valid or not.
LEMMA AgedHolds ==
  ASSUME NEW state, MemoryOK(state), state.position # NoPosition,
         NEW t \in Nat, t >= state.stateAt
  PROVE  /\ Aged(state.variance, t - state.stateAt) \in Nat
         /\ Growth * (t - state.observedAt) <= Aged(state.variance, t - state.stateAt)
  <1>1. /\ state.variance \in Nat /\ state.observedAt \in Int /\ state.stateAt \in Nat
        /\ Growth * (state.stateAt - state.observedAt) <= state.variance
    BY StateTypes DEF MemoryOK, Since
  <1>2. Aged(state.variance, t - state.stateAt) = state.variance + Growth * (t - state.stateAt)
    BY <1>1, AgedSum
  <1>3. Growth * (t - state.observedAt)
          = Growth * (state.stateAt - state.observedAt) + Growth * (t - state.stateAt)
    BY <1>1, GrowthAdds
  <1>4. PICK x \in Int, y \in Int :
          x = Growth * (state.stateAt - state.observedAt) /\ y = Growth * (t - state.stateAt)
    BY <1>1, Limits
  <1>5. Aged(state.variance, t - state.stateAt) \in Nat
    BY <1>1, AgedSum
  <1> QED BY <1>1, <1>2, <1>3, <1>4, <1>5

\* A state that was kept: of no other image, and not valid if anything was forced on it.
KeptState(old, new, forced) ==
  /\ MemoryOK(new)
  /\ new.accepted = old.accepted
  /\ forced # {} => ~Valid(new)

LEMMA RetainedKeeps ==
  ASSUME NEW state, MemoryOK(state), NEW t \in Nat, t >= state.stateAt,
         NEW observable \in BOOLEAN, NEW forced \in SUBSET Forcing
  PROVE  KeptState(state, Retained(state, t, observable, forced), forced)
  <1> DEFINE variance ==
               IF state.position = NoPosition THEN 0 ELSE Aged(state.variance, t - state.stateAt)
             held ==
               (state.reasons \cap {"measurement_conflict"})
               \cup When(t - state.observedAt > MaxAge, "memory_stale")
               \cup When(variance > MaxVariance, "memory_uncertain")
             reasons ==
               forced \cup (IF state.position = NoPosition
                            THEN When(forced = {}, "memory_uninitialized") ELSE held)
             mode == IF reasons = {"memory_uninitialized"} THEN "uninitialized"
                     ELSE IF reasons # {} THEN "invalid" ELSE "free_static"
             new == Retained(state, t, observable, forced)
  <1>1. new = [state EXCEPT !.mode = mode, !.variance = variance, !.stateAt = t,
                            !.observable = observable, !.reasons = reasons]
    BY DEF Retained
  <1>2. /\ state \in States /\ state.observedAt \in Int /\ state.stateAt \in Nat
        /\ state.observedAt <= state.stateAt /\ state.reasons \in SUBSET StateReasons
    BY StateTypes
  <1>3. variance \in Nat
    BY AgedHolds
  <1>4. /\ "memory_uninitialized" \notin Forcing
        /\ "memory_uninitialized" \notin held
    BY DEF Forcing, SafetyReasons, Irreversible, Provenance, When
  <1>5. reasons \in SUBSET StateReasons
    BY DEF StateReasons, Forcing, When
  <1>6. /\ mode \in Modes
        /\ mode = "uninitialized" <=> reasons = {"memory_uninitialized"}
        /\ mode = "free_static" <=> reasons = {}
    BY DEF Modes
  <1>7. state.position # NoPosition => mode # "uninitialized"
    BY <1>4
  <1>8. mode = "free_static" => /\ state.position # NoPosition
                                /\ ~(t - state.observedAt > MaxAge)
                                /\ ~(variance > MaxVariance)
    BY DEF When
  <1>9. forced # {} => reasons # {}
    OBVIOUS
  <1>10. state.position # NoPosition => Growth * (t - state.observedAt) <= variance
    BY AgedHolds
  <1> HIDE DEF variance, held, reasons, mode, new
  <1>11. /\ new \in States
         /\ new.mode = mode /\ new.variance = variance /\ new.stateAt = t
         /\ new.reasons = reasons /\ new.position = state.position
         /\ new.observedAt = state.observedAt /\ new.accepted = state.accepted
    BY <1>1, <1>2, <1>3, <1>5, <1>6 DEF States
  <1>12. state.position = NoPosition <=> state.accepted = 0
    BY DEF MemoryOK
  <1>13. MaxAge \in Nat /\ MaxVariance \in Nat
    BY Limits
  <1>14. new.position # NoPosition => Growth * Since(new) <= new.variance
    BY <1>10, <1>11 DEF Since
  <1>15. Valid(new) => /\ new.position # NoPosition
                       /\ Since(new) <= MaxAge
                       /\ new.variance <= MaxVariance
    BY <1>2, <1>3, <1>8, <1>11, <1>13 DEF Since, Valid
  <1>16. /\ new.observedAt <= new.stateAt
         /\ new.position = NoPosition <=> new.accepted = 0
         /\ new.mode = "uninitialized" <=> new.reasons = {"memory_uninitialized"}
         /\ new.mode = "uninitialized" => new.position = NoPosition
         /\ new.mode = "free_static" <=> new.reasons = {}
    BY <1>2, <1>6, <1>7, <1>11, <1>12
  <1>17. MemoryOK(new)
    BY <1>11, <1>14, <1>15, <1>16 DEF MemoryOK
  <1> QED BY <1>6, <1>9, <1>11, <1>17 DEF KeptState, Valid, new

LEMMA InvalidatedKeeps ==
  ASSUME NEW state, MemoryOK(state), NEW t \in Nat, t >= state.stateAt,
         NEW reasons \in SUBSET SafetyReasons, reasons # {}
  PROVE  KeptState(state, Invalidated(state, t, reasons), reasons)
  <1> DEFINE variance ==
               IF state.position = NoPosition THEN 0 ELSE Aged(state.variance, t - state.stateAt)
             new == Invalidated(state, t, reasons)
  <1>1. /\ state \in States /\ state.observedAt \in Int /\ state.stateAt \in Nat
        /\ state.observedAt <= state.stateAt
    BY StateTypes
  <1>2. new = [state EXCEPT !.mode = "invalid", !.stateAt = t, !.observable = FALSE,
                            !.reasons = reasons, !.variance = variance]
    BY <1>1 DEF Invalidated, States
  <1>3. variance \in Nat /\ (state.position # NoPosition => Growth * (t - state.observedAt) <= variance)
    BY AgedHolds
  <1>4. reasons \in SUBSET StateReasons /\ reasons # {"memory_uninitialized"}
    BY DEF StateReasons, Forcing, SafetyReasons
  <1>5. "invalid" \in Modes
    BY DEF Modes
  <1> HIDE DEF variance, new
  <1>6. /\ new \in States
        /\ new.mode = "invalid" /\ new.variance = variance /\ new.stateAt = t
        /\ new.reasons = reasons /\ new.position = state.position
        /\ new.observedAt = state.observedAt /\ new.accepted = state.accepted
    BY <1>1, <1>2, <1>3, <1>4, <1>5 DEF States
  <1>7. state.position = NoPosition <=> state.accepted = 0
    BY DEF MemoryOK
  <1>8. new.position # NoPosition => Growth * Since(new) <= new.variance
    BY <1>3, <1>6 DEF Since
  <1>9. ~Valid(new)
    BY <1>6 DEF Valid
  <1>10. MemoryOK(new)
    BY <1>1, <1>4, <1>6, <1>7, <1>8, <1>9 DEF MemoryOK
  <1> QED BY <1>6, <1>9, <1>10 DEF KeptState, new

\* A state an image was written to: one write more, of a later image.
WrittenState(old, new) ==
  /\ MemoryOK(new)
  /\ new.accepted = old.accepted + 1
  /\ new.observedAt > old.observedAt

LEMMA AcceptedWrites ==
  ASSUME NEW state, MemoryOK(state), NEW d, d.measurement \in Measurements,
         NEW t \in Nat, t >= d.measurement.at, NEW observable \in BOOLEAN,
         MemoryReasons(state, d) = {},
         ~(t - d.measurement.rgbAt > MaxAge),
         ~(Aged(d.measurement.image.variance, t - d.measurement.rgbAt) > MaxVariance)
  PROVE  /\ WrittenState(state, Accepted(state, d, t, observable))
         /\ d.reasons = {}
         /\ d.measurement.at - d.measurement.rgbAt <= MaxSkew
  <1> DEFINE m == d.measurement
             variance == Aged(m.image.variance, t - m.rgbAt)
             new == Accepted(state, d, t, observable)
  <1>1. /\ m.image \in Images /\ m.at \in Nat /\ m.rgbAt \in Nat /\ m.rgbAt <= m.at
    BY MeasurementFacts
  <1>2. m.image.variance \in Nat /\ m.image.position \in Positions \cup {NoPosition}
    BY <1>1, ImageFacts
  <1>3. /\ ImageReasons(m) = {} /\ d.reasons = {}
        /\ ~(state.observedAt # Never /\ m.rgbAt <= state.observedAt)
    BY DEF MemoryReasons, When
  <1>4. m.image.position # NoPosition /\ m.at - m.rgbAt <= MaxSkew
    BY <1>3, CleanImage
  <1>5. variance \in Nat /\ variance = m.image.variance + Growth * (t - m.rgbAt)
    BY <1>1, <1>2, AgedSum
  <1>6. Growth * (t - m.rgbAt) <= variance
    <2>1. PICK x \in Int : x = Growth * (t - m.rgbAt)
      BY <1>1, Limits
    <2> QED BY <1>2, <1>5, <2>1
  <1>7. /\ state.accepted \in Nat /\ state.observedAt \in Int /\ MaxAge \in Nat /\ MaxVariance \in Nat
    BY StateTypes, Limits
  <1>8. m.rgbAt > state.observedAt
    BY <1>1, <1>3, <1>7 DEF Never
  <1>9. "free_static" \in Modes
    BY DEF Modes
  <1>10. new = [mode |-> "free_static", position |-> m.image.position, variance |-> variance,
                observedAt |-> m.rgbAt, stateAt |-> t, observable |-> observable,
                accepted |-> state.accepted + 1, reasons |-> {}]
    BY DEF Accepted
  <1>11. ~(variance > MaxVariance) /\ ~(t - m.rgbAt > MaxAge) /\ t >= m.at
    OBVIOUS
  <1> HIDE DEF m, variance, new
  <1>12. /\ new \in States
         /\ new.mode = "free_static" /\ new.position = m.image.position /\ new.variance = variance
         /\ new.observedAt = m.rgbAt /\ new.stateAt = t /\ new.accepted = state.accepted + 1
         /\ new.reasons = {}
    BY <1>1, <1>2, <1>5, <1>7, <1>9, <1>10 DEF States
  <1>13. /\ new.observedAt <= new.stateAt
         /\ new.position = NoPosition <=> new.accepted = 0
         /\ Growth * Since(new) <= new.variance
         /\ Since(new) <= MaxAge /\ new.variance <= MaxVariance
    BY <1>1, <1>4, <1>5, <1>6, <1>7, <1>11, <1>12 DEF Since
  <1>14. MemoryOK(new)
    BY <1>4, <1>12, <1>13 DEF MemoryOK
  <1>15. new.accepted = state.accepted + 1 /\ new.observedAt > state.observedAt
    BY <1>8, <1>12
  <1> QED BY <1>3, <1>4, <1>14, <1>15 DEF WrittenState, new, m

LEMMA ForcedType ==
  ASSUME NEW state, NEW safety \in SUBSET SafetyReasons
  PROVE  Forced(state, safety) \in SUBSET Forcing
  BY DEF Forced, Forcing

\* What a call made of the memory: it kept the state, forgiving nothing irreversible, or wrote.
Sound(state, done) ==
  \/ /\ ~done.accepted
     /\ KeptState(state, done.state, state.reasons \cap Irreversible)
  \/ /\ done.accepted
     /\ WrittenState(state, done.state)
     /\ state.reasons \cap Irreversible = {}

LEMMA RetainedSound ==
  ASSUME NEW state, MemoryOK(state), NEW t \in Nat, t >= state.stateAt,
         NEW observable \in BOOLEAN, NEW forced \in SUBSET Forcing, NEW reasons,
         state.reasons \cap Irreversible # {} => forced # {}
  PROVE  Sound(state, Result(Retained(state, t, observable, forced), FALSE, reasons))
  <1>1. KeptState(state, Retained(state, t, observable, forced), forced)
    BY RetainedKeeps
  <1> QED BY <1>1 DEF Sound, Result, KeptState

LEMMA UpdatedSound ==
  ASSUME NEW state, MemoryOK(state), NEW d, DecisionOK(d),
         d.measurement.at >= state.stateAt, NEW safety \in SUBSET SafetyReasons
  PROVE  /\ Sound(state, Updated(state, d, safety))
         /\ Updated(state, d, safety).accepted =>
              /\ safety = {} /\ d.reasons = {}
              /\ Since(Updated(state, d, safety).state) <= MaxSkew
  <1> DEFINE m        == d.measurement
             seen     == "not_observable" \notin m.image.faults
             forced   == Forced(state, safety)
             rejected == MemoryReasons(state, d)
             aged     == Aged(m.image.variance, m.at - m.rgbAt)
             retain(reasons) == Retained(state, m.at, seen, reasons)
             done     == Updated(state, d, safety)
  <1>1. m \in Measurements /\ m.image \in Images /\ m.at \in Nat /\ m.rgbAt \in Nat
    BY MeasurementFacts DEF DecisionOK
  <1>2. /\ forced \in SUBSET Forcing /\ seen \in BOOLEAN /\ m.at >= state.stateAt
        /\ (forced = {} => safety = {} /\ state.reasons \cap Irreversible = {})
    BY ForcedType DEF Forced
  <1>3. ASSUME NEW reasons \in SUBSET Forcing, NEW why,
               state.reasons \cap Irreversible # {} => reasons # {},
               done = Result(retain(reasons), FALSE, why)
        PROVE  Sound(state, done) /\ ~done.accepted
    <2> HIDE DEF done, m, seen, forced
    <2>1. Sound(state, done)
      BY <1>1, <1>2, <1>3, RetainedSound
    <2>2. ~done.accepted
      BY <1>3 DEF Result
    <2> QED BY <2>1, <2>2
  <1>4. CASE forced # {}
    <2>1. done = Result(retain(forced), FALSE, forced)
      BY <1>4 DEF Updated
    <2> QED BY <1>2, <1>3, <1>4, <2>1
  <1>5. CASE forced = {} /\ rejected # {}
    <2>1. done = Result(retain(rejected \cap Provenance), FALSE, rejected)
      BY <1>5 DEF Updated
    <2>2. rejected \cap Provenance \in SUBSET Forcing
      BY DEF Forcing
    <2> QED BY <1>2, <1>3, <1>5, <2>1, <2>2
  <1>6. CASE forced = {} /\ rejected = {} /\ aged > MaxVariance
    <2>1. done = Result(retain({}), FALSE, {"measurement_uncertain_at_update"})
      BY <1>6 DEF Updated
    <2> QED BY <1>2, <1>3, <1>6, <2>1
  <1>7. CASE forced = {} /\ rejected = {} /\ ~(aged > MaxVariance) /\ Conflict(state, m)
    <2>1. done = Result(retain({"measurement_conflict"}), FALSE, {"measurement_conflict"})
      BY <1>7 DEF Updated
    <2>2. {"measurement_conflict"} \in SUBSET Forcing
      BY DEF Forcing
    <2> QED BY <1>2, <1>3, <1>7, <2>1, <2>2
  <1>8. CASE forced = {} /\ rejected = {} /\ ~(aged > MaxVariance) /\ ~Conflict(state, m)
    <2>1. done = Result(Accepted(state, d, m.at, TRUE), TRUE, {})
      BY <1>8 DEF Updated
    <2>2. m.at - m.rgbAt <= MaxAge /\ m.at - m.rgbAt \in Int /\ MaxAge \in Nat
      BY <1>1, <1>8, CleanImage, Limits DEF MemoryReasons
    <2>3. /\ WrittenState(state, Accepted(state, d, m.at, TRUE))
          /\ d.reasons = {} /\ m.at - m.rgbAt <= MaxSkew
      <3>1. /\ MemoryReasons(state, d) = {} /\ m.at >= m.at /\ TRUE \in BOOLEAN
            /\ ~(m.at - m.rgbAt > MaxAge)
            /\ ~(Aged(m.image.variance, m.at - m.rgbAt) > MaxVariance)
        BY <1>1, <1>8, <2>2
      <3> QED BY <1>1, <3>1, AcceptedWrites
    <2>4. Since(Accepted(state, d, m.at, TRUE)) = m.at - m.rgbAt
      BY DEF Since, Accepted
    <2>5. done.accepted /\ done.state = Accepted(state, d, m.at, TRUE)
      BY <2>1 DEF Result
    <2> HIDE DEF done, m
    <2>6. Sound(state, done)
      BY <1>2, <1>8, <2>3, <2>5 DEF Sound
    <2>7. Since(done.state) <= MaxSkew
      BY <2>3, <2>4, <2>5
    <2> QED BY <1>2, <1>8, <2>3, <2>6, <2>7 DEF done
  <1> QED BY <1>4, <1>5, <1>6, <1>7, <1>8

LEMMA PreviewSound ==
  ASSUME NEW state, MemoryOK(state), NEW d, DecisionOK(d), NEW t \in Nat,
         t >= state.stateAt, t >= d.measurement.at, NEW safety \in SUBSET SafetyReasons
  PROVE  /\ Sound(state, Preview(state, d, safety, t))
         /\ ~Preview(state, d, safety, t).state.observable
  <1> DEFINE m        == d.measurement
             forced   == Forced(state, safety)
             reasons  == MemoryReasons(state, d)
                         \cup When(t - m.at > MaxPending, "pending_candidate_expired")
                         \cup When(t - m.rgbAt > MaxAge, "memory_stale_at_commit")
                         \cup When(Aged(m.image.variance, t - m.rgbAt) > MaxVariance,
                                   "memory_uncertain_at_commit")
                         \cup When(Conflict(state, m), "measurement_conflict")
             kept     == forced \cup (reasons \cap Provenance)
             done     == Preview(state, d, safety, t)
  <1>1. m \in Measurements /\ forced \in SUBSET Forcing
    BY ForcedType DEF DecisionOK
  <1>2. CASE forced \cup reasons # {}
    <2>1. done = Result(Retained(state, t, FALSE, kept), FALSE, forced \cup reasons)
      BY <1>2 DEF Preview
    <2>2. kept \in SUBSET Forcing /\ (state.reasons \cap Irreversible # {} => kept # {})
      BY <1>1 DEF Forcing, Forced
    <2> HIDE DEF done, kept
    <2>3. Sound(state, done)
      BY <2>1, <2>2, RetainedSound
    <2>4. ~done.state.observable
      <3>1. state \in States /\ done.state = Retained(state, t, FALSE, kept)
        BY <2>1, StateTypes DEF Result
      <3>2. Retained(state, t, FALSE, kept).observable = FALSE
        BY <3>1 DEF Retained, States
      <3> QED BY <3>1, <3>2
    <2> QED BY <2>3, <2>4 DEF done
  <1>3. CASE forced \cup reasons = {}
    <2>1. done = Result(Accepted(state, d, t, FALSE), TRUE, {})
      BY <1>3 DEF Preview
    <2>2. /\ MemoryReasons(state, d) = {}
          /\ ~(t - m.rgbAt > MaxAge)
          /\ ~(Aged(m.image.variance, t - m.rgbAt) > MaxVariance)
      BY <1>3 DEF When
    <2>3. WrittenState(state, Accepted(state, d, t, FALSE))
      BY <1>1, <2>2, AcceptedWrites
    <2>4. state.reasons \cap Irreversible = {}
      BY <1>3 DEF Forced
    <2>5. /\ done.accepted /\ done.state = Accepted(state, d, t, FALSE)
          /\ ~done.state.observable
      BY <2>1 DEF Result, Accepted
    <2> HIDE DEF done
    <2> QED BY <2>3, <2>4, <2>5 DEF Sound, done
  <1> QED BY <1>2, <1>3

-----------------------------------------------------------------------------
(* The calls *)

\* What a call may do to the memory within an episode.
MemoryStep ==
  \/ memory' = memory
  \/ KeptState(memory, memory', memory.reasons \cap Irreversible)
  \/ WrittenState(memory, memory') /\ memory.reasons \cap Irreversible = {}

LEMMA SoundStep ==
  ASSUME NEW done, Sound(memory, done), memory' = done.state
  PROVE  MemoryOK(memory') /\ MemoryStep
  BY DEF Sound, MemoryStep, KeptState, WrittenState

LEMMA Clock ==
  ASSUME now \in Nat, NEW t \in now..MaxTime, Passes(t)
  PROVE  t \in Nat /\ t > 0
  BY MemoryAssumption DEF Passes, MemoryAssumption

LEMMA UpdateTickKeeps ==
  ASSUME MemoryInvariant, NEW image \in Images, NEW safety \in SafetyContexts,
         UpdateTick(image, safety)
  PROVE  MemoryInvariant' /\ MemoryStep
  <1> USE DEF MemoryInvariant
  <1> DEFINE m(t) == Measured(image, t)
             seen(t) == Observed(window, m(t), safety)
             done(t) == Updated(memory, seen(t).decision, safety)
  <1>1. PICK t \in now..MaxTime :
          /\ Passes(t) /\ image.lag <= t /\ t > window.last /\ t >= memory.stateAt
          /\ now' = t /\ window' = seen(t).window /\ memory' = done(t).state
          /\ update' = Reported(done(t), safety, seen(t).decision) /\ UNCHANGED pending
    BY DEF UpdateTick
  <1>2. t \in Nat /\ safety \in SUBSET SafetyReasons
    BY <1>1, Clock, ObjectStateAssumption DEF ObjectStateAssumption
  <1>3. m(t) \in Measurements /\ m(t).at = t
    BY <1>1, <1>2, MeasuredType
  <1>4. PICK s, d : s = seen(t) /\ d = s.decision
    OBVIOUS
  <1> HIDE DEF m
  <1>5. WindowOK(s.window) /\ DecisionOK(d) /\ d.measurement = m(t)
    BY <1>1, <1>2, <1>3, <1>4, ObservedOK
  <1>6. PICK u : u = Updated(memory, d, safety)
    OBVIOUS
  <1>7. /\ Sound(memory, u)
        /\ u.accepted => safety = {} /\ d.reasons = {} /\ Since(u.state) <= MaxSkew
    BY <1>1, <1>2, <1>3, <1>5, <1>6, UpdatedSound
  <1>8. /\ now' = t /\ window' = s.window /\ memory' = u.state /\ pending' = pending
        /\ update' = Reported(u, safety, d)
    BY <1>1, <1>4, <1>6
  <1> HIDE DEF seen, done
  <1>9. ReportOK(update')
    BY <1>5, <1>7, <1>8 DEF ReportOK, Reported, ContactReady, DecisionOK
  <1>10. MemoryOK(memory') /\ MemoryStep
    BY <1>7, <1>8, SoundStep
  <1> QED BY <1>2, <1>5, <1>8, <1>9, <1>10

LEMMA StageTickKeeps ==
  ASSUME MemoryInvariant, NEW image \in Images, NEW safety \in SafetyContexts,
         StageTick(image, safety)
  PROVE  MemoryInvariant' /\ MemoryStep
  <1> USE DEF MemoryInvariant
  <1> DEFINE m(t) == Measured(image, t)
             seen(t) == Observed(window, m(t), safety)
  <1>1. PICK t \in now..MaxTime :
          /\ Passes(t) /\ image.lag <= t /\ t > window.last
          /\ now' = t /\ window' = seen(t).window /\ pending' = seen(t).decision
          /\ UNCHANGED <<memory, update>>
    BY DEF StageTick
  <1>2. t \in Nat /\ safety \in SUBSET SafetyReasons
    BY <1>1, Clock, ObjectStateAssumption DEF ObjectStateAssumption
  <1>3. m(t) \in Measurements /\ m(t).at = t
    BY <1>1, <1>2, MeasuredType
  <1> HIDE DEF m
  <1>4. PICK s : s = seen(t)
    OBVIOUS
  <1>5. WindowOK(s.window) /\ DecisionOK(s.decision)
    BY <1>1, <1>2, <1>3, <1>4, ObservedOK
  <1> HIDE DEF seen
  <1>6. WindowOK(window') /\ DecisionOK(pending')
    BY <1>1, <1>4, <1>5
  <1> QED BY <1>1, <1>2, <1>6 DEF MemoryStep

LEMMA CommitDelayedKeeps ==
  ASSUME MemoryInvariant, NEW safety \in SafetyContexts, CommitDelayed(safety)
  PROVE  MemoryInvariant' /\ MemoryStep
  <1> USE DEF MemoryInvariant
  <1>1. PICK t \in now..MaxTime :
          /\ pending # NoDecision
          /\ Passes(t) /\ t >= memory.stateAt /\ t >= pending.measurement.at
          /\ memory' = Preview(memory, pending, safety, t).state
          /\ update' = Reported(Preview(memory, pending, safety, t), safety, pending)
          /\ now' = t /\ UNCHANGED <<window, pending>>
    BY DEF CommitDelayed
  <1>2. t \in Nat /\ safety \in SUBSET SafetyReasons
    BY <1>1, Clock, ObjectStateAssumption DEF ObjectStateAssumption
  <1>3. PICK u : u = Preview(memory, pending, safety, t)
    OBVIOUS
  <1>4. Sound(memory, u) /\ ~u.state.observable
    BY <1>1, <1>2, <1>3, PreviewSound
  <1>5. memory' = u.state /\ update' = Reported(u, safety, pending)
    BY <1>1, <1>3
  <1>6. ReportOK(update')
    BY <1>4, <1>5 DEF ReportOK, Reported, ContactReady
  <1>7. MemoryOK(memory') /\ MemoryStep
    BY <1>4, <1>5, SoundStep
  <1> QED BY <1>1, <1>2, <1>6, <1>7

LEMMA InvalidateKeeps ==
  ASSUME MemoryInvariant, NEW reasons \in SafetyContexts, InvalidateForSafety(reasons)
  PROVE  MemoryInvariant' /\ MemoryStep
  <1> USE DEF MemoryInvariant
  <1>1. PICK t \in now..MaxTime :
          /\ reasons # {} /\ Passes(t) /\ t >= memory.stateAt
          /\ memory' = Invalidated(memory, t, reasons)
          /\ now' = t /\ UNCHANGED <<window, pending, update>>
    BY DEF InvalidateForSafety
  <1>2. t \in Nat /\ reasons \in SUBSET SafetyReasons
    BY <1>1, Clock, ObjectStateAssumption DEF ObjectStateAssumption
  <1>3. KeptState(memory, Invalidated(memory, t, reasons), reasons)
    BY <1>1, <1>2, InvalidatedKeeps
  <1>4. MemoryOK(memory') /\ MemoryStep
    BY <1>1, <1>3 DEF KeptState, MemoryStep
  <1> QED BY <1>1, <1>2, <1>4

LEMMA Afresh == MemoryOK(Forgotten(0)) /\ WindowOK(EmptyWindow) /\ ReportOK(NoUpdate)
  <1> DEFINE state == Forgotten(0)
  <1>1. /\ state \in States /\ state.mode = "uninitialized" /\ state.position = NoPosition
        /\ state.accepted = 0 /\ state.observedAt = Never /\ state.stateAt = 0
        /\ state.reasons = {"memory_uninitialized"}
    BY DEF Forgotten, States, Modes, StateReasons
  <1>2. MemoryOK(state)
    <2> HIDE DEF state
    <2> QED BY <1>1 DEF MemoryOK, Valid, Never
  <1>3. WindowOK(EmptyWindow)
    BY NoneYet, Limits DEF WindowOK, EmptyWindow, Spread
  <1>4. ReportOK(NoUpdate)
    BY DEF ReportOK, NoUpdate, ContactReady
  <1> QED BY <1>2, <1>3, <1>4

LEMMA ResetKeeps ==
  ASSUME ResetEpisode
  PROVE  MemoryInvariant'
  BY Afresh DEF ResetEpisode, MemoryInvariant

LEMMA InvariantStep ==
  ASSUME MemoryInvariant, [Next]_memoryVars
  PROVE  MemoryInvariant' /\ (SameEpisode => MemoryStep)
  <1>1. CASE \E image \in Images, safety \in SafetyContexts :
               UpdateTick(image, safety) \/ StageTick(image, safety)
    BY <1>1, UpdateTickKeeps, StageTickKeeps
  <1>2. CASE \E safety \in SafetyContexts : CommitDelayed(safety) \/ InvalidateForSafety(safety)
    BY <1>2, CommitDelayedKeeps, InvalidateKeeps
  <1>3. CASE ResetEpisode
    BY <1>3, ResetKeeps DEF ResetEpisode, SameEpisode
  <1>4. CASE UNCHANGED memoryVars
    BY <1>4 DEF memoryVars, MemoryInvariant, MemoryStep
  <1> QED BY <1>1, <1>2, <1>3, <1>4 DEF Next

-----------------------------------------------------------------------------
(* The theorems *)

\* The invariant of the memory, its verifier, the decision kept for later and the report.
THEOREM MemorySafe == Spec => []MemoryInvariant
  <1>1. Init => MemoryInvariant
    BY Afresh DEF Init, MemoryInvariant
  <1>2. MemoryInvariant /\ [Next]_memoryVars => MemoryInvariant'
    BY InvariantStep
  <1> QED BY <1>1, <1>2, PTL DEF Spec

\* Every state the memory gets into is one that ObjectState.__post_init__ accepts.
THEOREM MemoryTyped == Spec => []MemoryTypeOK
  <1>1. MemoryInvariant => MemoryTypeOK
    <2> SUFFICES ASSUME MemoryInvariant PROVE MemoryTypeOK
      OBVIOUS
    <2>1. MemoryOK(memory)
      BY DEF MemoryInvariant
    <2>2. memory.mode \in Modes /\ memory.observable \in BOOLEAN
      BY <2>1 DEF MemoryOK, States
    <2>3. memory.mode = "free_static" => memory.position # NoPosition
      BY <2>1 DEF MemoryOK, Valid
    <2> QED BY <2>1, <2>2, <2>3, StateTypes DEF MemoryOK, MemoryTypeOK
  <1> QED BY <1>1, MemorySafe, PTL

\* For every growth rate, age limit and order of calls, a valid memory is young enough and
\* certain enough, counting all the time since its image.
THEOREM RememberedFresh == Spec => []RememberedIsFresh
  <1>1. MemoryInvariant => RememberedIsFresh
    BY DEF MemoryInvariant, MemoryOK, RememberedIsFresh, Since
  <1> QED BY <1>1, MemorySafe, PTL

\* For every window length, gap and spread, the verifier's window holds consecutive images
\* that agree, after any mix of gaps, rejections and restarts.
THEOREM WindowsAgree == Spec => []WindowAgrees
  <1>1. MemoryInvariant => WindowAgrees
    BY DEF MemoryInvariant, WindowOK, WindowAgrees, Consecutive, Last
  <1> QED BY <1>1, MemorySafe, PTL

\* Contact is authorised only by a fresh image of a full window under a clean context.
THEOREM ContactNeedsSight == Spec => []ContactOnSight
  <1>1. MemoryInvariant => ContactOnSight
    BY DEF MemoryInvariant, ReportOK, ContactOnSight, Since
  <1> QED BY <1>1, MemorySafe, PTL

\* Whether written at once or later, no image is written after itself or after a later one.
THEOREM ImagesOnlyOnce == Spec => NoImageTwice
  <1>1. MemoryInvariant /\ [Next]_memoryVars
          => [(SameEpisode /\ memory'.accepted > memory.accepted)
                => memory'.observedAt > memory.observedAt]_memoryVars
    <2> SUFFICES ASSUME MemoryInvariant, [Next]_memoryVars, SameEpisode,
                        memory'.accepted > memory.accepted
                 PROVE  memory'.observedAt > memory.observedAt
      OBVIOUS
    <2>1. MemoryStep
      BY InvariantStep
    <2>2. memory.accepted \in Nat
      BY StateTypes DEF MemoryInvariant
    <2> QED BY <2>1, <2>2 DEF MemoryStep, KeptState, WrittenState
  <1> QED BY <1>1, MemorySafe, PTL DEF Spec, NoImageTwice

\* No single call makes a memory with an irreversible reason valid again.
THEOREM NothingForgiven == Spec => NoOperationForgives
  <1>1. MemoryInvariant /\ [Next]_memoryVars
          => [(SameEpisode /\ memory.reasons \cap Irreversible # {}) => ~Valid(memory')]_memoryVars
    <2> SUFFICES ASSUME MemoryInvariant, [Next]_memoryVars, SameEpisode,
                        memory.reasons \cap Irreversible # {}
                 PROVE  ~Valid(memory')
      OBVIOUS
    <2>1. MemoryStep
      BY InvariantStep
    <2>2. ~Valid(memory)
      BY DEF MemoryInvariant, MemoryOK, Valid
    <2> QED BY <2>1, <2>2 DEF MemoryStep, KeptState
  <1> QED BY <1>1, MemorySafe, PTL DEF Spec, NoOperationForgives
=============================================================================
