------------------------------ MODULE ObjectMemory ------------------------------
(***************************************************************************)
(* ExplicitObjectStateMemory and ObjectCandidateWindowVerifier: what the   *)
(* robot remembers of the object's position before it grasps.  A verifier  *)
(* builds windows of consecutive agreeing images; the memory accepts the   *)
(* last image of a verified window at once (update), or after the camera   *)
(* went home (a delayed candidate), ages what it holds, and is invalidated *)
(* by safety findings.                                                     *)
(***************************************************************************)
EXTENDS ObjectState

CONSTANTS
  Strides,         (* time between two calls                                     *)
  MaxTime          (* bound: the clock of one episode                            *)

ASSUME MemoryAssumption == Strides \subseteq Nat /\ MaxTime \in Nat

VARIABLES
  memory,   (* _state                                                            *)
  window,   (* the verifier's measurements and its two high-water marks          *)
  pending,  (* the decision a caller keeps to commit it later                    *)
  update,   (* the latest ObjectMemoryUpdate, with the image and safety it saw   *)
  now       (* the clock of the episode the callers' timestamps come from        *)

memoryVars == <<memory, window, pending, update, now>>

-----------------------------------------------------------------------------
(* The calls *)

NoDecision == [verified |-> FALSE]
NoUpdate   == [accepted |-> FALSE, state |-> Forgotten(0), safety |-> {}, count |-> 0]

Reported(done, safety, d) ==
  [accepted |-> done.accepted, state |-> done.state, safety |-> safety, count |-> d.count]

Passes(t) == \E k \in Strides : t = now + k /\ 0 < t /\ t <= MaxTime

\* verifier.observe and memory.update of one control tick; no timestamp of an image is negative.
UpdateTick(image, safety) ==
  \E t \in now..MaxTime :
    LET seen == Observed(window, Measured(image, t), safety)
        done == Updated(memory, seen.decision, safety)
    IN /\ Passes(t) /\ image.lag <= t /\ t > window.last /\ t >= memory.stateAt
       /\ now' = t
       /\ window' = seen.window
       /\ memory' = done.state
       /\ update' = Reported(done, safety, seen.decision)
       /\ UNCHANGED pending

\* The same tick, but the caller keeps the decision instead of writing it.
StageTick(image, safety) ==
  \E t \in now..MaxTime :
    LET seen == Observed(window, Measured(image, t), safety)
    IN /\ Passes(t) /\ image.lag <= t /\ t > window.last
       /\ now' = t
       /\ window' = seen.window
       /\ pending' = seen.decision
       /\ UNCHANGED <<memory, update>>

\* commit_delayed_candidate: preview and apply; the state is applied when it was rejected too.
CommitDelayed(safety) ==
  \E t \in now..MaxTime :
    /\ pending # NoDecision
    /\ Passes(t) /\ t >= memory.stateAt /\ t >= pending.measurement.at
    /\ LET done == Preview(memory, pending, safety, t)
       IN /\ memory' = done.state
          /\ update' = Reported(done, safety, pending)
    /\ now' = t
    /\ UNCHANGED <<window, pending>>

InvalidateForSafety(reasons) ==
  \E t \in now..MaxTime :
    /\ reasons # {}
    /\ Passes(t) /\ t >= memory.stateAt
    /\ memory' = Invalidated(memory, t, reasons)
    /\ now' = t
    /\ UNCHANGED <<window, pending, update>>

\* reset() of the memory and of its verifier; the clock starts again, and no call is at zero.
ResetEpisode ==
  /\ memory' = Forgotten(0)
  /\ window' = EmptyWindow
  /\ pending' = NoDecision /\ update' = NoUpdate
  /\ now' = 0

Init ==
  /\ memory = Forgotten(0)
  /\ window = EmptyWindow
  /\ pending = NoDecision /\ update = NoUpdate
  /\ now = 0

Next ==
  \/ \E image \in Images, safety \in SafetyContexts :
       UpdateTick(image, safety) \/ StageTick(image, safety)
  \/ \E safety \in SafetyContexts : CommitDelayed(safety) \/ InvalidateForSafety(safety)
  \/ ResetEpisode

Spec == Init /\ [][Next]_memoryVars

-----------------------------------------------------------------------------
(* Properties *)

Modes == {"uninitialized", "free_static", "invalid"}

\* Type invariant, with the consistency ObjectState.__post_init__ demands of every state:
\* a mode agrees with its reasons, a position comes with its history.
MemoryTypeOK ==
  /\ memory.mode \in Modes
  /\ memory.position \in Positions \cup {NoPosition}
  /\ memory.variance \in Nat /\ memory.accepted \in Nat
  /\ memory.observable \in BOOLEAN
  /\ memory.stateAt \in Nat
  /\ memory.observedAt \in Int /\ memory.observedAt <= memory.stateAt
  /\ memory.position = NoPosition <=> memory.accepted = 0
  /\ memory.mode = "uninitialized" <=> memory.reasons = {"memory_uninitialized"}
  /\ memory.mode = "uninitialized" => memory.position = NoPosition
  /\ memory.mode = "free_static" => memory.position # NoPosition
  /\ memory.mode = "free_static" <=> memory.reasons = {}

\* Whatever path wrote or kept it, a valid memory is young enough, and its variance has grown
\* with all the time since its image and is still within the bound.
RememberedIsFresh ==
  Valid(memory) =>
    /\ memory.stateAt - memory.observedAt <= MaxAge
    /\ Growth * (memory.stateAt - memory.observedAt) <= memory.variance
    /\ memory.variance <= MaxVariance

\* The window is what its name says after any mix of gaps, rejections and restarts: the images
\* in it are consecutive ticks without a rejected one between them, and they agree.
WindowAgrees ==
  /\ Len(window.frames) <= MinFrames
  /\ Spread(window.frames)
  /\ window.frames # <<>> => Last(window.frames).at = window.last
  /\ \A i \in 1..(Len(window.frames) - 1) :
       LET one == window.frames[i] two == window.frames[i + 1]
       IN /\ two.at - one.at \in 1..MaxGap
          /\ two.rgbAt - one.rgbAt \in 1..MaxGap

SameEpisode == now' > 0

\* One image is written at most once, and never after a later one: a delayed candidate
\* cannot replay or overtake what update() consumed meanwhile.
NoImageTwice ==
  [][(SameEpisode /\ memory'.accepted > memory.accepted)
       => memory'.observedAt > memory.observedAt]_memoryVars

\* Contact may be authorised only by an image of this very tick, taken under a clean safety
\* context and agreeing with the frames before it, never by memory.
ContactOnSight ==
  ContactReady(update) => /\ update.safety = {}
                          /\ update.state.stateAt - update.state.observedAt <= MaxSkew
                          /\ update.count >= MinFrames

\* No single operation makes a memory valid that carries an irreversible reason.
NoOperationForgives ==
  [][(SameEpisode /\ memory.reasons \cap Irreversible # {}) => ~Valid(memory')]_memoryVars
=============================================================================
