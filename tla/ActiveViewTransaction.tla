------------------------- MODULE ActiveViewTransaction -------------------------
(***************************************************************************)
(* What one active look at the object promises, whatever carries it out:   *)
(* the camera leaves home once per episode and comes back whatever         *)
(* happens, any failure forbids the write for good, and what was seen is   *)
(* written at most once, after the return and only if nothing failed.      *)
(***************************************************************************)

VARIABLES
  camera,   (* the front camera: "home" before the look, "out", "back" after it *)
  verdict,  (* "open" until something failed, then "forbidden"                  *)
  written   (* whether what was seen is in the memory                           *)

transactionVars == <<camera, verdict, written>>

Start == camera = "home" /\ verdict = "open" /\ written = FALSE

Look ==
  /\ camera = "home" /\ verdict = "open"
  /\ camera' = "out"
  /\ UNCHANGED <<verdict, written>>

\* A failure is found: before the return it does not end the look, and it is never taken back.
Forbid ==
  /\ camera # "home"
  /\ verdict' = "forbidden"
  /\ UNCHANGED <<camera, written>>

\* The camera is verified at home; the last frame of the barrier may bring the failure with it.
Return ==
  /\ camera = "out"
  /\ camera' = "back"
  /\ verdict' \in {verdict, "forbidden"}
  /\ UNCHANGED written

Write ==
  /\ camera = "back" /\ verdict = "open" /\ ~written
  /\ written' = TRUE
  /\ UNCHANGED <<camera, verdict>>

NewEpisode == camera' = "home" /\ verdict' = "open" /\ written' = FALSE

Step == Look \/ Forbid \/ Return \/ Write \/ NewEpisode

Transaction == Start /\ [][Step]_transactionVars
=============================================================================
