-------------------------- MODULE MCStage1Training --------------------------
(***************************************************************************)
(* Three epochs of three micro-batches, two to an optimizer step; every    *)
(* epoch's steps are a multiple of the checkpoint interval.                *)
(***************************************************************************)
EXTENDS Stage1Training

MCLosses == 1..3
=============================================================================
