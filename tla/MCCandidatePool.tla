--------------------------- MODULE MCCandidatePool ---------------------------
(***************************************************************************)
(* Two runners and four seeds: one to be behind, one to be ahead, and one *)
(* more, so that a summary two records old can be told from the legal one. *)
(***************************************************************************)
EXTENDS CandidatePool
=============================================================================
