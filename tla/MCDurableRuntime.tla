-------------------------- MODULE MCDurableRuntime --------------------------
(***************************************************************************)
(* DurableRuntime for TLC.  No operator of it tells two workers, two       *)
(* callers or two researchers apart, so each set is symmetric.             *)
(***************************************************************************)
EXTENDS DurableRuntime, TLC

RunSymmetry ==
  Permutations(Workers) \cup Permutations(Callers) \cup Permutations(Researchers)
=============================================================================
