----------------------------- MODULE MCApiBoundary -----------------------------
(***************************************************************************)
(* ApiBoundary for TLC.                                                    *)
(***************************************************************************)
EXTENDS ApiBoundary, TLC

BoundarySymmetry ==
  Permutations(Emails) \cup Permutations(Tokens) \cup Permutations(Procs)
=============================================================================
