--------------------------- MODULE MCRuntimeStore ---------------------------
(***************************************************************************)
(* RuntimeStore for TLC: two researchers, so that the plan may leave one   *)
(* out and one may finish while the other has not started.                 *)
(***************************************************************************)
EXTENDS RuntimeStore, TLC

ResearcherSymmetry == Permutations(Researchers)
=============================================================================
