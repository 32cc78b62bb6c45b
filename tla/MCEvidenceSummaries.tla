-------------------------- MODULE MCEvidenceSummaries --------------------------
(***************************************************************************)
(* EvidenceSummaries for TLC.  Page "a" was preflighted short and can be   *)
(* captured again, changed or at a length that requires review; "b"        *)
(* redirects to "a", so that its evidence is found by its hash alone.      *)
(***************************************************************************)
EXTENDS EvidenceSummaries, TLC

Good == [https |-> TRUE, typed |-> TRUE, intact |-> TRUE, sized |-> TRUE]

SiteFacts == [v \in {"a_short", "a_new", "a_long"} |->
                IF v = "a_long" THEN [Good EXCEPT !.sized = FALSE] ELSE Good]
SitePages == [v \in {"a_short", "a_new", "a_long"} |-> "a"]
SitePreflight == [u \in {"a", "b"} |-> "a_short"]
SiteLengths == [v \in {"a_short", "a_new", "a_long"} |-> IF v = "a_long" THEN 9 ELSE 4]

SummarySymmetry ==
  Permutations(Runs) \cup Permutations(Procs) \cup Permutations(Executions)
=============================================================================
