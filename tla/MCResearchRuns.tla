---------------------------- MODULE MCResearchRuns ----------------------------
(***************************************************************************)
(* ResearchRuns for TLC.  Page "a" is served in a short version and in one *)
(* long enough to require review; "b" is served over plain HTTP, which the *)
(* policy blocks, or redirects to "a".                                     *)
(***************************************************************************)
EXTENDS ResearchRuns, TLC

Good == [https |-> TRUE, typed |-> TRUE, intact |-> TRUE, sized |-> TRUE]

SiteFacts ==
  [v \in {"a_short", "a_long", "b_plain"} |->
    CASE v = "a_short" -> Good
      [] v = "a_long"  -> [Good EXCEPT !.sized = FALSE]
      [] v = "b_plain" -> [Good EXCEPT !.https = FALSE]]

SitePages == [v \in {"a_short", "a_long", "b_plain"} |->
                IF v = "b_plain" THEN "b" ELSE "a"]

SiteServes == [u \in {"a", "b"} |->
                 IF u = "a" THEN {"a_short", "a_long"} ELSE {"b_plain", "a_long"}]

ResearchSymmetry == Permutations(Runs) \cup Permutations(Procs)
=============================================================================
