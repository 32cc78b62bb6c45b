------------------------------- MODULE WebTrust -------------------------------
(***************************************************************************)
(* The local trust policy (web_trust/service.py) and its records           *)
(* (web_trust/store.py).  A version of a page is evaluated per run; an     *)
(* operator may accept an evaluation that requires review; the evaluation  *)
(* that counts is the latest of its run and version.                       *)
(*                                                                         *)
(* evaluate() and accept() look first and insert afterwards, in separate   *)
(* statements.  Rows are never changed or removed, so whatever a caller    *)
(* saw is still in the table when it inserts: TrustNext lets it act on     *)
(* any earlier sight of the table, without saying who the callers are.     *)
(***************************************************************************)
EXTENDS Naturals, Sequences

CONSTANTS
  Runs,             \* research runs of one workspace
  Versions,         \* captured page versions, told apart by their content hash
  Facts             \* what the rules look at in a version

FactRecords == [https : BOOLEAN, typed : BOOLEAN, intact : BOOLEAN, sized : BOOLEAN]

ASSUME TrustAssumption == Facts \in [Versions -> FactRecords]

VARIABLE evaluations    \* rows of a run and version in the order of creation

-----------------------------------------------------------------------------
(* The policy.                                                              *)

Outcome(passed, otherwise) == IF passed THEN "passed" ELSE otherwise

\* Redirect history is not retained, so its rule always gives a notice.
Rules(v) ==
  {Outcome(Facts[v].https, "blocked"), Outcome(Facts[v].typed, "review_required"),
   Outcome(Facts[v].intact, "blocked"), Outcome(Facts[v].sized, "review_required"),
   "notice"}

Disposition(v) ==
  IF "blocked" \in Rules(v) THEN "blocked"
  ELSE IF "review_required" \in Rules(v) THEN "review_required"
  ELSE IF "notice" \in Rules(v) THEN "eligible_with_notice" ELSE "eligible"

Dispositions == {"blocked", "review_required", "eligible_with_notice", "eligible"}
Usable == {"eligible", "eligible_with_notice"}

-----------------------------------------------------------------------------
(* The records.  An override stays on its evaluation; one with a deadline   *)
(* is "expiring" until the deadline has passed.                             *)

Overrides == {"permanent", "expiring", "expired"}
Row == [base : Dispositions, overrides : SUBSET Overrides]

Evaluated(r, v) == evaluations[r][v] # <<>>
Latest(r, v) == evaluations[r][v][Len(evaluations[r][v])]
InForce(row) == row.overrides \cap {"permanent", "expiring"} # {}
Effective(row) == IF InForce(row) THEN "eligible" ELSE row.base

RecordEvaluation(r, v) ==
  evaluations' = [evaluations EXCEPT
    ![r][v] = Append(@, [base |-> Disposition(v), overrides |-> {}])]

\* The override is attached to the evaluation read just before.
AcceptEvaluation(r, v, i, kind) ==
  evaluations' = [evaluations EXCEPT ![r][v][i].overrides = @ \cup {kind}]

ExpireOverride(r, v, i) ==
  /\ "expiring" \in evaluations[r][v][i].overrides
  /\ evaluations' = [evaluations EXCEPT
       ![r][v][i].overrides = (@ \ {"expiring"}) \cup {"expired"}]

\* What accept() must have seen: a latest evaluation that requires review.
SeenForReview(r, v, i) ==
  \E j \in 1 .. i : evaluations[r][v][j].base = "review_required"

-----------------------------------------------------------------------------

TrustInit == evaluations = [r \in Runs |-> [v \in Versions |-> <<>>]]

TrustNext ==
  \E r \in Runs, v \in Versions :
    \/ RecordEvaluation(r, v)
    \/ \E i \in DOMAIN evaluations[r][v] :
         \/ /\ SeenForReview(r, v, i)
            /\ \E kind \in {"permanent", "expiring"} : AcceptEvaluation(r, v, i, kind)
         \/ ExpireOverride(r, v, i)

TrustSpec == TrustInit /\ [][TrustNext]_evaluations

-----------------------------------------------------------------------------
(* Properties.                                                              *)

TrustTypeOK == evaluations \in [Runs -> [Versions -> Seq(Row)]]

\* Every evaluation of a version says what the rules say of it, and only what
\* requires review was ever accepted.
RowsFollowPolicy ==
  \A r \in Runs, v \in Versions : \A i \in DOMAIN evaluations[r][v] :
    /\ evaluations[r][v][i].base = Disposition(v)
    /\ evaluations[r][v][i].overrides # {} => Disposition(v) = "review_required"

\* A version the policy blocks never becomes usable, whatever operators accept
\* and however stale the evaluation they looked at (service.py:58,
\* docs/local-evidence-intelligence.md:39-40).
BlockedNeverUsable ==
  \A r \in Runs, v \in Versions :
    Disposition(v) = "blocked" /\ Evaluated(r, v) => Effective(Latest(r, v)) \notin Usable

\* A permanent acceptance of a version is consulted by every later decision on
\* it (docs/adr/0015-local-policy-controlled-web-trust.md:80-84).
AcceptanceStands ==
  \A r \in Runs, v \in Versions : \A i \in DOMAIN evaluations[r][v] :
    "permanent" \in evaluations[r][v][i].overrides => Effective(Latest(r, v)) \in Usable
=============================================================================
