---------------------------- MODULE WebTrustProofs ----------------------------
(***************************************************************************)
(* Theorems about the trust records for any runs, versions and facts.      *)
(***************************************************************************)
EXTENDS WebTrust, SequenceTheorems, TLAPS

\* The policy gives one of its four dispositions.
LEMMA DispositionType == \A v : Disposition(v) \in Dispositions
BY DEF Disposition, Dispositions

\* The rows of one run and version with a new evaluation.
LEMMA RecordedRows ==
  ASSUME NEW s \in Seq(Row), NEW v
  PROVE  LET row == [base |-> Disposition(v), overrides |-> {}]
             t == Append(s, row)
         IN /\ row \in Row /\ t \in Seq(Row) /\ Len(t) = Len(s) + 1
            /\ \A i \in 1 .. Len(s) : t[i] = s[i]
            /\ t[Len(s) + 1] = row
<1> DEFINE row == [base |-> Disposition(v), overrides |-> {}]
<1>1. row \in Row
  BY DispositionType DEF Row, Overrides
<1> QED
  BY <1>1, AppendProperties

-----------------------------------------------------------------------------

\* What every step keeps: the type and the policy of the rows.
TrustInv == TrustTypeOK /\ RowsFollowPolicy

\* A step replaces the rows of one run and version, or none.
LEMMA Replaced ==
  ASSUME TrustTypeOK, NEW r \in Runs, NEW v \in Versions, NEW t \in Seq(Row),
         evaluations' = [evaluations EXCEPT ![r][v] = t]
  PROVE  /\ TrustTypeOK'
         /\ evaluations'[r][v] = t
         /\ \A q \in Runs, w \in Versions :
              <<q, w>> # <<r, v>> => evaluations'[q][w] = evaluations[q][w]
BY DEF TrustTypeOK

\* The rows that are not replaced still follow the policy.
LEMMA PolicyKept ==
  ASSUME TrustInv, NEW r \in Runs, NEW v \in Versions, NEW t \in Seq(Row),
         evaluations' = [evaluations EXCEPT ![r][v] = t],
         \A i \in 1 .. Len(t) :
           /\ t[i].base = Disposition(v)
           /\ t[i].overrides # {} => Disposition(v) = "review_required"
  PROVE  TrustInv'
<1>1. /\ TrustTypeOK'
      /\ evaluations'[r][v] = t
      /\ \A q \in Runs, w \in Versions :
           <<q, w>> # <<r, v>> => evaluations'[q][w] = evaluations[q][w]
  <2>1. evaluations \in [Runs -> [Versions -> Seq(Row)]]
    BY DEF TrustInv, TrustTypeOK
  <2>2. evaluations'[r] = [evaluations[r] EXCEPT ![v] = t] /\ evaluations'[r][v] = t
    BY <2>1
  <2>3. TrustTypeOK'
    BY <2>1 DEF TrustTypeOK
  <2>4. ASSUME NEW q \in Runs, NEW w \in Versions, <<q, w>> # <<r, v>>
        PROVE  evaluations'[q][w] = evaluations[q][w]
    BY <2>1, <2>4
  <2> QED
    BY <2>2, <2>3, <2>4
<1>2. RowsFollowPolicy'
  <2> SUFFICES ASSUME NEW q \in Runs, NEW w \in Versions, NEW i \in DOMAIN evaluations'[q][w]
               PROVE  /\ evaluations'[q][w][i].base = Disposition(w)
                      /\ evaluations'[q][w][i].overrides # {} =>
                           Disposition(w) = "review_required"
    BY DEF RowsFollowPolicy, Disposition, Rules, Outcome
  <2>1. CASE <<q, w>> = <<r, v>>
    BY <1>1, <2>1
  <2>2. CASE <<q, w>> # <<r, v>>
    BY <1>1, <2>2 DEF TrustInv, RowsFollowPolicy
  <2> QED
    BY <2>1, <2>2
<1> QED
  BY <1>1, <1>2 DEF TrustInv

\* Evaluating a version keeps the invariant.
LEMMA RecordKeeps ==
  ASSUME TrustInv, NEW r \in Runs, NEW v \in Versions, RecordEvaluation(r, v)
  PROVE  TrustInv'
<1> DEFINE s == evaluations[r][v]
           row == [base |-> Disposition(v), overrides |-> {}]
<1>1. s \in Seq(Row)
  BY DEF TrustInv, TrustTypeOK
<1>2. evaluations' = [evaluations EXCEPT ![r][v] = Append(s, row)]
  BY DEF RecordEvaluation
<1>3. \A i \in 1 .. Len(s) :
        /\ s[i].base = Disposition(v)
        /\ s[i].overrides # {} => Disposition(v) = "review_required"
  BY <1>1 DEF TrustInv, RowsFollowPolicy
<1> HIDE DEF s
<1>4. /\ Append(s, row) \in Seq(Row) /\ Len(Append(s, row)) = Len(s) + 1
      /\ \A i \in 1 .. Len(s) : Append(s, row)[i] = s[i]
      /\ Append(s, row)[Len(s) + 1] = row
  BY <1>1, RecordedRows
<1>5. \A i \in 1 .. Len(Append(s, row)) :
        /\ Append(s, row)[i].base = Disposition(v)
        /\ Append(s, row)[i].overrides # {} => Disposition(v) = "review_required"
  <2> TAKE i \in 1 .. Len(Append(s, row))
  <2>1. i \in 1 .. Len(s) \/ i = Len(s) + 1
    BY <1>1, <1>4
  <2> QED
    BY <2>1, <1>3, <1>4
<1> QED
  BY <1>2, <1>4, <1>5, PolicyKept

\* So does replacing the overrides of a row, when what gets one requires review.
LEMMA OverrideKeeps ==
  ASSUME TrustInv, NEW r \in Runs, NEW v \in Versions, NEW i \in DOMAIN evaluations[r][v],
         NEW o \in SUBSET Overrides, o # {} => Disposition(v) = "review_required",
         evaluations' = [evaluations EXCEPT ![r][v][i].overrides = o]
  PROVE  TrustInv'
<1> DEFINE s == evaluations[r][v]
           row == [s[i] EXCEPT !.overrides = o]
           t == [s EXCEPT ![i] = row]
<1>1. s \in Seq(Row) /\ i \in 1 .. Len(s) /\ s[i] \in Row
  BY DEF TrustInv, TrustTypeOK
<1>2. evaluations' = [evaluations EXCEPT ![r][v] = t]
  OBVIOUS
<1>3. \A j \in 1 .. Len(s) :
        /\ s[j].base = Disposition(v)
        /\ s[j].overrides # {} => Disposition(v) = "review_required"
  BY <1>1 DEF TrustInv, RowsFollowPolicy
<1>4. row \in Row /\ row.base = s[i].base /\ row.overrides = o
  BY <1>1 DEF Row
<1> HIDE DEF s, row
<1>5. /\ t \in Seq(Row) /\ Len(t) = Len(s)
      /\ \A j \in 1 .. Len(s) : t[j] = IF j = i THEN row ELSE s[j]
  BY <1>1, <1>4, ExceptSeq
<1> HIDE DEF t
<1>6. \A j \in 1 .. Len(t) :
        /\ t[j].base = Disposition(v)
        /\ t[j].overrides # {} => Disposition(v) = "review_required"
  BY <1>1, <1>3, <1>4, <1>5
<1> QED
  BY <1>2, <1>5, <1>6, PolicyKept

\* Accepting what was seen to require review, whatever was recorded since.
LEMMA AcceptKeeps ==
  ASSUME TrustInv, NEW r \in Runs, NEW v \in Versions, NEW i \in DOMAIN evaluations[r][v],
         NEW kind \in {"permanent", "expiring"}, SeenForReview(r, v, i),
         AcceptEvaluation(r, v, i, kind)
  PROVE  TrustInv'
<1>1. evaluations[r][v] \in Seq(Row)
  BY DEF TrustInv, TrustTypeOK
<1>2. evaluations[r][v][i].overrides \cup {kind} \in SUBSET Overrides
  <2>1. evaluations[r][v][i] \in Row
    BY <1>1
  <2>2. evaluations[r][v][i].overrides \in SUBSET Overrides
    BY <2>1 DEF Row
  <2> QED
    BY <2>2 DEF Overrides
<1>3. Disposition(v) = "review_required"
  <2>1. PICK j \in 1 .. i : evaluations[r][v][j].base = "review_required"
    BY DEF SeenForReview
  <2>2. j \in DOMAIN evaluations[r][v]
    BY <1>1, <2>1
  <2> QED
    BY <2>1, <2>2 DEF TrustInv, RowsFollowPolicy
<1>4. evaluations' = [evaluations EXCEPT
        ![r][v][i].overrides = evaluations[r][v][i].overrides \cup {kind}]
  BY DEF AcceptEvaluation
<1> QED
  BY <1>2, <1>3, <1>4, OverrideKeeps

\* A deadline passes.
LEMMA ExpireKeeps ==
  ASSUME TrustInv, NEW r \in Runs, NEW v \in Versions, NEW i \in DOMAIN evaluations[r][v],
         ExpireOverride(r, v, i)
  PROVE  TrustInv'
<1>1. evaluations[r][v] \in Seq(Row)
  BY DEF TrustInv, TrustTypeOK
<1>2. (evaluations[r][v][i].overrides \ {"expiring"}) \cup {"expired"} \in SUBSET Overrides
  <2>1. evaluations[r][v][i] \in Row
    BY <1>1
  <2>2. evaluations[r][v][i].overrides \in SUBSET Overrides
    BY <2>1 DEF Row
  <2> QED
    BY <2>2 DEF Overrides
<1>3. Disposition(v) = "review_required"
  BY DEF ExpireOverride, TrustInv, RowsFollowPolicy
<1>4. evaluations' = [evaluations EXCEPT ![r][v][i].overrides =
        (evaluations[r][v][i].overrides \ {"expiring"}) \cup {"expired"}]
  BY DEF ExpireOverride
<1> QED
  BY <1>2, <1>3, <1>4, OverrideKeeps

\* Rows are only added, the policy's part of a row never changes, and an
\* acceptance leaves a trace: what a caller saw before it inserts is still so
\* when it does.
Grown(r, v) ==
  /\ Len(evaluations'[r][v]) >= Len(evaluations[r][v])
  /\ \A j \in 1 .. Len(evaluations[r][v]) :
       /\ evaluations'[r][v][j].base = evaluations[r][v][j].base
       /\ evaluations[r][v][j].overrides # {} => evaluations'[r][v][j].overrides # {}

\* Rows are added, and overrides to them; none is removed or judged anew.
LEMMA NothingForgotten ==
  ASSUME TrustTypeOK, [TrustNext]_evaluations, NEW q \in Runs, NEW w \in Versions
  PROVE  Grown(q, w)
<1> DEFINE s == evaluations[q][w]
<1>1. s \in Seq(Row) /\ Len(s) \in Nat
  BY DEF TrustTypeOK
<1>2. ASSUME NEW r \in Runs, NEW v \in Versions, RecordEvaluation(r, v)
      PROVE  Grown(q, w)
  <2> DEFINE row == [base |-> Disposition(v), overrides |-> {}]
             t == Append(s, row)
  <2>1. evaluations' = [evaluations EXCEPT ![r][v] = Append(evaluations[r][v], row)]
    BY <1>2 DEF RecordEvaluation
  <2>2. evaluations'[q][w] = s \/ evaluations'[q][w] = t
    BY <2>1 DEF TrustTypeOK
  <2>3. Len(t) >= Len(s) /\ \A j \in 1 .. Len(s) : t[j] = s[j]
    BY <1>1, RecordedRows
  <2>4. CASE evaluations'[q][w] = s
    BY <1>1, <2>4 DEF Grown
  <2>5. CASE evaluations'[q][w] = t
    <3> HIDE DEF t
    <3> QED
      BY <2>3, <2>5 DEF Grown
  <2> QED
    BY <2>2, <2>4, <2>5
<1>3. ASSUME NEW r \in Runs, NEW v \in Versions, NEW i \in DOMAIN evaluations[r][v], NEW o,
             o # {}, evaluations' = [evaluations EXCEPT ![r][v][i].overrides = o]
      PROVE  Grown(q, w)
  <2> DEFINE row == [s[i] EXCEPT !.overrides = o]
             t == [s EXCEPT ![i] = row]
  <2>1. evaluations'[q][w] = s \/ evaluations'[q][w] = t
    BY <1>3 DEF TrustTypeOK
  <2>2. /\ Len(t) = Len(s)
        /\ \A j \in 1 .. Len(s) :
             /\ t[j].base = s[j].base
             /\ s[j].overrides # {} => t[j].overrides # {}
    <3>1. \A j \in 1 .. Len(s) : s[j] \in Row
      BY <1>1
    <3>2. \A j \in 1 .. Len(s) : t[j] = IF j = i THEN row ELSE s[j]
      BY <1>1
    <3>3. i \in 1 .. Len(s) => row.base = s[i].base /\ row.overrides # {}
      BY <1>3, <3>1 DEF Row
    <3>4. Len(t) = Len(s)
      BY <1>1
    <3> HIDE DEF s, row, t
    <3> QED
      BY <3>2, <3>3, <3>4
  <2>3. CASE evaluations'[q][w] = s
    BY <1>1, <2>3 DEF Grown
  <2>4. CASE evaluations'[q][w] = t
    <3> HIDE DEF t
    <3> QED
      BY <1>1, <2>2, <2>4 DEF Grown
  <2> QED
    BY <2>1, <2>3, <2>4
<1>4. CASE TrustNext
  <2>1. PICK r \in Runs, v \in Versions :
          \/ RecordEvaluation(r, v)
          \/ \E i \in DOMAIN evaluations[r][v] :
               \/ \E kind \in {"permanent", "expiring"} : AcceptEvaluation(r, v, i, kind)
               \/ ExpireOverride(r, v, i)
    BY <1>4 DEF TrustNext
  <2>2. CASE RecordEvaluation(r, v)
    BY <1>2, <2>2
  <2>3. ASSUME NEW i \in DOMAIN evaluations[r][v], NEW kind, AcceptEvaluation(r, v, i, kind)
        PROVE  Grown(q, w)
    <3>1. evaluations' = [evaluations EXCEPT
            ![r][v][i].overrides = evaluations[r][v][i].overrides \cup {kind}]
      BY <2>3 DEF AcceptEvaluation
    <3> QED
      BY <1>3, <3>1
  <2>4. ASSUME NEW i \in DOMAIN evaluations[r][v], ExpireOverride(r, v, i)
        PROVE  Grown(q, w)
    <3>1. evaluations' = [evaluations EXCEPT ![r][v][i].overrides =
            (evaluations[r][v][i].overrides \ {"expiring"}) \cup {"expired"}]
      BY <2>4 DEF ExpireOverride
    <3> QED
      BY <1>3, <3>1
  <2> QED
    BY <2>1, <2>2, <2>3, <2>4
<1>5. CASE UNCHANGED evaluations
  BY <1>1, <1>5 DEF Grown
<1> QED
  BY <1>4, <1>5

-----------------------------------------------------------------------------

\* No version is evaluated in the beginning.
LEMMA TrustInvInit == TrustInit => TrustInv
<1> SUFFICES ASSUME TrustInit PROVE TrustInv
  OBVIOUS
<1>1. \A r \in Runs, v \in Versions : evaluations[r][v] = <<>>
  BY DEF TrustInit
<1>2. TrustTypeOK
  BY DEF TrustInit, TrustTypeOK
<1>3. RowsFollowPolicy
  BY <1>1 DEF RowsFollowPolicy
<1> QED
  BY <1>2, <1>3 DEF TrustInv

\* TrustInv is inductive.
LEMMA TrustInvStep == TrustInv /\ [TrustNext]_evaluations => TrustInv'
<1> SUFFICES ASSUME TrustInv, [TrustNext]_evaluations PROVE TrustInv'
  OBVIOUS
<1>1. CASE UNCHANGED evaluations
  BY <1>1 DEF TrustInv, TrustTypeOK, RowsFollowPolicy
<1>2. CASE TrustNext
  <2>1. PICK r \in Runs, v \in Versions :
          \/ RecordEvaluation(r, v)
          \/ \E i \in DOMAIN evaluations[r][v] :
               \/ /\ SeenForReview(r, v, i)
                  /\ \E kind \in {"permanent", "expiring"} : AcceptEvaluation(r, v, i, kind)
               \/ ExpireOverride(r, v, i)
    BY <1>2 DEF TrustNext
  <2> QED
    BY <2>1, RecordKeeps, AcceptKeeps, ExpireKeeps
<1> QED
  BY <1>1, <1>2

\* A version that is blocked by policy is never accepted, so its latest
\* evaluation counts as it stands.
LEMMA BlockedByInv == TrustInv => BlockedNeverUsable
<1> SUFFICES ASSUME TrustInv, NEW r \in Runs, NEW v \in Versions,
                    Disposition(v) = "blocked", Evaluated(r, v)
             PROVE  Effective(Latest(r, v)) \notin Usable
  BY DEF BlockedNeverUsable
<1> DEFINE s == evaluations[r][v]
<1>1. s \in Seq(Row) /\ s # <<>>
  BY DEF TrustInv, TrustTypeOK, Evaluated
<1>2. Len(s) \in DOMAIN s
  BY <1>1
<1>3. s[Len(s)].base = "blocked" /\ s[Len(s)].overrides = {}
  BY <1>2 DEF TrustInv, RowsFollowPolicy
<1> QED
  BY <1>3 DEF Effective, InForce, Latest, Usable

\* The records keep their type.
THEOREM TrustTyped == TrustSpec => []TrustTypeOK
<1>1. TrustInv => TrustTypeOK
  BY DEF TrustInv
<1> QED
  BY <1>1, TrustInvInit, TrustInvStep, PTL DEF TrustSpec

\* Every evaluation follows the policy, and an operator's acceptance rests on
\* one that requires review (service.py:58), however stale the look at it was.
THEOREM PolicyFollowed == TrustSpec => []RowsFollowPolicy
<1>1. TrustInv => RowsFollowPolicy
  BY DEF TrustInv
<1> QED
  BY <1>1, TrustInvInit, TrustInvStep, PTL DEF TrustSpec

\* Blocked evidence never becomes usable (service.py:58 and :127-136).
THEOREM BlockedStaysBlocked == TrustSpec => []BlockedNeverUsable
BY BlockedByInv, TrustInvInit, TrustInvStep, PTL DEF TrustSpec
=============================================================================
