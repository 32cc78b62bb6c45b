-------------------------- MODULE ResearchRunsProofs --------------------------
(***************************************************************************)
(* Requests, activities and operators keep the trust records as TrustSpec  *)
(* allows, for any runs, pages, versions and number of processes.  The one *)
(* difficulty is the operator's acceptance, which acts on an evaluation    *)
(* that it read in an earlier step: SightInv says what is still true of it.*)
(*                                                                         *)
(* What becomes of candidates and runs follows from three more invariants: *)
(* TasksInv (what a process knows, and what a verdict rests on), ClaimInv  *)
(* (a candidate under way has one owner) and SettleInv (whoever is needed  *)
(* to finish a run still works on it).  BoundInv counts the captures and   *)
(* evaluations together with those who are about to insert one.            *)
(***************************************************************************)
EXTENDS ResearchRuns, WebTrustProofs, FiniteSetTheorems

\* Each process has a record with all of its fields.
Fields == DOMAIN IdleJob
JobShape == DOMAIN job = Procs /\ \A p \in Procs : DOMAIN job[p] = Fields

\* An operator about to look again, or to insert, has seen a version that
\* requires review, and the row that it saw is still there.
SawForReview(p, i) ==
  /\ job[p].run \in Runs /\ job[p].version \in Versions
  /\ i \in DOMAIN evaluations[job[p].run][job[p].version]
  /\ SeenForReview(job[p].run, job[p].version, i)

SightInv ==
  \A p \in Procs :
    /\ At(p, "reread") => SawForReview(p, Len(evaluations[job[p].run][job[p].version]))
    /\ At(p, "override") => SawForReview(p, job[p].time)

AcceptInv == TrustInv /\ JobShape /\ SightInv

-----------------------------------------------------------------------------

\* A step of process p that is not one of an operator's acceptance.
Elsewhere(p) ==
  /\ DOMAIN job' = Procs
  /\ DOMAIN job'[p] = Fields
  /\ job'[p].at \notin {"reread", "override"}
  /\ \A q \in Procs : q # p => job'[q] = job[q]

\* The fields of a process, and an idle one.
LEMMA IdleShape ==
  /\ Fields = {"mode", "at", "run", "urls", "held", "url", "version", "time", "result", "flag"}
  /\ IdleJob.at = "idle"
BY DEF Fields, IdleJob

\* Moving on, and stopping, are steps of one process.
LEMMA GotoElsewhere ==
  ASSUME JobShape, NEW p \in Procs, NEW label, label \notin {"reread", "override"},
         Goto(p, label)
  PROVE  Elsewhere(p)
BY IdleShape DEF JobShape, Goto, Elsewhere

\* A process that stops accepts nothing.
LEMMA StopElsewhere ==
  ASSUME JobShape, NEW p \in Procs, Stop(p)
  PROVE  Elsewhere(p)
BY IdleShape DEF JobShape, Stop, Elsewhere, Fields

\* A verdict that is formed accepts nothing.
LEMMA JudgeElsewhere ==
  ASSUME JobShape, NEW p \in Procs, NEW d, Judge(p, d)
  PROVE  Elsewhere(p)
<1>1. CASE Stop(p)
  BY <1>1, StopElsewhere
<1>2. CASE job' = [job EXCEPT ![p].at = "verdict", ![p].result = Readiness(d)]
  BY <1>2, IdleShape DEF JobShape, Elsewhere
<1> QED
  BY <1>1, <1>2 DEF Judge

\* The steps of requests and activities, the evaluation apart, that leave the
\* trust records alone.
Quiet(p) ==
  \/ Search(p) \/ MarkFailed(p) \/ LockRun(p) \/ SaveNewSources(p)
  \/ Schedule(p) \/ FailCandidatePreflight(p)
  \/ Load(p) \/ \E u \in job[p].urls : TakeHeld(p, u) \/ MarkCandidateChecking(p, u)
  \/ FetchFails(p) \/ Fetch(p) \/ LookForCapture(p) \/ SaveEvidence(p)
  \/ LookForEvaluation(p) \/ RecordCandidatePreflight(p)
  \/ CompleteCandidatePreflight(p) \/ Poll(p) \/ Crash(p)
  \/ \E r \in Runs : Request(p, r) \/ \E u \in Urls : Extract(p, r, u)

\* None of the quiet steps does, and none changes the trust records.
LEMMA QuietElsewhere ==
  ASSUME JobShape, NEW p \in Procs, Quiet(p)
  PROVE  Elsewhere(p) /\ UNCHANGED evaluations
<1> USE IdleShape
<1>1. CASE Search(p)
  <2>1. ASSUME NEW found \in SUBSET Urls,
               job' = [job EXCEPT ![p].at = "lock", ![p].urls = found, ![p].flag = FALSE]
        PROVE  Elsewhere(p)
    BY <2>1 DEF JobShape, Elsewhere
  <2>2. Goto(p, "mark_failed") \/ Stop(p) => Elsewhere(p)
    BY GotoElsewhere, StopElsewhere
  <2> QED
    BY <1>1, <2>1, <2>2 DEF Search, tables
<1>2. CASE MarkFailed(p)
  BY <1>2, StopElsewhere DEF MarkFailed
<1>3. CASE LockRun(p)
  BY <1>3 DEF LockRun, tables, JobShape, Elsewhere
<1>4. CASE SaveNewSources(p)
  <2>1. CASE job[p].urls = {}
    BY <1>4, <2>1, StopElsewhere DEF SaveNewSources
  <2>2. CASE job[p].urls # {}
    BY <1>4, <2>2, GotoElsewhere DEF SaveNewSources
  <2> QED
    BY <2>1, <2>2
<1>5. CASE Schedule(p)
  BY <1>5, GotoElsewhere, StopElsewhere DEF Schedule, tables
<1>6. CASE FailCandidatePreflight(p)
  BY <1>6, StopElsewhere DEF FailCandidatePreflight
<1>7. CASE Load(p)
  BY <1>7 DEF Load, tables, JobShape, Elsewhere
<1>8. ASSUME NEW u \in job[p].urls, TakeHeld(p, u) PROVE Elsewhere(p) /\ UNCHANGED evaluations
  BY <1>8 DEF TakeHeld, tables, JobShape, Elsewhere
<1>9. ASSUME NEW u \in job[p].urls, MarkCandidateChecking(p, u)
      PROVE  Elsewhere(p) /\ UNCHANGED evaluations
  BY <1>9 DEF MarkCandidateChecking, JobShape, Elsewhere
<1>10. CASE FetchFails(p)
  BY <1>10, StopElsewhere DEF FetchFails, tables, JobShape, Elsewhere
<1>11. CASE Fetch(p)
  BY <1>11 DEF Fetch, tables, JobShape, Elsewhere
<1>12. CASE LookForCapture(p)
  BY <1>12, GotoElsewhere DEF LookForCapture, tables
<1>13. CASE SaveEvidence(p)
  BY <1>13, GotoElsewhere DEF SaveEvidence
<1>14. CASE LookForEvaluation(p)
  BY <1>14, GotoElsewhere, JudgeElsewhere DEF LookForEvaluation, tables
<1>15. CASE RecordCandidatePreflight(p)
  BY <1>15 DEF RecordCandidatePreflight, JobShape, Elsewhere
<1>16. CASE CompleteCandidatePreflight(p)
  BY <1>16, StopElsewhere DEF CompleteCandidatePreflight
<1>17. CASE Poll(p)
  BY <1>17 DEF Poll, tables, JobShape, Elsewhere, Fields
<1>18. CASE Crash(p)
  BY <1>18, StopElsewhere DEF Crash, tables
<1>19. ASSUME NEW r \in Runs, Request(p, r) PROVE Elsewhere(p) /\ UNCHANGED evaluations
  BY <1>19 DEF Request, JobShape, Elsewhere, Fields
<1>20. ASSUME NEW r \in Runs, NEW u \in Urls, Extract(p, r, u)
       PROVE  Elsewhere(p) /\ UNCHANGED evaluations
  BY <1>20 DEF Extract, tables, JobShape, Elsewhere, Fields
<1> QED
  BY <1>1, <1>2, <1>3, <1>4, <1>5, <1>6, <1>7, <1>8, <1>9, <1>10, <1>11, <1>12, <1>13,
     <1>14, <1>15, <1>16, <1>17, <1>18, <1>19, <1>20 DEF Quiet

-----------------------------------------------------------------------------

\* Every step of the research runs is one of TrustSpec, or none.
LEMMA StepRefines ==
  ASSUME AcceptInv, [ResearchNext]_researchVars
  PROVE  [TrustNext]_evaluations
<1>1. ASSUME NEW p \in Procs, Evaluate(p) PROVE [TrustNext]_evaluations
  <2> DEFINE r == job[p].run
             v == job[p].version
  <2>1. RecordEvaluation(r, v)
    BY <1>1 DEF Evaluate
  <2>2. CASE r \in Runs /\ v \in Versions
    BY <2>1, <2>2 DEF TrustNext
  <2>3. CASE ~(r \in Runs /\ v \in Versions)
    BY <2>1, <2>3 DEF RecordEvaluation, AcceptInv, TrustInv, TrustTypeOK
  <2> QED
    BY <2>2, <2>3
<1>2. ASSUME NEW p \in Procs, Override(p) PROVE [TrustNext]_evaluations
  <2> DEFINE r == job[p].run
             v == job[p].version
             i == job[p].time
  <2>1. /\ r \in Runs /\ v \in Versions
        /\ i \in DOMAIN evaluations[r][v] /\ SeenForReview(r, v, i)
    BY <1>2 DEF Override, AcceptInv, SightInv, SawForReview
  <2>2. \E kind \in {"permanent", "expiring"} : AcceptEvaluation(r, v, i, kind)
    BY <1>2 DEF Override
  <2> HIDE DEF r, v, i
  <2> QED
    BY <2>1, <2>2 DEF TrustNext
<1>3. CASE Deadline
  BY <1>3 DEF Deadline, TrustNext
<1>4. ASSUME NEW p \in Procs, Quiet(p) PROVE UNCHANGED evaluations
  BY <1>4, QuietElsewhere DEF AcceptInv
<1>5. ASSUME NEW p \in Procs, Reread(p) PROVE UNCHANGED evaluations
  BY <1>5 DEF Reread, tables
<1>6. ASSUME NEW p \in Procs, NEW r \in Runs, NEW v \in Versions, Accept(p, r, v)
      PROVE  UNCHANGED evaluations
  BY <1>6 DEF Accept, tables
<1>7. UNCHANGED researchVars => UNCHANGED evaluations
  BY DEF researchVars, tables
<1> QED
  BY <1>1, <1>2, <1>3, <1>4, <1>5, <1>6, <1>7 DEF ResearchNext, Proceed, Rest, Quiet

\* What was seen to require review stays there while others add and accept.
LEMMA ReviewKept ==
  ASSUME TrustInv, [TrustNext]_evaluations, NEW r \in Runs, NEW v \in Versions,
         NEW i \in DOMAIN evaluations[r][v], SeenForReview(r, v, i)
  PROVE  /\ Len(evaluations[r][v]) \in Nat
         /\ Len(evaluations'[r][v]) \in Nat
         /\ Len(evaluations'[r][v]) >= Len(evaluations[r][v])
         /\ \A k \in i .. Len(evaluations'[r][v]) :
              /\ k \in DOMAIN evaluations'[r][v]
              /\ \E j \in 1 .. k : evaluations'[r][v][j].base = "review_required"
<1> DEFINE s == evaluations[r][v]
           t == evaluations'[r][v]
<1>1. s \in Seq(Row) /\ t \in Seq(Row)
  BY TrustInvStep DEF TrustInv, TrustTypeOK
<1>2. Len(t) >= Len(s) /\ \A j \in 1 .. Len(s) : t[j].base = s[j].base
  BY NothingForgotten DEF TrustInv, Grown
<1>3. i \in 1 .. Len(s)
  BY <1>1
<1>4. PICK j \in 1 .. i : s[j].base = "review_required"
  BY DEF SeenForReview
<1>5. Len(s) \in Nat /\ Len(t) \in Nat /\ DOMAIN t = 1 .. Len(t)
  BY <1>1
<1> HIDE DEF s, t
<1>6. \A k \in i .. Len(t) : k \in DOMAIN t /\ \E l \in 1 .. k : t[l].base = "review_required"
  <2>1. t[j].base = "review_required"
    BY <1>2, <1>3, <1>4, <1>5
  <2> QED
    BY <2>1, <1>3, <1>4, <1>5
<1> QED
  BY <1>2, <1>5, <1>6 DEF s, t

\* So a process that does nothing still has seen what it needs.
LEMMA SightKept ==
  ASSUME AcceptInv, [TrustNext]_evaluations, NEW p \in Procs, job'[p] = job[p]
  PROVE  /\ At(p, "reread")' =>
              SawForReview(p, Len(evaluations[job[p].run][job[p].version]))'
         /\ At(p, "override")' => SawForReview(p, job[p].time)'
<1> DEFINE r == job[p].run
           v == job[p].version
<1>1. CASE At(p, "reread")
  <2>1. /\ r \in Runs /\ v \in Versions
        /\ Len(evaluations[r][v]) \in DOMAIN evaluations[r][v]
        /\ SeenForReview(r, v, Len(evaluations[r][v]))
    BY <1>1 DEF AcceptInv, SightInv, SawForReview
  <2> HIDE DEF r, v
  <2>2. /\ Len(evaluations'[r][v]) \in DOMAIN evaluations'[r][v]
        /\ \E j \in 1 .. Len(evaluations'[r][v]) :
             evaluations'[r][v][j].base = "review_required"
    BY <2>1, ReviewKept DEF AcceptInv
  <2>3. SawForReview(p, Len(evaluations[job[p].run][job[p].version]))'
    BY <2>1, <2>2 DEF SawForReview, SeenForReview, r, v
  <2> QED
    BY <1>1, <2>3 DEF At
<1>2. CASE At(p, "override")
  <2> DEFINE i == job[p].time
  <2>1. /\ r \in Runs /\ v \in Versions
        /\ i \in DOMAIN evaluations[r][v] /\ SeenForReview(r, v, i)
    BY <1>2 DEF AcceptInv, SightInv, SawForReview
  <2>2. DOMAIN evaluations[r][v] = 1 .. Len(evaluations[r][v])
    BY <2>1 DEF AcceptInv, TrustInv, TrustTypeOK
  <2> HIDE DEF r, v, i
  <2>3. /\ i \in DOMAIN evaluations'[r][v]
        /\ \E j \in 1 .. i : evaluations'[r][v][j].base = "review_required"
    <3>1. i \in i .. Len(evaluations'[r][v])
      BY <2>1, <2>2, ReviewKept DEF AcceptInv
    <3> QED
      BY <2>1, <3>1, ReviewKept DEF AcceptInv
  <2>4. SawForReview(p, job[p].time)'
    BY <2>1, <2>3 DEF SawForReview, SeenForReview, r, v, i
  <2> QED
    BY <1>2, <2>4 DEF At
<1> QED
  BY <1>1, <1>2 DEF At

-----------------------------------------------------------------------------

\* Nothing was accepted or looked at in the beginning.
LEMMA AcceptInvInit == ResearchInit => AcceptInv
<1> SUFFICES ASSUME ResearchInit PROVE AcceptInv
  OBVIOUS
<1>1. TrustInv
  BY TrustInvInit DEF ResearchInit
<1>2. job = [p \in Procs |-> IdleJob]
  BY DEF ResearchInit
<1>3. JobShape
  BY <1>2 DEF JobShape, Fields
<1>4. SightInv
  BY <1>2, IdleShape DEF SightInv, At
<1> QED
  BY <1>1, <1>3, <1>4 DEF AcceptInv

\* What a step of one process, away from an acceptance, leaves.
LEMMA ElsewhereKeeps ==
  ASSUME AcceptInv, [TrustNext]_evaluations, NEW p \in Procs, Elsewhere(p)
  PROVE  JobShape' /\ SightInv'
<1>1. JobShape'
  BY DEF Elsewhere, JobShape, AcceptInv
<1>2. SightInv'
  <2> SUFFICES ASSUME NEW q \in Procs
               PROVE  /\ At(q, "reread")' =>
                           SawForReview(q, Len(evaluations[job[q].run][job[q].version]))'
                      /\ At(q, "override")' => SawForReview(q, job[q].time)'
    BY DEF SightInv
  <2>1. CASE q = p
    BY <2>1 DEF Elsewhere, At
  <2>2. CASE q # p
    BY <2>2, SightKept DEF Elsewhere
  <2> QED
    BY <2>1, <2>2
<1> QED
  BY <1>1, <1>2

\* The two steps that lead to an acceptance look at the records first.
LEMMA AcceptKeepsSight ==
  ASSUME AcceptInv, NEW p \in Procs, NEW r \in Runs, NEW v \in Versions, Accept(p, r, v)
  PROVE  JobShape' /\ SightInv'
<1>1. /\ job' = [job EXCEPT ![p] = [IdleJob EXCEPT
           !.mode = "accept", !.at = "reread", !.run = r, !.version = v]]
      /\ UNCHANGED evaluations
  BY DEF Accept, tables
<1>2. /\ DOMAIN job' = Procs /\ DOMAIN job'[p] = Fields
      /\ job'[p].at = "reread" /\ job'[p].run = r /\ job'[p].version = v
      /\ \A q \in Procs : q # p => job'[q] = job[q]
  BY <1>1, IdleShape DEF AcceptInv, JobShape, Fields
<1>3. JobShape'
  BY <1>2 DEF AcceptInv, JobShape
<1>4. /\ Len(evaluations[r][v]) \in DOMAIN evaluations[r][v]
      /\ SeenForReview(r, v, Len(evaluations[r][v]))
  <2> DEFINE s == evaluations[r][v]
  <2>1. s \in Seq(Row) /\ s # <<>> /\ s[Len(s)].base = "review_required"
    BY DEF Accept, Acceptable, Evaluated, Latest, AcceptInv, TrustInv, TrustTypeOK
  <2>2. Len(s) \in 1 .. Len(s) /\ DOMAIN s = 1 .. Len(s)
    BY <2>1
  <2> QED
    BY <2>1, <2>2 DEF SeenForReview
<1>5. SightInv'
  <2> SUFFICES ASSUME NEW q \in Procs
               PROVE  /\ At(q, "reread")' =>
                           SawForReview(q, Len(evaluations[job[q].run][job[q].version]))'
                      /\ At(q, "override")' => SawForReview(q, job[q].time)'
    BY DEF SightInv
  <2>1. CASE q = p
    BY <1>1, <1>2, <1>4, <2>1 DEF At, SawForReview, SeenForReview
  <2>2. CASE q # p
    BY <1>1, <1>2, <2>2, SightKept
  <2> QED
    BY <2>1, <2>2
<1> QED
  BY <1>3, <1>5

\* The row read again still requires review, or did when it was seen.
LEMMA RereadKeepsSight ==
  ASSUME AcceptInv, NEW p \in Procs, Reread(p)
  PROVE  JobShape' /\ SightInv'
<1> DEFINE n == Len(evaluations[job[p].run][job[p].version])
<1>1. /\ At(p, "reread") /\ UNCHANGED evaluations
      /\ job' = [job EXCEPT ![p].at = "override", ![p].time = n]
  BY DEF Reread, tables
<1>2. SawForReview(p, n)
  BY <1>1 DEF AcceptInv, SightInv
<1> HIDE DEF n
<1>3. /\ DOMAIN job' = Procs /\ DOMAIN job'[p] = Fields
      /\ job'[p].at = "override" /\ job'[p].time = n
      /\ job'[p].run = job[p].run /\ job'[p].version = job[p].version
      /\ \A q \in Procs : q # p => job'[q] = job[q]
  BY <1>1, IdleShape DEF AcceptInv, JobShape
<1>4. JobShape'
  BY <1>3 DEF AcceptInv, JobShape
<1>5. SightInv'
  <2> SUFFICES ASSUME NEW q \in Procs
               PROVE  /\ At(q, "reread")' =>
                           SawForReview(q, Len(evaluations[job[q].run][job[q].version]))'
                      /\ At(q, "override")' => SawForReview(q, job[q].time)'
    BY DEF SightInv
  <2>1. CASE q = p
    BY <1>1, <1>2, <1>3, <2>1 DEF At, SawForReview, SeenForReview
  <2>2. CASE q # p
    BY <1>1, <1>3, <2>2, SightKept
  <2> QED
    BY <2>1, <2>2
<1> QED
  BY <1>4, <1>5

\* AcceptInv is inductive.
LEMMA AcceptInvStep == AcceptInv /\ [ResearchNext]_researchVars => AcceptInv'
<1> SUFFICES ASSUME AcceptInv, [ResearchNext]_researchVars PROVE AcceptInv'
  OBVIOUS
<1>1. [TrustNext]_evaluations
  BY StepRefines
<1>2. TrustInv'
  BY <1>1, TrustInvStep DEF AcceptInv
<1>3. JobShape' /\ SightInv'
  <2>1. ASSUME NEW p \in Procs, Quiet(p) PROVE JobShape' /\ SightInv'
    BY <1>1, <2>1, QuietElsewhere, ElsewhereKeeps DEF AcceptInv
  <2>2. ASSUME NEW p \in Procs, Evaluate(p) PROVE JobShape' /\ SightInv'
    BY <1>1, <2>2, JudgeElsewhere, ElsewhereKeeps DEF AcceptInv, Evaluate
  <2>3. ASSUME NEW p \in Procs, Override(p) PROVE JobShape' /\ SightInv'
    BY <1>1, <2>3, StopElsewhere, ElsewhereKeeps DEF AcceptInv, Override
  <2>4. ASSUME NEW p \in Procs, Reread(p) PROVE JobShape' /\ SightInv'
    BY <2>4, RereadKeepsSight
  <2>5. ASSUME NEW p \in Procs, NEW r \in Runs, NEW v \in Versions, Accept(p, r, v)
        PROVE  JobShape' /\ SightInv'
    BY <2>5, AcceptKeepsSight
  <2>6. ASSUME UNCHANGED job PROVE JobShape' /\ SightInv'
    <3>1. JobShape'
      BY <2>6 DEF AcceptInv, JobShape
    <3>2. SightInv'
      BY <1>1, <2>6, SightKept DEF SightInv
    <3> QED
      BY <3>1, <3>2
  <2>7. Deadline \/ UNCHANGED researchVars => UNCHANGED job
    BY DEF Deadline, researchVars
  <2> QED
    BY <2>1, <2>2, <2>3, <2>4, <2>5, <2>6, <2>7 DEF ResearchNext, Proceed, Rest, Quiet
<1> QED
  BY <1>2, <1>3 DEF AcceptInv

-----------------------------------------------------------------------------

\* However requests, activities, deadlines and crashes interleave, the trust
\* records change only as TrustSpec says, although evaluate() and accept() look
\* first and insert later (web_trust/service.py:23-62, web_trust/store.py:174-195).
THEOREM ResearchRefinesTrust == ResearchSpec => ImplementsTrust
<1>1. ResearchInit => TrustInit
  BY DEF ResearchInit
<1>2. AcceptInv /\ [ResearchNext]_researchVars => [TrustNext]_evaluations
  BY StepRefines
<1> QED
  BY <1>1, <1>2, AcceptInvInit, AcceptInvStep, PTL DEF ResearchSpec, ImplementsTrust, TrustSpec

\* So a version that the policy blocks stays unusable in every run of the
\* workspace, whatever operators accept at the same time.
THEOREM BlockedInResearch == ResearchSpec => []BlockedNeverUsable
BY ResearchRefinesTrust, BlockedStaysBlocked DEF ImplementsTrust

-----------------------------------------------------------------------------
(* What each request and activity remembers, and the tables it works on.    *)

AtPage == {"fetch", "capture", "retain", "lookup", "record", "verdict"}

\* Labels of a process that has a batch of candidates to see through.
Claiming == {"schedule", "fail_preflight", "load", "next"} \cup AtPage

ModeOK(p) ==
  \/ job[p].mode = "none" /\ job[p].at = "idle"
  \/ /\ job[p].mode = "discover"
     /\ job[p].at \in {"search", "mark_failed", "lock", "insert"} \cup Claiming
  \/ job[p].mode = "extract" /\ job[p].at \in AtPage \ {"verdict"}
  \/ job[p].mode = "accept" /\ job[p].at \in {"reread", "override"}

Kept(v) == v \in Versions /\ Retained(v)

\* What makes a version fit to be extracted, and stays so.
Vetted(r, v) ==
  /\ Kept(v) /\ Evaluated(r, v)
  /\ \/ Disposition(v) \in Usable
     \/ \E i \in DOMAIN evaluations[r][v] : evaluations[r][v][i].overrides # {}

HeldOK(p) == \A u \in job[p].urls : job[p].held[u] = "none" \/ Kept(job[p].held[u])

TaskOK(p) ==
  /\ ModeOK(p)
  /\ job[p].urls \subseteq Urls /\ job[p].version \in Versions \cup {"none"}
  /\ job[p].at # "idle" => job[p].run \in Runs
  /\ job[p].at \in AtPage => job[p].url \in Urls
  /\ job[p].mode = "discover" /\ job[p].at \in AtPage => job[p].url \in job[p].urls
  /\ job[p].mode = "discover" /\ job[p].at \in AtPage \cup {"next"} => HeldOK(p)
  /\ job[p].at \in {"capture", "retain"} => job[p].version \in Versions /\ job[p].time \in Nat
  /\ job[p].at \in {"lookup", "record"} => Kept(job[p].version)
  /\ job[p].at = "verdict" =>
       /\ job[p].result \in Verdicts
       /\ job[p].result = "ready_to_extract" => Vetted(job[p].run, job[p].version)

SourceRows == [status : CandidateStatuses, version : Versions \cup {"none"}]

RecordsOK ==
  /\ run \in [Runs -> RunStatuses]
  /\ source \in [Runs -> [Urls -> SourceRows]]
  /\ evidence \subseteq [version : Versions, at : Nat]
  /\ fetches \in [Urls -> Nat]
  /\ \A batch \in queue : batch.run \in Runs /\ batch.urls \subseteq Urls
  /\ lost \subseteq Runs

\* Among the captures of a page there is a latest one.
LatestInv ==
  \A u \in Urls : Captures(u) # {} =>
    \E e \in Captures(u) : \A f \in Captures(u) : f.at <= e.at

ReadyInv ==
  \A r \in Runs, u \in Urls :
    source[r][u].status = "ready_to_extract" => Vetted(r, source[r][u].version)

TasksInv == (\A p \in Procs : TaskOK(p)) /\ RecordsOK /\ LatestInv /\ ReadyInv

-----------------------------------------------------------------------------
(* Who sees a candidate through.                                            *)

Preflights(p) == job[p].mode = "discover" /\ job[p].at \in Claiming

Claims(p) == IF Preflights(p) THEN job[p].urls ELSE {}

\* A candidate without a verdict is claimed by one batch at most, which is in
\* the hands of one process or waits in the queue.
ClaimInv ==
  /\ \A p \in Procs : \A u \in Claims(p) : source[job[p].run][u].status \in Unchecked
  /\ \A p, q \in Procs : p # q /\ job[p].run = job[q].run => Claims(p) \cap Claims(q) = {}
  /\ \A b \in queue : \A u \in b.urls : source[b.run][u].status \in Unchecked
  /\ \A b \in queue, p \in Procs : b.run = job[p].run => b.urls \cap Claims(p) = {}
  /\ \A b, c \in queue : b # c /\ b.run = c.run => b.urls \cap c.urls = {}
  /\ \A p \in Procs : At(p, "insert") =>
       /\ \A u \in job[p].urls : source[job[p].run][u].status = "absent"
       /\ \A q \in Procs \ {p} : At(q, "insert") => job[q].run # job[p].run

\* Somebody is about to say what the run found.
Finding(p, r) ==
  /\ job[p].mode = "discover" /\ job[p].run = r
  /\ \/ At(p, "search") /\ job[p].flag
     \/ job[p].at \in {"mark_failed", "lock", "insert"}

\* A batch with the candidate, or with any of the run, is in progress or waits.
ClaimedInRun(r, u) ==
  \/ \E p \in Procs : job[p].run = r /\ u \in Claims(p)
  \/ \E b \in queue : b.run = r /\ u \in b.urls

Preflighted(r) ==
  \/ \E p \in Procs : Preflights(p) /\ job[p].run = r
  \/ \E b \in queue : b.run = r

\* What is still to be done has somebody to do it, unless it was lost.
SettleInv ==
  /\ \A r \in Runs \ lost :
       /\ \A u \in Urls : source[r][u].status \in Unchecked => ClaimedInRun(r, u)
       /\ run[r] = "preflighting" => Preflighted(r)
       /\ run[r] = "searching" => KnownUrls # {} \/ \E p \in Procs : Finding(p, r)
  /\ \A p \in Procs :
       At(p, "insert") /\ job[p].urls = {} /\ ~job[p].flag => KnownUrls # {}

-----------------------------------------------------------------------------
(* What a process remembers stays true while others work.                   *)

\* Retained captures stay.
LEMMA KeptStays ==
  ASSUME evidence \subseteq evidence', NEW v, Kept(v)
  PROVE  Kept(v)'
BY DEF Kept, Retained

\* What was evaluated and found usable, or accepted, stays so.
LEMMA VettedStays ==
  ASSUME AcceptInv, [TrustNext]_evaluations, evidence \subseteq evidence',
         NEW r \in Runs, NEW v, Vetted(r, v)
  PROVE  Vetted(r, v)'
<1> DEFINE s == evaluations[r][v]
           t == evaluations'[r][v]
<1>1. v \in Versions /\ Kept(v)'
  BY KeptStays DEF Vetted, Kept
<1>2. s \in Seq(Row) /\ t \in Seq(Row)
  BY <1>1, TrustInvStep DEF AcceptInv, TrustInv, TrustTypeOK
<1>3. /\ Len(t) >= Len(s)
      /\ \A j \in 1 .. Len(s) : s[j].overrides # {} => t[j].overrides # {}
  BY <1>1, NothingForgotten DEF AcceptInv, TrustInv, Grown
<1>4. Len(s) \in Nat /\ Len(t) \in Nat /\ DOMAIN s = 1 .. Len(s) /\ DOMAIN t = 1 .. Len(t)
  BY <1>2
<1>5. s # <<>>
  BY DEF Vetted, Evaluated
<1>6. t # <<>>
  BY <1>2, <1>3, <1>5, EmptySeq
<1>7. (\E i \in DOMAIN s : s[i].overrides # {}) => \E i \in DOMAIN t : t[i].overrides # {}
  BY <1>3, <1>4
<1> QED
  BY <1>1, <1>6, <1>7 DEF Vetted, Evaluated, Disposition, Rules

\* The captures a batch started from stay.
LEMMA HeldKept ==
  ASSUME evidence \subseteq evidence', NEW q \in Procs, HeldOK(q),
         job'[q].urls \subseteq job[q].urls, job'[q].held = job[q].held
  PROVE  HeldOK(q)'
BY DEF HeldOK, Kept, Retained

\* A process at rest is as it was.
LEMMA OthersKeep ==
  ASSUME AcceptInv, [TrustNext]_evaluations, evidence \subseteq evidence',
         NEW q \in Procs, TaskOK(q), job'[q] = job[q]
  PROVE  TaskOK(q)'
<1>1. ModeOK(q)'
  BY DEF TaskOK, ModeOK
<1>2. \A v : Kept(v) => Kept(v)'
  BY KeptStays
<1>3. HeldOK(q) => HeldOK(q)'
  BY HeldKept
<1>4. Kept(job[q].version) => Kept(job[q].version)'
  <2>1. PICK v : v = job[q].version
    OBVIOUS
  <2> QED
    BY <1>2, <2>1 DEF Kept, Retained
<1>5. ASSUME job[q].at = "verdict", Vetted(job[q].run, job[q].version)
      PROVE  Vetted(job[q].run, job[q].version)'
  <2>1. PICK r \in Runs : r = job[q].run
    BY <1>5 DEF TaskOK
  <2>2. PICK v : v = job[q].version
    OBVIOUS
  <2>3. Vetted(r, v)'
    BY <1>5, <2>1, <2>2, VettedStays
  <2> QED
    BY <2>1, <2>2, <2>3 DEF Vetted, Kept, Retained, Evaluated
<1> QED
  BY <1>1, <1>3, <1>4, <1>5 DEF TaskOK

-----------------------------------------------------------------------------
(* What a process remembers of its own step.                                *)

\* A process that stops remembers nothing.
LEMMA Stopped ==
  ASSUME JobShape, NEW p \in Procs, Stop(p)
  PROVE  TaskOK(p)' /\ job'[p].mode = "none" /\ job'[p].at = "idle"
<1>1. job'[p] = IdleJob
  BY DEF Stop, JobShape
<1>2. /\ IdleJob.mode = "none" /\ IdleJob.at = "idle" /\ IdleJob.urls = {}
      /\ IdleJob.version = "none"
  BY DEF IdleJob
<1> QED
  BY <1>1, <1>2 DEF TaskOK, ModeOK, AtPage

\* A process that goes on remembers what it did.
LEMMA Went ==
  ASSUME JobShape, NEW p \in Procs, NEW label, Goto(p, label)
  PROVE  /\ job'[p].at = label
         /\ job'[p].mode = job[p].mode /\ job'[p].run = job[p].run
         /\ job'[p].urls = job[p].urls /\ job'[p].held = job[p].held
         /\ job'[p].url = job[p].url /\ job'[p].version = job[p].version
         /\ job'[p].time = job[p].time /\ job'[p].result = job[p].result
         /\ job'[p].flag = job[p].flag
BY IdleShape DEF JobShape, Goto

\* The latest capture of a page is retained.
LEMMA LatestKept ==
  ASSUME RecordsOK, LatestInv, NEW u \in Urls
  PROVE  LatestCapture(u) = "none" \/ Kept(LatestCapture(u))
<1> SUFFICES ASSUME Captures(u) # {} PROVE Kept(LatestCapture(u))
  BY DEF LatestCapture
<1> DEFINE e == CHOOSE x \in Captures(u) : \A f \in Captures(u) : f.at <= x.at
<1>1. e \in Captures(u)
  BY DEF LatestInv
<1>2. LatestCapture(u) = e.version
  BY DEF LatestCapture
<1>3. e \in evidence /\ e.version \in Versions
  BY <1>1 DEF Captures, RecordsOK
<1> HIDE DEF e
<1> QED
  BY <1>2, <1>3 DEF Kept, Retained

\* An effective disposition that is usable was earned or decided.
LEMMA UsableIsVetted ==
  ASSUME AcceptInv, NEW r \in Runs, NEW v, Kept(v), Evaluated(r, v),
         Effective(Latest(r, v)) \in Usable
  PROVE  Vetted(r, v)
<1> DEFINE s == evaluations[r][v]
<1>1. s \in Seq(Row) /\ s # <<>>
  BY DEF Kept, Evaluated, AcceptInv, TrustInv, TrustTypeOK
<1>2. Len(s) \in DOMAIN s
  BY <1>1
<1>3. Latest(r, v) = s[Len(s)] /\ s[Len(s)].base = Disposition(v)
  BY <1>2 DEF Latest, AcceptInv, TrustInv, RowsFollowPolicy, Kept
<1>4. CASE InForce(Latest(r, v))
  BY <1>2, <1>3, <1>4 DEF InForce, Vetted
<1>5. CASE ~InForce(Latest(r, v))
  BY <1>3, <1>5 DEF Effective, Vetted
<1> QED
  BY <1>4, <1>5

\* Verdicts are what readiness makes of a disposition.
LEMMA ReadinessType ==
  ASSUME NEW d \in Dispositions
  PROVE  Readiness(d) \in Verdicts /\ (Readiness(d) = "ready_to_extract" => d \in Usable)
BY DEF Readiness, Dispositions, Usable, Verdicts

\* A process that judges takes the verdict to the candidate, if it has one.
LEMMA Judged ==
  ASSUME JobShape, NEW p \in Procs, NEW d \in Dispositions, Judge(p, d), TaskOK(p),
         job[p].at \in {"lookup", "record"}, evidence' = evidence,
         NEW r, NEW v, r = job[p].run, v = job[p].version, d \in Usable => Vetted(r, v)'
  PROVE  TaskOK(p)'
<1>1. CASE Stop(p)
  BY <1>1, Stopped
<1>2. CASE job[p].mode # "extract" /\
           job' = [job EXCEPT ![p].at = "verdict", ![p].result = Readiness(d)]
  <2>1. /\ job'[p].at = "verdict" /\ job'[p].result = Readiness(d)
        /\ job'[p].mode = job[p].mode /\ job'[p].run = job[p].run
        /\ job'[p].urls = job[p].urls /\ job'[p].held = job[p].held
        /\ job'[p].url = job[p].url /\ job'[p].version = job[p].version
    BY <1>2, IdleShape DEF JobShape
  <2>2. Readiness(d) = "ready_to_extract" => Vetted(job[p].run, job[p].version)'
    <3>1. Readiness(d) = "ready_to_extract" => Vetted(r, v)'
      BY ReadinessType
    <3> QED
      BY <2>1, <3>1 DEF Vetted, Kept, Retained, Evaluated
  <2>4. ModeOK(p)' /\ job[p].mode = "discover"
    BY <1>2, <2>1 DEF TaskOK, ModeOK, AtPage, Claiming
  <2>6. HeldOK(p)'
    BY <2>1, <2>4, HeldKept DEF TaskOK, AtPage
  <2>7. /\ job'[p].urls \subseteq Urls /\ job'[p].version \in Versions \cup {"none"}
        /\ job'[p].run \in Runs /\ job'[p].url \in Urls /\ job'[p].url \in job'[p].urls
    BY <2>1, <2>4 DEF TaskOK, AtPage
  <2>8. job'[p].result \in Verdicts
    BY <2>1, ReadinessType
  <2> QED
    BY <2>1, <2>2, <2>4, <2>6, <2>7, <2>8 DEF TaskOK, AtPage
<1> QED
  BY <1>1, <1>2 DEF Judge

\* A search, and the insertion of what it found.
LEMMA DiscoveryStep ==
  ASSUME JobShape, TasksInv, NEW p \in Procs, evidence \subseteq evidence',
         \/ Search(p) \/ MarkFailed(p) \/ LockRun(p) \/ SaveNewSources(p)
         \/ Schedule(p) \/ FailCandidatePreflight(p) \/ Crash(p)
         \/ CompleteCandidatePreflight(p) \/ Override(p) \/ Poll(p)
         \/ \E r \in Runs : Request(p, r) \/ \E u \in Urls : Extract(p, r, u)
  PROVE  TaskOK(p)'
<1>0. TaskOK(p)
  BY DEF TasksInv
<1>1. Stop(p) => TaskOK(p)'
  BY Stopped
<1>2. ASSUME NEW label \in {"mark_failed", "load", "schedule", "fail_preflight"}, Goto(p, label),
             job[p].at \in {"search", "insert", "schedule"}
      PROVE  TaskOK(p)'
  <2>1. /\ job'[p].at = label
        /\ job'[p].mode = "discover" /\ job'[p].run \in Runs
        /\ job'[p].urls \subseteq Urls /\ job'[p].version \in Versions \cup {"none"}
    BY <1>0, <1>2, Went DEF TaskOK, ModeOK, AtPage
  <2> QED
    BY <2>1 DEF TaskOK, ModeOK, AtPage, Claiming
<1>3. CASE Search(p)
  <2>1. ASSUME NEW found \in SUBSET Urls,
               job' = [job EXCEPT ![p].at = "lock", ![p].urls = found, ![p].flag = FALSE]
        PROVE  TaskOK(p)'
    <3>1. /\ job'[p].at = "lock" /\ job'[p].urls = found
          /\ job'[p].mode = job[p].mode /\ job'[p].run = job[p].run
          /\ job'[p].version = job[p].version
      BY <2>1, IdleShape DEF JobShape
    <3>2. job[p].at = "search"
      BY <1>3 DEF Search, At
    <3> QED
      BY <1>0, <3>1, <3>2 DEF TaskOK, ModeOK, AtPage
  <2> QED
    BY <1>1, <1>2, <1>3, <2>1 DEF Search, At
<1>4. CASE LockRun(p)
  <2>1. /\ job'[p].at = "insert" /\ job'[p].urls \subseteq job[p].urls
        /\ job'[p].mode = job[p].mode /\ job'[p].run = job[p].run
        /\ job'[p].version = job[p].version
    BY <1>4, IdleShape DEF JobShape, LockRun
  <2>2. job[p].at = "lock"
    BY <1>4 DEF LockRun, At
  <2> QED
    BY <1>0, <2>1, <2>2 DEF TaskOK, ModeOK, AtPage
<1>5. CASE SaveNewSources(p)
  <2>1. job[p].at = "insert" /\ (Stop(p) \/ Goto(p, "load") \/ Goto(p, "schedule"))
    <3>1. job[p].urls # {} =>
            Goto(p, IF Cardinality(job[p].urls) <= DirectLimit THEN "load" ELSE "schedule")
      BY <1>5 DEF SaveNewSources
    <3> QED
      BY <1>5, <3>1 DEF SaveNewSources, At
  <2> QED
    BY <1>1, <1>2, <2>1
<1>6. CASE Schedule(p)
  BY <1>1, <1>2, <1>6 DEF Schedule, At
<1>7. CASE \/ MarkFailed(p) \/ FailCandidatePreflight(p) \/ Crash(p)
           \/ CompleteCandidatePreflight(p) \/ Override(p)
  BY <1>1, <1>7 DEF MarkFailed, FailCandidatePreflight, Crash, CompleteCandidatePreflight, Override
<1>8. CASE Poll(p)
  <2>1. PICK b \in queue :
          job' = [job EXCEPT ![p] = [IdleJob EXCEPT !.mode = "discover", !.at = "load",
                                     !.run = b.run, !.urls = b.urls]]
    BY <1>8 DEF Poll
  <2>2. b.run \in Runs /\ b.urls \subseteq Urls
    BY DEF TasksInv, RecordsOK
  <2>3. /\ job'[p].mode = "discover" /\ job'[p].at = "load" /\ job'[p].run = b.run
        /\ job'[p].urls = b.urls /\ job'[p].version = "none"
    BY <2>1 DEF JobShape, IdleJob
  <2> QED
    BY <2>2, <2>3 DEF TaskOK, ModeOK, AtPage, Claiming
<1>9. ASSUME NEW r \in Runs, Request(p, r) PROVE TaskOK(p)'
  <2>1. /\ job'[p].mode = "discover" /\ job'[p].at = "search" /\ job'[p].run = r
        /\ job'[p].urls = {} /\ job'[p].version = "none"
    BY <1>9 DEF JobShape, IdleJob, Request
  <2> QED
    BY <2>1 DEF TaskOK, ModeOK, AtPage
<1>10. ASSUME NEW r \in Runs, NEW u \in Urls, Extract(p, r, u) PROVE TaskOK(p)'
  <2>1. /\ job'[p].mode = "extract" /\ job'[p].at = "fetch" /\ job'[p].run = r
        /\ job'[p].urls = {} /\ job'[p].version = "none" /\ job'[p].url = u
    BY <1>10 DEF JobShape, IdleJob, Extract
  <2> QED
    BY <2>1 DEF TaskOK, ModeOK, AtPage
<1> QED
  BY <1>3, <1>4, <1>5, <1>6, <1>7, <1>8, <1>9, <1>10

\* The preflight of a batch, or the retrieval of a page.
LEMMA PreflightStep ==
  ASSUME AcceptInv, TasksInv, NEW p \in Procs, [TrustNext]_evaluations,
         \/ Load(p) \/ \E u \in job[p].urls : TakeHeld(p, u) \/ MarkCandidateChecking(p, u)
         \/ FetchFails(p) \/ Fetch(p) \/ LookForCapture(p) \/ SaveEvidence(p)
         \/ LookForEvaluation(p) \/ Evaluate(p) \/ RecordCandidatePreflight(p)
  PROVE  TaskOK(p)'
<1>0. TaskOK(p) /\ JobShape /\ RecordsOK /\ LatestInv
  BY DEF TasksInv, AcceptInv
<1>1. Stop(p) => TaskOK(p)'
  BY <1>0, Stopped
<1>2. CASE Load(p)
  <2> DEFINE open == {u \in job[p].urls : source[job[p].run][u].status \in Unchecked}
  <2>1. /\ job'[p].at = "next" /\ job'[p].urls = open
        /\ job'[p].held = [u \in open |-> LatestCapture(u)]
        /\ job'[p].mode = job[p].mode /\ job'[p].run = job[p].run
        /\ job'[p].version = job[p].version
    BY <1>0, <1>2, IdleShape DEF JobShape, Load
  <2>2. job[p].at = "load" /\ open \subseteq Urls /\ UNCHANGED evidence
    BY <1>0, <1>2 DEF Load, At, TaskOK, tables
  <2>3. \A u \in open : job'[p].held[u] = "none" \/ Kept(job'[p].held[u])
    BY <1>0, <2>1, <2>2, LatestKept
  <2>4. HeldOK(p)'
    BY <2>1, <2>2, <2>3 DEF HeldOK, Kept, Retained
  <2> HIDE DEF open
  <2> QED
    BY <1>0, <2>1, <2>2, <2>4 DEF TaskOK, ModeOK, AtPage, Claiming
<1>3. ASSUME NEW u \in job[p].urls, TakeHeld(p, u) PROVE TaskOK(p)'
  <2>1. /\ job'[p].at = "lookup" /\ job'[p].url = u /\ job'[p].version = job[p].held[u]
        /\ job'[p].urls = job[p].urls /\ job'[p].held = job[p].held
        /\ job'[p].mode = job[p].mode /\ job'[p].run = job[p].run
    BY <1>0, <1>3, IdleShape DEF JobShape, TakeHeld
  <2>2. job[p].at = "next" /\ job[p].held[u] # "none" /\ UNCHANGED evidence
    BY <1>3 DEF TakeHeld, At, tables
  <2>3. HeldOK(p) /\ job[p].mode = "discover"
    BY <1>0, <2>2 DEF TaskOK, ModeOK, AtPage
  <2>4. Kept(job[p].held[u])
    BY <2>2, <2>3 DEF HeldOK
  <2>5. Kept(job[p].version)' /\ HeldOK(p)'
    BY <2>1, <2>2, <2>3, <2>4, HeldKept DEF Kept, Retained
  <2> QED
    BY <1>0, <2>1, <2>2, <2>3, <2>5 DEF TaskOK, ModeOK, AtPage, Claiming, Kept
<1>4. ASSUME NEW u \in job[p].urls, MarkCandidateChecking(p, u) PROVE TaskOK(p)'
  <2>1. /\ job'[p].at = "fetch" /\ job'[p].url = u /\ job'[p].version = job[p].version
        /\ job'[p].urls = job[p].urls /\ job'[p].held = job[p].held
        /\ job'[p].mode = job[p].mode /\ job'[p].run = job[p].run
    BY <1>0, <1>4, IdleShape DEF JobShape, MarkCandidateChecking
  <2>2. job[p].at = "next" /\ UNCHANGED evidence
    BY <1>4 DEF MarkCandidateChecking, At
  <2>3. HeldOK(p) /\ job[p].mode = "discover"
    BY <1>0, <2>2 DEF TaskOK, ModeOK, AtPage
  <2>4. HeldOK(p)'
    BY <2>1, <2>2, <2>3, HeldKept
  <2> QED
    BY <1>0, <2>1, <2>2, <2>3, <2>4 DEF TaskOK, ModeOK, AtPage, Claiming
<1>5. CASE FetchFails(p)
  <2>1. ASSUME NEW result \in {"blocked", "unreachable"}, job[p].mode # "extract",
               job' = [job EXCEPT ![p].at = "verdict", ![p].result = result]
        PROVE  TaskOK(p)'
    <3>1. /\ job'[p].at = "verdict" /\ job'[p].result = result
          /\ job'[p].url = job[p].url /\ job'[p].version = job[p].version
          /\ job'[p].urls = job[p].urls /\ job'[p].held = job[p].held
          /\ job'[p].mode = job[p].mode /\ job'[p].run = job[p].run
      BY <1>0, <2>1, IdleShape DEF JobShape
    <3>2. job[p].at = "fetch" /\ UNCHANGED evidence
      BY <1>5 DEF FetchFails, At, tables
    <3>3. job[p].mode = "discover" /\ HeldOK(p)
      BY <1>0, <2>1, <3>2 DEF TaskOK, ModeOK, AtPage
    <3>4. HeldOK(p)'
      BY <3>1, <3>2, <3>3, HeldKept
    <3> QED
      BY <1>0, <2>1, <3>1, <3>2, <3>3, <3>4 DEF TaskOK, ModeOK, AtPage, Claiming, Verdicts
  <2> QED
    BY <1>1, <1>5, <2>1 DEF FetchFails
<1>6. CASE Fetch(p)
  <2>1. PICK v \in Serves[job[p].url] :
          job' = [job EXCEPT ![p].at = "capture", ![p].version = v,
                             ![p].time = fetches[Page[v]] + 1]
    BY <1>6 DEF Fetch
  <2>2. job[p].at = "fetch" /\ UNCHANGED evidence
    BY <1>6 DEF Fetch, At, tables
  <2>3. v \in Versions /\ fetches[Page[v]] + 1 \in Nat
    BY <1>0, <2>1, <2>2, ResearchAssumption DEF TaskOK, RecordsOK, AtPage
  <2>4. /\ job'[p].at = "capture" /\ job'[p].version = v
        /\ job'[p].time = fetches[Page[v]] + 1
        /\ job'[p].url = job[p].url
        /\ job'[p].urls = job[p].urls /\ job'[p].held = job[p].held
        /\ job'[p].mode = job[p].mode /\ job'[p].run = job[p].run
    BY <1>0, <2>1, IdleShape DEF JobShape
  <2>5. job[p].mode = "discover" => HeldOK(p)'
    BY <1>0, <2>2, <2>4, HeldKept DEF TaskOK, AtPage
  <2> QED
    BY <1>0, <2>2, <2>3, <2>4, <2>5 DEF TaskOK, ModeOK, AtPage, Claiming
<1>7. CASE LookForCapture(p) \/ SaveEvidence(p)
  <2>1. job[p].at \in {"capture", "retain"} /\ evidence \subseteq evidence'
    BY <1>7 DEF LookForCapture, SaveEvidence, At, tables
  <2>2. \/ Goto(p, "retain")
        \/ Goto(p, "lookup") /\ \E e \in evidence' : e.version = job[p].version
    <3>1. CASE LookForCapture(p)
      BY <3>1 DEF LookForCapture, Retained, tables
    <3>2. CASE SaveEvidence(p)
      <4>1. [version |-> job[p].version, at |-> job[p].time] \in evidence'
        BY <3>2 DEF SaveEvidence
      <4> QED
        BY <3>2, <4>1 DEF SaveEvidence
    <3> QED
      BY <1>7, <3>1, <3>2
  <2>3. PICK label \in {"retain", "lookup"} : Goto(p, label)
    BY <2>2
  <2>4. /\ job'[p].at \in {"retain", "lookup"}
        /\ job'[p].version = job[p].version /\ job'[p].time = job[p].time
        /\ job'[p].url = job[p].url
        /\ job'[p].urls = job[p].urls /\ job'[p].held = job[p].held
        /\ job'[p].mode = job[p].mode /\ job'[p].run = job[p].run
    BY <1>0, <2>3, Went
  <2>5. job'[p].at = "lookup" => \E e \in evidence' : e.version = job[p].version
    BY <1>0, <2>2, Went
  <2>6. job[p].mode = "discover" => HeldOK(p)'
    BY <1>0, <2>1, <2>4, HeldKept DEF TaskOK, AtPage
  <2>7. job'[p].at = "lookup" => Kept(job[p].version)'
    BY <1>0, <2>1, <2>4, <2>5 DEF TaskOK, Kept, Retained
  <2> QED
    BY <1>0, <2>1, <2>4, <2>6, <2>7 DEF TaskOK, ModeOK, AtPage, Claiming
<1>8. CASE LookForEvaluation(p) \/ Evaluate(p)
  <2>1. /\ job[p].at \in {"lookup", "record"} /\ UNCHANGED evidence
        /\ job[p].run \in Runs /\ Kept(job[p].version)
    BY <1>0, <1>8 DEF LookForEvaluation, Evaluate, At, tables, TaskOK
  <2>2. PICK r \in Runs, v \in Versions : r = job[p].run /\ v = job[p].version /\ Kept(v)
    BY <2>1 DEF Kept
  <2>3. evaluations[r][v] \in Seq(Row)
    BY DEF AcceptInv, TrustInv, TrustTypeOK
  <2>4. CASE LookForEvaluation(p) /\ ~Evaluated(r, v)
    <3>1. Goto(p, "record")
      BY <2>2, <2>4 DEF LookForEvaluation
    <3>2. /\ job'[p].at = "record"
          /\ job'[p].version = job[p].version
          /\ job'[p].url = job[p].url
          /\ job'[p].urls = job[p].urls /\ job'[p].held = job[p].held
          /\ job'[p].mode = job[p].mode /\ job'[p].run = job[p].run
      BY <1>0, <3>1, Went
    <3>3. job[p].mode = "discover" => HeldOK(p)'
      BY <1>0, <2>1, <3>2, HeldKept DEF TaskOK, AtPage
    <3>4. Kept(job[p].version)'
      BY <2>1, <3>2 DEF Kept, Retained
    <3> QED
      BY <1>0, <2>1, <3>2, <3>3, <3>4 DEF TaskOK, ModeOK, AtPage, Claiming
  <2>5. CASE LookForEvaluation(p) /\ Evaluated(r, v)
    <3>1. Judge(p, Effective(Latest(r, v))) /\ UNCHANGED evaluations
      BY <2>2, <2>5 DEF LookForEvaluation, tables
    <3>2. Effective(Latest(r, v)) \in Dispositions
      <4>1. Latest(r, v) \in Row
        BY <2>3, <2>5 DEF Latest, Evaluated
      <4> QED
        BY <4>1 DEF Effective, Row, Dispositions
    <3>3. Effective(Latest(r, v)) \in Usable => Vetted(r, v)
      BY <2>2, <2>5, UsableIsVetted
    <3>4. Vetted(r, v) => Vetted(r, v)'
      BY <2>1, VettedStays
    <3> QED
      BY <1>0, <2>1, <2>2, <3>1, <3>2, <3>3, <3>4, Judged
  <2>6. CASE Evaluate(p)
    <3>1. Judge(p, Disposition(v)) /\ RecordEvaluation(r, v)
      BY <2>2, <2>6 DEF Evaluate
    <3>2. Evaluated(r, v)'
      <4>1. evaluations'[r][v] = Append(evaluations[r][v], [base |-> Disposition(v), overrides |-> {}])
        BY <3>1 DEF RecordEvaluation, AcceptInv, TrustInv, TrustTypeOK
      <4>2. evaluations'[r][v] # <<>>
        BY <2>3, <4>1, RecordedRows
      <4> QED
        BY <4>2 DEF Evaluated
    <3>3. Disposition(v) \in Usable => Vetted(r, v)'
      BY <2>1, <2>2, <3>2 DEF Vetted, Kept, Retained, Disposition, Rules
    <3> QED
      BY <1>0, <2>1, <2>2, <3>1, <3>3, DispositionType, Judged
  <2> QED
    BY <1>8, <2>4, <2>5, <2>6
<1>9. CASE RecordCandidatePreflight(p)
  <2>1. /\ job'[p].at = "next" /\ job'[p].urls = job[p].urls \ {job[p].url}
        /\ job'[p].version = "none" /\ job'[p].held = job[p].held
        /\ job'[p].mode = job[p].mode /\ job'[p].run = job[p].run
    BY <1>0, <1>9, IdleShape DEF JobShape, RecordCandidatePreflight
  <2>2. job[p].at = "verdict" /\ UNCHANGED evidence
    BY <1>9 DEF RecordCandidatePreflight, At
  <2>3. job[p].mode = "discover" /\ HeldOK(p)
    BY <1>0, <2>2 DEF TaskOK, ModeOK, AtPage
  <2>4. HeldOK(p)'
    BY <2>1, <2>2, <2>3, HeldKept
  <2> QED
    BY <1>0, <2>1, <2>2, <2>3, <2>4 DEF TaskOK, ModeOK, AtPage, Claiming
<1> QED
  BY <1>2, <1>3, <1>4, <1>5, <1>6, <1>7, <1>8, <1>9

\* An operator's acceptance.
LEMMA AcceptanceStep ==
  ASSUME JobShape, TasksInv, NEW p \in Procs,
         Reread(p) \/ \E r \in Runs, v \in Versions : Accept(p, r, v)
  PROVE  TaskOK(p)'
<1>0. TaskOK(p)
  BY DEF TasksInv
<1>1. CASE Reread(p)
  <2>1. /\ job'[p].at = "override" /\ job'[p].mode = job[p].mode
        /\ job'[p].run = job[p].run /\ job'[p].urls = job[p].urls
        /\ job'[p].version = job[p].version
    BY <1>1, IdleShape DEF JobShape, Reread
  <2>2. job[p].at = "reread"
    BY <1>1 DEF Reread, At
  <2> QED
    BY <1>0, <2>1, <2>2 DEF TaskOK, ModeOK, AtPage, Claiming
<1>2. ASSUME NEW r \in Runs, NEW v \in Versions, Accept(p, r, v) PROVE TaskOK(p)'
  <2>1. /\ job'[p].at = "reread" /\ job'[p].mode = "accept"
        /\ job'[p].run = r /\ job'[p].urls = {} /\ job'[p].version = v
    BY <1>2 DEF JobShape, IdleJob, Accept
  <2> QED
    BY <2>1 DEF TaskOK, ModeOK, AtPage
<1> QED
  BY <1>1, <1>2

-----------------------------------------------------------------------------
(* The tables.                                                              *)

\* Which step of which process, if any, changes the candidates.
LEMMA SourceSteps ==
  ASSUME [ResearchNext]_researchVars
  PROVE  \/ UNCHANGED source
         \/ \E p \in Procs :
              \/ SaveNewSources(p) \/ RecordCandidatePreflight(p)
              \/ \E u \in job[p].urls : MarkCandidateChecking(p, u)
<1>1. ASSUME NEW p \in Procs, Proceed(p)
      PROVE  \/ UNCHANGED source
             \/ SaveNewSources(p) \/ RecordCandidatePreflight(p)
             \/ \E u \in job[p].urls : MarkCandidateChecking(p, u)
  BY <1>1 DEF Proceed, tables, Search, MarkFailed, LockRun, Schedule,
     FailCandidatePreflight, Load, TakeHeld, FetchFails, Fetch, LookForCapture,
     SaveEvidence, LookForEvaluation, Evaluate, CompleteCandidatePreflight, Reread, Override
<1>2. ASSUME \/ UNCHANGED researchVars \/ Deadline \/ Rest
             \/ \E p \in Procs :
                  \/ Poll(p) \/ Crash(p)
                  \/ \E r \in Runs : \/ Request(p, r)
                                     \/ \E u \in Urls : Extract(p, r, u)
                                     \/ \E v \in Versions : Accept(p, r, v)
      PROVE  UNCHANGED source
  BY <1>2 DEF researchVars, tables, Deadline, Rest, Poll, Crash, Request, Extract, Accept
<1> QED
  BY <1>1, <1>2 DEF ResearchNext

\* And the captures.
LEMMA EvidenceSteps ==
  ASSUME [ResearchNext]_researchVars
  PROVE  UNCHANGED evidence \/ \E p \in Procs : SaveEvidence(p)
<1>1. ASSUME NEW p \in Procs, Proceed(p) PROVE UNCHANGED evidence \/ SaveEvidence(p)
  BY <1>1 DEF Proceed, tables, Search, MarkFailed, LockRun, SaveNewSources, Schedule,
     FailCandidatePreflight, Load, TakeHeld, MarkCandidateChecking, FetchFails, Fetch,
     LookForCapture, LookForEvaluation, Evaluate, RecordCandidatePreflight,
     CompleteCandidatePreflight, Reread, Override
<1>2. ASSUME \/ UNCHANGED researchVars \/ Deadline \/ Rest
             \/ \E p \in Procs :
                  \/ Poll(p) \/ Crash(p)
                  \/ \E r \in Runs : \/ Request(p, r)
                                     \/ \E u \in Urls : Extract(p, r, u)
                                     \/ \E v \in Versions : Accept(p, r, v)
      PROVE  UNCHANGED evidence
  BY <1>2 DEF researchVars, tables, Deadline, Rest, Poll, Crash, Request, Extract, Accept
<1> QED
  BY <1>1, <1>2 DEF ResearchNext

\* What becomes of each candidate when new ones are inserted,
LEMMA InsertedRows ==
  ASSUME TasksInv, NEW p \in Procs, SaveNewSources(p), NEW r \in Runs, NEW u \in Urls
  PROVE  source'[r][u] = IF r = job[p].run /\ u \in job[p].urls
                         THEN [status |-> "pending", version |-> "none"] ELSE source[r][u]
<1>1. [NoSource EXCEPT !.status = "pending"] = [status |-> "pending", version |-> "none"]
  BY DEF NoSource
<1>2. source' = [source EXCEPT ![job[p].run] =
        [x \in Urls |-> IF x \in job[p].urls THEN [status |-> "pending", version |-> "none"]
                        ELSE source[job[p].run][x]]]
  BY <1>1 DEF SaveNewSources
<1> QED
  BY <1>2 DEF TasksInv, RecordsOK

\* when one is about to be fetched,
LEMMA CheckedRow ==
  ASSUME TasksInv, NEW p \in Procs, NEW x \in job[p].urls, MarkCandidateChecking(p, x),
         NEW r \in Runs, NEW u \in Urls
  PROVE  \/ source'[r][u] = source[r][u]
         \/ /\ source[r][u].status = "pending"
            /\ source'[r][u] = [source[r][u] EXCEPT !.status = "checking"]
<1> DEFINE y == job[p].run
           new == IF source[y][x].status = "pending" THEN "checking" ELSE source[y][x].status
<1>0. source \in [Runs -> [Urls -> SourceRows]]
  BY DEF TasksInv, RecordsOK
<1>1. source' = [source EXCEPT ![y][x].status = new]
  BY DEF MarkCandidateChecking
<1>2. source'[r][u] = IF r = y /\ u = x THEN [source[r][u] EXCEPT !.status = new]
                      ELSE source[r][u]
  BY <1>0, <1>1
<1>3. source[r][u] \in SourceRows
  BY <1>0
<1>4. [source[r][u] EXCEPT !.status = source[r][u].status] = source[r][u]
  BY <1>3 DEF SourceRows
<1> QED
  BY <1>2, <1>4

\* and when one gets its verdict.
LEMMA VerdictRow ==
  ASSUME TasksInv, NEW p \in Procs, RecordCandidatePreflight(p), NEW r \in Runs, NEW u \in Urls
  PROVE  source'[r][u] = IF r = job[p].run /\ u = job[p].url
                         THEN [status |-> job[p].result, version |-> job[p].version]
                         ELSE source[r][u]
BY DEF TasksInv, RecordsOK, RecordCandidatePreflight

\* What becomes of each candidate in a step.
LEMMA SourceStep ==
  ASSUME TasksInv, [ResearchNext]_researchVars, NEW r \in Runs, NEW u \in Urls
  PROVE  \/ source'[r][u] = source[r][u]
         \/ \E p \in Procs :
              /\ SaveNewSources(p) /\ r = job[p].run /\ u \in job[p].urls
              /\ source'[r][u] = [status |-> "pending", version |-> "none"]
         \/ /\ source[r][u].status = "pending"
            /\ source'[r][u] = [source[r][u] EXCEPT !.status = "checking"]
         \/ \E p \in Procs :
              /\ RecordCandidatePreflight(p) /\ r = job[p].run /\ u = job[p].url
              /\ source'[r][u] = [status |-> job[p].result, version |-> job[p].version]
<1>1. CASE UNCHANGED source
  BY <1>1
<1>2. CASE \E p \in Procs : SaveNewSources(p)
  BY <1>2, InsertedRows
<1>3. CASE \E p \in Procs : RecordCandidatePreflight(p)
  BY <1>3, VerdictRow
<1>4. CASE \E p \in Procs : \E x \in job[p].urls : MarkCandidateChecking(p, x)
  BY <1>4, CheckedRow
<1> QED
  BY <1>1, <1>2, <1>3, <1>4, SourceSteps

\* A candidate's row stays well formed, and one that is ready is vetted.
LEMMA SourceKeeps ==
  ASSUME AcceptInv, TasksInv, [ResearchNext]_researchVars, evidence \subseteq evidence',
         NEW r \in Runs, NEW u \in Urls
  PROVE  /\ source'[r][u] \in SourceRows
         /\ source'[r][u].status = "ready_to_extract" => Vetted(r, source[r][u].version)'
<1>0. JobShape /\ [TrustNext]_evaluations
  BY StepRefines DEF AcceptInv
<1>1. source[r][u] \in SourceRows
  BY DEF TasksInv, RecordsOK
<1>2. source[r][u].status = "ready_to_extract" => Vetted(r, source[r][u].version)
  BY DEF TasksInv, ReadyInv
<1>3. CASE source'[r][u] = source[r][u]
  <2>1. PICK v : v = source[r][u].version
    OBVIOUS
  <2>2. source[r][u].status = "ready_to_extract" => Vetted(r, v)'
    BY <1>0, <1>2, <2>1, VettedStays
  <2> QED
    BY <1>1, <1>3, <2>1, <2>2 DEF Vetted, Kept, Retained, Evaluated
<1>4. CASE source'[r][u] = [status |-> "pending", version |-> "none"]
  BY <1>4 DEF SourceRows, CandidateStatuses
<1>5. CASE source'[r][u] = [source[r][u] EXCEPT !.status = "checking"]
  BY <1>1, <1>5 DEF SourceRows, CandidateStatuses
<1>6. ASSUME NEW p \in Procs, RecordCandidatePreflight(p), r = job[p].run,
             source'[r][u] = [status |-> job[p].result, version |-> job[p].version]
      PROVE  /\ source'[r][u] \in SourceRows
             /\ source'[r][u].status = "ready_to_extract" => Vetted(r, source[r][u].version)'
  <2>1. job[p].at = "verdict" /\ TaskOK(p)
    BY <1>6 DEF RecordCandidatePreflight, At, TasksInv
  <2>2. PICK v \in Versions \cup {"none"} : v = job[p].version
    BY <2>1 DEF TaskOK
  <2>3. job[p].result \in Verdicts
    BY <2>1 DEF TaskOK
  <2>4. job[p].result = "ready_to_extract" => Vetted(r, v)
    BY <1>6, <2>1, <2>2 DEF TaskOK
  <2>5. job[p].result = "ready_to_extract" => Vetted(r, v)'
    BY <1>0, <2>4, VettedStays
  <2>6. source'[r][u].status = job[p].result /\ source'[r][u].version = v
    BY <1>6, <2>2
  <2> QED
    BY <1>6, <2>2, <2>3, <2>5, <2>6 DEF SourceRows, CandidateStatuses, Vetted, Kept,
       Retained, Evaluated
<1> QED
  BY <1>0, <1>3, <1>4, <1>5, <1>6, SourceStep

\* Captures are only added, and among those of a page there is a latest one.
LEMMA EvidenceKeeps ==
  ASSUME TasksInv, [ResearchNext]_researchVars
  PROVE  /\ evidence \subseteq evidence' /\ evidence' \subseteq [version : Versions, at : Nat]
         /\ LatestInv'
<1>0. evidence \subseteq [version : Versions, at : Nat] /\ LatestInv
  BY DEF TasksInv, RecordsOK
<1>1. CASE UNCHANGED evidence
  BY <1>0, <1>1 DEF LatestInv, Captures
<1>2. ASSUME NEW p \in Procs, SaveEvidence(p)
      PROVE  /\ evidence \subseteq evidence' /\ evidence' \subseteq [version : Versions, at : Nat]
             /\ LatestInv'
  <2> DEFINE new == [version |-> job[p].version, at |-> job[p].time]
  <2>1. evidence' = evidence \cup {new}
    BY <1>2 DEF SaveEvidence
  <2>2. job[p].version \in Versions /\ job[p].time \in Nat
    BY <1>2 DEF SaveEvidence, At, TasksInv, TaskOK
  <2>3. new \in [version : Versions, at : Nat]
    BY <2>2
  <2> HIDE DEF new
  <2>4. ASSUME NEW u \in Urls, Captures(u)' # {}
        PROVE  \E e \in Captures(u)' : \A f \in Captures(u)' : f.at <= e.at
    <3>1. \A e \in evidence : e.at \in Nat
      BY <1>0
    <3>2. CASE Page[new.version] # u
      <4>1. Captures(u)' = Captures(u)
        BY <2>1, <3>2 DEF Captures
      <4> QED
        BY <1>0, <2>4, <4>1 DEF LatestInv
    <3>3. CASE Page[new.version] = u
      <4>1. Captures(u)' = Captures(u) \cup {new} /\ new.at \in Nat
        BY <2>1, <2>3, <3>3 DEF Captures
      <4>2. CASE Captures(u) = {}
        BY <4>1, <4>2
      <4>3. CASE Captures(u) # {}
        <5>1. PICK e \in Captures(u) : \A f \in Captures(u) : f.at <= e.at
          BY <1>0, <4>3 DEF LatestInv
        <5>2. \A f \in Captures(u) : f.at \in Nat
          BY <3>1 DEF Captures
        <5>3. CASE new.at <= e.at
          BY <4>1, <5>1, <5>3
        <5>4. CASE ~(new.at <= e.at)
          <6>1. \A f \in Captures(u) : f.at <= new.at
            BY <4>1, <5>1, <5>2, <5>4
          <6> QED
            BY <4>1, <6>1
        <5> QED
          BY <5>3, <5>4
      <4> QED
        BY <4>2, <4>3
    <3> QED
      BY <3>2, <3>3
  <2>5. LatestInv'
    BY <2>4 DEF LatestInv
  <2> QED
    BY <1>0, <2>1, <2>3, <2>5
<1> QED
  BY <1>1, <1>2, EvidenceSteps

\* The runs, the clocks of the pages, the queue and the lost runs.
LEMMA TablesKeep ==
  ASSUME TasksInv, [ResearchNext]_researchVars
  PROVE  /\ run' \in [Runs -> RunStatuses]
         /\ fetches' \in [Urls -> Nat]
         /\ \A b \in queue' : b.run \in Runs /\ b.urls \subseteq Urls
         /\ lost' \subseteq Runs
<1> DEFINE Goal == /\ run' \in [Runs -> RunStatuses]
                   /\ fetches' \in [Urls -> Nat]
                   /\ \A b \in queue' : b.run \in Runs /\ b.urls \subseteq Urls
                   /\ lost' \subseteq Runs
<1>0. RecordsOK /\ \A p \in Procs : TaskOK(p)
  BY DEF TasksInv
<1>1. CASE UNCHANGED <<run, fetches, queue, lost>>
  BY <1>0, <1>1 DEF RecordsOK
<1>2. ASSUME NEW p \in Procs, Proceed(p) PROVE Goal
  <2>1. CASE UNCHANGED <<run, fetches, queue, lost>>
    BY <1>1, <2>1
  <2>2. CASE MarkFailed(p) \/ FailCandidatePreflight(p) \/ CompleteCandidatePreflight(p)
    <3>1. job[p].run \in Runs
      BY <1>0, <2>2 DEF MarkFailed, FailCandidatePreflight, CompleteCandidatePreflight, At, TaskOK
    <3> QED
      BY <1>0, <2>2, <3>1 DEF MarkFailed, FailCandidatePreflight, CompleteCandidatePreflight,
         RecordsOK, RunStatuses
  <2>3. CASE SaveNewSources(p)
    <3>1. job[p].run \in Runs /\ run[job[p].run] \in RunStatuses
      BY <1>0, <2>3 DEF SaveNewSources, At, TaskOK, RecordsOK
    <3>2. StatusAfterSave(p) \in RunStatuses
      BY <3>1 DEF StatusAfterSave, RunStatuses
    <3> QED
      BY <1>0, <2>3, <3>1, <3>2 DEF SaveNewSources, RecordsOK
  <2>4. CASE Schedule(p)
    <3>1. job[p].run \in Runs /\ job[p].urls \subseteq Urls
      BY <1>0, <2>4 DEF Schedule, At, TaskOK
    <3>2. UNCHANGED <<run, fetches>>
      BY <2>4 DEF Schedule, tables
    <3>3. queue' \subseteq queue \cup {[run |-> job[p].run, urls |-> job[p].urls]}
      BY <2>4 DEF Schedule
    <3>4. lost' \subseteq lost \cup {job[p].run}
      BY <2>4 DEF Schedule
    <3> QED
      BY <1>0, <3>1, <3>2, <3>3, <3>4 DEF RecordsOK
  <2>5. CASE Fetch(p)
    <3>1. PICK v \in Serves[job[p].url] : fetches' = [fetches EXCEPT ![Page[v]] = @ + 1]
      BY <2>5 DEF Fetch
    <3>2. job[p].url \in Urls
      BY <1>0, <2>5 DEF Fetch, At, TaskOK, AtPage
    <3>3. Page[v] \in Urls
      BY <3>1, <3>2, ResearchAssumption
    <3> QED
      BY <1>0, <2>5, <3>1, <3>3 DEF Fetch, tables, RecordsOK
  <2> QED
    BY <1>2, <2>1, <2>2, <2>3, <2>4, <2>5 DEF Proceed, tables, Search, LockRun, Load, TakeHeld,
       MarkCandidateChecking, FetchFails, LookForCapture, SaveEvidence, LookForEvaluation,
       Evaluate, RecordCandidatePreflight, Reread, Override
<1>3. ASSUME NEW p \in Procs, NEW r \in Runs, Request(p, r) PROVE Goal
  BY <1>0, <1>3 DEF Request, RecordsOK, RunStatuses
<1>4. ASSUME NEW p \in Procs, Poll(p) PROVE Goal
  <2>1. queue' \subseteq queue /\ UNCHANGED <<run, fetches, lost>>
    BY <1>4 DEF Poll, tables
  <2> QED
    BY <1>0, <2>1 DEF RecordsOK
<1>5. ASSUME NEW p \in Procs, Crash(p) PROVE Goal
  <2>1. UNCHANGED <<run, fetches, queue>> /\ lost' \subseteq lost \cup {job[p].run}
    BY <1>5 DEF Crash, tables
  <2>2. job[p].run \in Runs
    BY <1>0, <1>5 DEF Crash, At, TaskOK
  <2> QED
    BY <1>0, <2>1, <2>2 DEF RecordsOK
<1>6. ASSUME \/ UNCHANGED researchVars \/ Deadline \/ Rest
             \/ \E p \in Procs, r \in Runs :
                  \/ \E u \in Urls : Extract(p, r, u)
                  \/ \E v \in Versions : Accept(p, r, v)
      PROVE  UNCHANGED <<run, fetches, queue, lost>>
  BY <1>6 DEF researchVars, tables, Deadline, Rest, Extract, Accept
<1> QED
  BY <1>1, <1>2, <1>3, <1>4, <1>5, <1>6 DEF ResearchNext

\* The candidates of every run are a function of the pages.
LEMMA SourceShape ==
  ASSUME JobShape, TasksInv, [ResearchNext]_researchVars
  PROVE  source' \in [Runs -> [Urls -> {source'[r][u] : r \in Runs, u \in Urls}]]
<1> DEFINE Shape == /\ DOMAIN source' = Runs /\ source' = [r \in Runs |-> source'[r]]
                    /\ \A r \in Runs : /\ DOMAIN source'[r] = Urls
                                       /\ source'[r] = [u \in Urls |-> source'[r][u]]
<1>0. source \in [Runs -> [Urls -> SourceRows]]
  BY DEF TasksInv, RecordsOK
<1>1. ASSUME NEW p \in Procs, SaveNewSources(p) PROVE Shape
  <2>1. source' = [source EXCEPT ![job[p].run] =
          [u \in Urls |-> IF u \in job[p].urls THEN [NoSource EXCEPT !.status = "pending"]
                          ELSE source[job[p].run][u]]]
    BY <1>1 DEF SaveNewSources
  <2> QED
    BY <1>0, <2>1
<1>2. ASSUME NEW p \in Procs, NEW x \in job[p].urls, MarkCandidateChecking(p, x) PROVE Shape
  <2>1. PICK row : source' = [source EXCEPT ![job[p].run][x] = row]
    BY <1>2 DEF MarkCandidateChecking
  <2> QED
    BY <1>0, <2>1
<1>3. ASSUME NEW p \in Procs, RecordCandidatePreflight(p) PROVE Shape
  <2>1. PICK row : source' = [source EXCEPT ![job[p].run][job[p].url] = row]
    BY <1>3 DEF RecordCandidatePreflight
  <2> QED
    BY <1>0, <2>1
<1>4. CASE UNCHANGED source
  BY <1>0, <1>4
<1>5. Shape
  BY <1>1, <1>2, <1>3, <1>4, SourceSteps
<1> QED
  BY <1>5

\* Every process remembers what is true, the one that moved and the others.
LEMMA TaskSteps ==
  ASSUME AcceptInv, TasksInv, [ResearchNext]_researchVars, evidence \subseteq evidence'
  PROVE  \A q \in Procs : TaskOK(q)'
<1>0. JobShape /\ [TrustNext]_evaluations
  BY StepRefines DEF AcceptInv
<1>1. ASSUME NEW p \in Procs, TaskOK(p)', \A q \in Procs : q # p => job'[q] = job[q]
      PROVE  \A q \in Procs : TaskOK(q)'
  BY <1>0, <1>1, OthersKeep DEF TasksInv
<1>2. ASSUME NEW p \in Procs, Quiet(p) PROVE \A q \in Procs : TaskOK(q)'
  <2>1. TaskOK(p)'
    BY <1>0, <1>2, DiscoveryStep, PreflightStep DEF Quiet
  <2>2. \A q \in Procs : q # p => job'[q] = job[q]
    BY <1>0, <1>2, QuietElsewhere DEF Elsewhere
  <2> QED
    BY <1>1, <2>1, <2>2
<1>3. ASSUME NEW p \in Procs, Evaluate(p) PROVE \A q \in Procs : TaskOK(q)'
  <2>1. TaskOK(p)'
    BY <1>0, <1>3, PreflightStep
  <2>2. \A q \in Procs : q # p => job'[q] = job[q]
    BY <1>0, <1>3, JudgeElsewhere DEF Evaluate, Elsewhere
  <2> QED
    BY <1>1, <2>1, <2>2
<1>4. ASSUME NEW p \in Procs, Override(p) PROVE \A q \in Procs : TaskOK(q)'
  <2>1. TaskOK(p)'
    BY <1>0, <1>4, DiscoveryStep
  <2>2. \A q \in Procs : q # p => job'[q] = job[q]
    BY <1>0, <1>4, StopElsewhere DEF Override, Elsewhere
  <2> QED
    BY <1>1, <2>1, <2>2
<1>5. ASSUME NEW p \in Procs, Reread(p) \/ \E r \in Runs, v \in Versions : Accept(p, r, v)
      PROVE  \A q \in Procs : TaskOK(q)'
  <2>1. TaskOK(p)'
    BY <1>0, <1>5, AcceptanceStep
  <2>2. \A q \in Procs : q # p => job'[q] = job[q]
    BY <1>0, <1>5 DEF JobShape, Reread, Accept
  <2> QED
    BY <1>1, <2>1, <2>2
<1>6. CASE Deadline \/ UNCHANGED researchVars
  <2>1. \A q \in Procs : job'[q] = job[q]
    BY <1>6 DEF Deadline, researchVars
  <2> QED
    BY <1>0, <2>1, OthersKeep DEF TasksInv
<1> QED
  BY <1>2, <1>3, <1>4, <1>5, <1>6 DEF ResearchNext, Proceed, Rest, Quiet

\* TasksInv is inductive.
LEMMA TasksStep == AcceptInv /\ TasksInv /\ [ResearchNext]_researchVars => TasksInv'
<1> SUFFICES ASSUME AcceptInv, TasksInv, [ResearchNext]_researchVars PROVE TasksInv'
  OBVIOUS
<1>1. /\ evidence \subseteq evidence' /\ evidence' \subseteq [version : Versions, at : Nat]
      /\ LatestInv'
  BY EvidenceKeeps
<1>2. \A p \in Procs : TaskOK(p)'
  BY <1>1, TaskSteps
<1>3. \A r \in Runs, u \in Urls :
        /\ source'[r][u] \in SourceRows
        /\ source'[r][u].status = "ready_to_extract" => Vetted(r, source[r][u].version)'
  BY <1>1, SourceKeeps
<1>4. ReadyInv'
  BY <1>3 DEF ReadyInv
<1>5. source' \in [Runs -> [Urls -> SourceRows]]
  BY <1>3, SourceShape DEF AcceptInv
<1>6. RecordsOK'
  BY <1>1, <1>5, TablesKeep DEF RecordsOK, SourceRows
<1> QED
  BY <1>1, <1>2, <1>4, <1>6 DEF TasksInv

\* No process and no batch is at work in the beginning.
LEMMA TasksInit == ResearchInit => TasksInv
<1> SUFFICES ASSUME ResearchInit PROVE TasksInv
  OBVIOUS
<1>1. /\ \A p \in Procs : job[p] = IdleJob
      /\ evidence = {} /\ \A r \in Runs, u \in Urls : source[r][u] = NoSource
  BY DEF ResearchInit
<1>2. ASSUME NEW p \in Procs PROVE TaskOK(p)
  BY <1>1 DEF IdleJob, TaskOK, ModeOK, AtPage
<1>3. NoSource \in SourceRows
  BY DEF NoSource, SourceRows, CandidateStatuses
<1>4. RecordsOK
  BY <1>3 DEF ResearchInit, RecordsOK, RunStatuses
<1>5. LatestInv /\ ReadyInv
  BY <1>1 DEF LatestInv, Captures, ReadyInv, NoSource
<1> QED
  BY <1>2, <1>4, <1>5 DEF TasksInv

-----------------------------------------------------------------------------

\* Requests, activities and operators keep every table and what they remember
\* of it well formed.
THEOREM ResearchTyped == ResearchSpec => []ResearchTypeOK
<1>1. AcceptInv /\ TasksInv => ResearchTypeOK
  <2> SUFFICES ASSUME AcceptInv, TasksInv PROVE ResearchTypeOK
    OBVIOUS
  <2>1. \A p \in Procs : job[p].at \in Labels /\ job[p].urls \subseteq Urls
                         /\ (job[p].at # "idle" => job[p].run \in Runs)
    BY DEF TasksInv, TaskOK, ModeOK, AtPage, Claiming, Labels
  <2> QED
    BY <2>1 DEF ResearchTypeOK, AcceptInv, TrustInv, TasksInv, RecordsOK, SourceRows
<1> QED
  BY <1>1, AcceptInvInit, AcceptInvStep, TasksInit, TasksStep, PTL DEF ResearchSpec

\* However many requests and workers preflight at once, and whatever operators
\* accept meanwhile, a candidate that is ready to extract has a retained
\* capture that was evaluated in its run and is usable
\* (web_trust/preflight.py:30-62).
THEOREM ReadyIsUsable == ResearchSpec => []ReadyCandidateIsUsable
<1>1. TasksInv => ReadyCandidateIsUsable
  BY DEF TasksInv, ReadyInv, Vetted, Kept, ReadyCandidateIsUsable
<1> QED
  BY <1>1, AcceptInvInit, AcceptInvStep, TasksInit, TasksStep, PTL DEF ResearchSpec

-----------------------------------------------------------------------------
(* A batch changes hands in four places: where its run is locked, where its *)
(* candidates are inserted, where it goes to the queue and where a worker   *)
(* takes it from there.  Everywhere else a process keeps to its claims.     *)

Plain(p) ==
  \/ Search(p) \/ MarkFailed(p) \/ FailCandidatePreflight(p)
  \/ Load(p) \/ \E u \in job[p].urls : TakeHeld(p, u) \/ MarkCandidateChecking(p, u)
  \/ FetchFails(p) \/ Fetch(p) \/ LookForCapture(p) \/ SaveEvidence(p)
  \/ LookForEvaluation(p) \/ Evaluate(p) \/ RecordCandidatePreflight(p)
  \/ CompleteCandidatePreflight(p) \/ Reread(p) \/ Override(p) \/ Crash(p)
  \/ \E r \in Runs : \/ Request(p, r)
                     \/ \E u \in Urls : Extract(p, r, u)
                     \/ \E v \in Versions : Accept(p, r, v)

\* Process p claims nothing new,
Moves(p) ==
  /\ \A q \in Procs : q # p => job'[q] = job[q]
  /\ job'[p].at # "insert"
  /\ Preflights(p)' => /\ Preflights(p) /\ job'[p].run = job[p].run
                       /\ job'[p].urls \subseteq job[p].urls

\* touches the candidates that it claims and no other,
Respects(p) ==
  \A r \in Runs, u \in Urls :
    \/ source'[r][u] = source[r][u]
    \/ /\ source[r][u].status \in Unchecked
       /\ \/ source'[r][u].status \in Unchecked
          \/ r = job[p].run /\ u \in Claims(p) \ Claims(p)'

\* and ends with a verdict on each, or the run is among the lost ones.
Carries(p) ==
  Preflights(p) /\ job[p].run \notin lost' =>
    /\ \A u \in Claims(p) \ Claims(p)' : source'[job[p].run][u].status \notin Unchecked
    /\ Preflights(p)' \/ run'[job[p].run] = "ready"

\* A process that stops drops its claims.
LEMMA StoppedMoves ==
  ASSUME JobShape, NEW p \in Procs, Stop(p)
  PROVE  Moves(p) /\ ~Preflights(p)' /\ Claims(p)' = {}
<1>1. job'[p] = IdleJob /\ \A q \in Procs : q # p => job'[q] = job[q]
  BY DEF Stop, JobShape
<1> QED
  BY <1>1 DEF IdleJob, Moves, Preflights, Claims

\* A process that only goes on keeps them.
LEMMA GoneOn ==
  ASSUME NEW p \in Procs, \A q \in Procs : q # p => job'[q] = job[q],
         job[p].at \in {"next"} \cup AtPage, job'[p].at \in {"next"} \cup AtPage,
         job'[p].mode = job[p].mode, job'[p].run = job[p].run, job'[p].urls = job[p].urls
  PROVE  Moves(p) /\ Claims(p)' = Claims(p) /\ (Preflights(p) => Preflights(p)')
BY DEF Moves, Preflights, Claims, Claiming, AtPage

\* The steps of a preflight.
LEMMA PreflightMoves ==
  ASSUME JobShape, TasksInv, ClaimInv, NEW p \in Procs,
         \/ Load(p) \/ \E u \in job[p].urls : TakeHeld(p, u) \/ MarkCandidateChecking(p, u)
         \/ FetchFails(p) \/ Fetch(p) \/ LookForCapture(p) \/ SaveEvidence(p)
         \/ LookForEvaluation(p) \/ Evaluate(p) \/ RecordCandidatePreflight(p)
         \/ CompleteCandidatePreflight(p)
  PROVE  Moves(p) /\ Respects(p) /\ Carries(p)
<1>0. TaskOK(p)
  BY DEF TasksInv
<1>1. ASSUME UNCHANGED source PROVE Respects(p)
  BY <1>1 DEF Respects
<1>2. ASSUME Stop(p), UNCHANGED source, ~Preflights(p) PROVE Moves(p) /\ Respects(p) /\ Carries(p)
  BY <1>1, <1>2, StoppedMoves DEF Carries
<1>3. ASSUME Moves(p), Claims(p)' = Claims(p), Preflights(p) => Preflights(p)'
      PROVE  Carries(p)
  BY <1>3 DEF Carries
<1>4. ASSUME job[p].mode = "extract" PROVE ~Preflights(p)
  BY <1>4 DEF Preflights
<1>5. CASE Load(p)
  <2> DEFINE open == {u \in job[p].urls : source[job[p].run][u].status \in Unchecked}
  <2>1. /\ job'[p].at = "next" /\ job'[p].urls = open /\ job'[p].mode = job[p].mode
        /\ job'[p].run = job[p].run /\ \A q \in Procs : q # p => job'[q] = job[q]
        /\ job[p].at = "load" /\ UNCHANGED source
    BY <1>5, IdleShape DEF JobShape, Load, At, tables
  <2>2. Preflights(p) /\ Preflights(p)' /\ Claims(p) = job[p].urls
    BY <1>0, <2>1 DEF TaskOK, ModeOK, AtPage, Preflights, Claims, Claiming
  <2>3. open = job[p].urls
    BY <2>2 DEF ClaimInv
  <2> HIDE DEF open
  <2>4. Moves(p) /\ Claims(p)' = Claims(p)
    BY <2>1, <2>2, <2>3 DEF Moves, Claims
  <2> QED
    BY <1>1, <1>3, <2>1, <2>2, <2>4
<1>6. ASSUME NEW u \in job[p].urls, TakeHeld(p, u) PROVE Moves(p) /\ Respects(p) /\ Carries(p)
  <2>1. /\ job'[p].at = "lookup" /\ job'[p].urls = job[p].urls /\ job'[p].mode = job[p].mode
        /\ job'[p].run = job[p].run /\ \A q \in Procs : q # p => job'[q] = job[q]
        /\ job[p].at = "next" /\ UNCHANGED source
    BY <1>6, IdleShape DEF JobShape, TakeHeld, At, tables
  <2> QED
    BY <1>0, <1>1, <1>3, <2>1, GoneOn DEF AtPage
<1>7. ASSUME NEW x \in job[p].urls, MarkCandidateChecking(p, x)
      PROVE  Moves(p) /\ Respects(p) /\ Carries(p)
  <2>1. /\ job'[p].at = "fetch" /\ job'[p].urls = job[p].urls /\ job'[p].mode = job[p].mode
        /\ job'[p].run = job[p].run /\ \A q \in Procs : q # p => job'[q] = job[q]
        /\ job[p].at = "next"
    BY <1>7, IdleShape DEF JobShape, MarkCandidateChecking, At
  <2>2. Respects(p)
    <3> SUFFICES ASSUME NEW r \in Runs, NEW u \in Urls, source'[r][u] # source[r][u]
                 PROVE  source[r][u].status \in Unchecked /\ source'[r][u].status \in Unchecked
      BY DEF Respects
    <3>1. source[r][u] \in SourceRows
      BY DEF TasksInv, RecordsOK
    <3>2. source[r][u].status = "pending" /\ source'[r][u] = [source[r][u] EXCEPT !.status = "checking"]
      BY <1>7, CheckedRow
    <3> QED
      BY <3>1, <3>2 DEF SourceRows, Unchecked
  <2> QED
    BY <1>0, <1>3, <2>1, <2>2, GoneOn DEF AtPage
<1>8. CASE FetchFails(p)
  <2>1. ASSUME NEW result,
               job' = [job EXCEPT ![p].at = "verdict", ![p].result = result]
        PROVE  Moves(p) /\ Respects(p) /\ Carries(p)
    <3>1. /\ job'[p].at = "verdict" /\ job'[p].urls = job[p].urls /\ job'[p].mode = job[p].mode
          /\ job'[p].run = job[p].run /\ \A q \in Procs : q # p => job'[q] = job[q]
      BY <2>1, IdleShape DEF JobShape
    <3>2. job[p].at = "fetch" /\ UNCHANGED source
      BY <1>8 DEF FetchFails, At, tables
    <3> QED
      BY <1>0, <1>1, <1>3, <3>1, <3>2, GoneOn DEF AtPage
  <2> QED
    BY <1>2, <1>4, <1>8, <2>1 DEF FetchFails, tables
<1>9. CASE Fetch(p)
  <2>1. /\ job'[p].at = "capture" /\ job'[p].urls = job[p].urls /\ job'[p].mode = job[p].mode
        /\ job'[p].run = job[p].run /\ \A q \in Procs : q # p => job'[q] = job[q]
        /\ job[p].at = "fetch" /\ UNCHANGED source
    <3>1. PICK v : job' = [job EXCEPT ![p].at = "capture", ![p].version = v,
                                      ![p].time = fetches[Page[v]] + 1]
      BY <1>9 DEF Fetch
    <3>2. DOMAIN job = Procs /\ {"at", "urls", "mode", "run"} \subseteq DOMAIN job[p]
      BY IdleShape DEF JobShape
    <3>3. /\ job'[p].at = "capture" /\ job'[p].urls = job[p].urls
          /\ job'[p].mode = job[p].mode /\ job'[p].run = job[p].run
      BY <3>1, <3>2
    <3>4. \A q \in Procs : q # p => job'[q] = job[q]
      BY <3>1, <3>2
    <3>5. job[p].at = "fetch" /\ UNCHANGED source
      BY <1>9 DEF Fetch, At, tables
    <3> QED
      BY <3>3, <3>4, <3>5
  <2> QED
    BY <1>0, <1>1, <1>3, <2>1, GoneOn DEF AtPage
<1>10. ASSUME NEW label \in AtPage, Goto(p, label), job[p].at \in AtPage, UNCHANGED source
       PROVE  Moves(p) /\ Respects(p) /\ Carries(p)
  <2>1. /\ job'[p].at = label /\ job'[p].urls = job[p].urls /\ job'[p].mode = job[p].mode
        /\ job'[p].run = job[p].run
    BY <1>10, Went
  <2>2. \A q \in Procs : q # p => job'[q] = job[q]
    BY <1>10 DEF Goto, JobShape
  <2> QED
    BY <1>0, <1>1, <1>3, <1>10, <2>1, <2>2, GoneOn
<1>11. CASE LookForCapture(p) \/ SaveEvidence(p)
  <2>1. \E label \in {"lookup", "retain"} : Goto(p, label)
    BY <1>11 DEF LookForCapture, SaveEvidence
  <2>2. job[p].at \in {"capture", "retain"} /\ UNCHANGED source
    BY <1>11 DEF LookForCapture, SaveEvidence, At, tables
  <2> QED
    BY <1>10, <2>1, <2>2 DEF AtPage
<1>12. CASE LookForEvaluation(p) \/ Evaluate(p)
  <2>1. job[p].at \in {"lookup", "record"} /\ UNCHANGED source
    BY <1>12 DEF LookForEvaluation, Evaluate, At, tables
  <2>2. Goto(p, "record") \/ \E d : Judge(p, d)
    BY <1>12 DEF LookForEvaluation, Evaluate
  <2>3. ASSUME NEW d, Judge(p, d) PROVE Moves(p) /\ Respects(p) /\ Carries(p)
    <3>1. CASE job[p].mode = "extract"
      BY <1>2, <1>4, <2>1, <2>3, <3>1 DEF Judge
    <3>2. CASE job[p].mode # "extract"
      <4>1. /\ job'[p].at = "verdict" /\ job'[p].urls = job[p].urls
            /\ job'[p].mode = job[p].mode
            /\ job'[p].run = job[p].run /\ \A q \in Procs : q # p => job'[q] = job[q]
        BY <2>3, <3>2, IdleShape DEF JobShape, Judge
      <4> QED
        BY <1>0, <1>1, <1>3, <2>1, <4>1, GoneOn DEF AtPage
    <3> QED
      BY <3>1, <3>2
  <2> QED
    BY <1>10, <2>1, <2>2, <2>3 DEF AtPage
<1>13. CASE RecordCandidatePreflight(p)
  <2>1. /\ job'[p].at = "next" /\ job'[p].urls = job[p].urls \ {job[p].url}
        /\ job'[p].mode = job[p].mode /\ job'[p].run = job[p].run
        /\ \A q \in Procs : q # p => job'[q] = job[q]
        /\ job[p].at = "verdict"
    BY <1>13, IdleShape DEF JobShape, RecordCandidatePreflight, At
  <2>2. /\ job[p].mode = "discover" /\ job[p].url \in job[p].urls /\ job[p].run \in Runs
        /\ job[p].urls \subseteq Urls /\ job[p].result \in Verdicts
    BY <1>0, <2>1 DEF TaskOK, ModeOK, AtPage
  <2>3. /\ Preflights(p) /\ Preflights(p)' /\ Claims(p) = job[p].urls
        /\ Claims(p)' = job[p].urls \ {job[p].url}
    BY <2>1, <2>2 DEF Preflights, Claims, Claiming, AtPage
  <2>4. Moves(p)
    BY <2>1, <2>3 DEF Moves
  <2>5. source[job[p].run][job[p].url].status \in Unchecked
    BY <2>2, <2>3 DEF ClaimInv
  <2>6. Respects(p)
    <3> SUFFICES ASSUME NEW r \in Runs, NEW u \in Urls, source'[r][u] # source[r][u]
                 PROVE  /\ source[r][u].status \in Unchecked
                        /\ r = job[p].run /\ u \in Claims(p) \ Claims(p)'
      BY DEF Respects
    <3>1. source'[r][u] = IF r = job[p].run /\ u = job[p].url
                          THEN [status |-> job[p].result, version |-> job[p].version]
                          ELSE source[r][u]
      BY <1>13, VerdictRow
    <3>2. r = job[p].run /\ u = job[p].url
      BY <3>1
    <3> QED
      BY <2>2, <2>3, <2>5, <3>2
  <2>7. source'[job[p].run][job[p].url].status \notin Unchecked
    <3>0. PICK r \in Runs, u \in Urls : r = job[p].run /\ u = job[p].url
      BY <2>2
    <3>1. source'[r][u] = [status |-> job[p].result, version |-> job[p].version]
      BY <1>13, <3>0, VerdictRow
    <3> QED
      BY <2>2, <3>0, <3>1 DEF Verdicts, Unchecked
  <2> QED
    BY <2>3, <2>4, <2>6, <2>7 DEF Carries
<1>14. CASE CompleteCandidatePreflight(p)
  <2>1. /\ Stop(p) /\ UNCHANGED source /\ job[p].urls = {} /\ job[p].at = "next"
        /\ run' = [run EXCEPT ![job[p].run] = "ready"]
    BY <1>14 DEF CompleteCandidatePreflight, At
  <2>2. Claims(p) = {} /\ run'[job[p].run] = "ready"
    BY <1>0, <2>1 DEF Claims, TaskOK, TasksInv, RecordsOK
  <2> QED
    BY <1>1, <2>1, <2>2, StoppedMoves DEF Carries
<1> QED
  BY <1>5, <1>6, <1>7, <1>8, <1>9, <1>11, <1>12, <1>13, <1>14

\* The other steps that claim nothing.
LEMMA OtherMoves ==
  ASSUME JobShape, TasksInv, NEW p \in Procs,
         \/ Search(p) \/ MarkFailed(p) \/ FailCandidatePreflight(p)
         \/ Reread(p) \/ Override(p) \/ Crash(p)
         \/ \E r \in Runs : \/ Request(p, r)
                            \/ \E u \in Urls : Extract(p, r, u)
                            \/ \E v \in Versions : Accept(p, r, v)
  PROVE  Moves(p) /\ Respects(p) /\ Carries(p)
<1>0. TaskOK(p) /\ \A q \in Procs : q # p => job'[q] = job[q]
  BY DEF TasksInv, Search, MarkFailed, FailCandidatePreflight, Reread, Override, Crash,
     Request, Extract, Accept, Stop, Goto, JobShape
<1>1. Respects(p)
  <2>1. UNCHANGED source
    BY DEF tables, Search, MarkFailed, FailCandidatePreflight, Reread, Override, Crash,
       Request, Extract, Accept
  <2> QED
    BY <2>1 DEF Respects
<1>2. ASSUME ~Preflights(p), job'[p].at \notin {"insert"} \cup Claiming
      PROVE  Moves(p) /\ Carries(p)
  BY <1>0, <1>2 DEF Moves, Carries, Preflights
<1>3. CASE Search(p)
  <2>1. job[p].at = "search"
    BY <1>3 DEF Search, At
  <2>2. job'[p].at \in {"lock", "mark_failed", "idle"}
    <3>1. ASSUME NEW found \in SUBSET Urls,
                 job' = [job EXCEPT ![p].at = "lock", ![p].urls = found, ![p].flag = FALSE]
          PROVE  job'[p].at = "lock"
      BY <3>1, IdleShape DEF JobShape
    <3> QED
      BY <1>3, <3>1, Went, Stopped DEF Search
  <2> QED
    BY <1>1, <1>2, <2>1, <2>2 DEF Preflights, Claiming, AtPage
<1>4. CASE MarkFailed(p) \/ Override(p)
  <2>1. job[p].at \in {"mark_failed", "override"} /\ job'[p].at = "idle"
    BY <1>4, Stopped DEF MarkFailed, Override, At
  <2> QED
    BY <1>1, <1>2, <2>1 DEF Preflights, Claiming, AtPage
<1>5. CASE FailCandidatePreflight(p) \/ Crash(p)
  <2>1. Preflights(p) => job[p].run \in lost'
    BY <1>5 DEF FailCandidatePreflight, Crash, Preflights
  <2>2. Moves(p)
    BY <1>5, StoppedMoves DEF FailCandidatePreflight, Crash
  <2> QED
    BY <1>1, <2>1, <2>2 DEF Carries
<1>6. CASE Reread(p)
  <2>1. job[p].at = "reread" /\ job'[p].at = "override"
    BY <1>6, IdleShape DEF JobShape, Reread, At
  <2> QED
    BY <1>1, <1>2, <2>1 DEF Preflights, Claiming, AtPage
<1>7. ASSUME NEW r \in Runs, Request(p, r) PROVE Moves(p) /\ Carries(p)
  <2>1. job[p].at = "idle" /\ job'[p].at = "search"
    BY <1>7 DEF JobShape, IdleJob, Request, At
  <2> QED
    BY <1>2, <2>1 DEF Preflights, Claiming, AtPage
<1>8. ASSUME NEW r \in Runs, NEW u \in Urls, Extract(p, r, u) PROVE Moves(p) /\ Carries(p)
  <2>1. job[p].at = "idle" /\ job'[p].mode = "extract" /\ job'[p].at = "fetch"
    BY <1>8 DEF JobShape, IdleJob, Extract, At
  <2> QED
    BY <1>0, <2>1 DEF Moves, Carries, Preflights, Claiming, AtPage
<1>9. ASSUME NEW r \in Runs, NEW v \in Versions, Accept(p, r, v) PROVE Moves(p) /\ Carries(p)
  <2>1. job[p].at = "idle" /\ job'[p].at = "reread"
    BY <1>9 DEF JobShape, IdleJob, Accept, At
  <2> QED
    BY <1>2, <2>1 DEF Preflights, Claiming, AtPage
<1> QED
  BY <1>1, <1>3, <1>4, <1>5, <1>6, <1>7, <1>8, <1>9

\* A plain step moves one process and adds no batch to the queue.
LEMMA PlainMoves ==
  ASSUME JobShape, TasksInv, ClaimInv, NEW p \in Procs, Plain(p)
  PROVE  Moves(p) /\ Respects(p) /\ Carries(p) /\ UNCHANGED queue
<1>1. Moves(p) /\ Respects(p) /\ Carries(p)
  BY PreflightMoves, OtherMoves DEF Plain
<1>2. UNCHANGED queue
  BY DEF Plain, Search, MarkFailed, FailCandidatePreflight, Load, TakeHeld,
     MarkCandidateChecking, FetchFails, Fetch, LookForCapture, SaveEvidence,
     LookForEvaluation, Evaluate, RecordCandidatePreflight, CompleteCandidatePreflight,
     Reread, Override, Crash, Request, Extract, Accept
<1> QED
  BY <1>1, <1>2

\* Where a step claims nothing and respects the claims of others, they stand.
LEMMA MovesKeepClaims ==
  ASSUME TasksInv, ClaimInv, NEW p \in Procs, Moves(p), Respects(p), UNCHANGED queue
  PROVE  ClaimInv'
<1>0. \A q \in Procs : TaskOK(q)
  BY DEF TasksInv
<1>1. /\ Claims(p)' \subseteq Claims(p)
      /\ Claims(p)' # {} => job'[p].run = job[p].run
      /\ \A q \in Procs : q # p => Claims(q)' = Claims(q) /\ job'[q].run = job[q].run
  BY DEF Moves, Claims, Preflights
<1>2. \A q \in Procs : \A u \in Claims(q) : job[q].run \in Runs /\ u \in Urls
  BY <1>0 DEF TaskOK, Claims, Preflights, Claiming, AtPage
<1>3. ASSUME NEW q \in Procs, NEW u \in Claims(q)'
      PROVE  source'[job'[q].run][u].status \in Unchecked
  <2>1. u \in Claims(q) /\ job'[q].run = job[q].run
    BY <1>1, <1>3
  <2>2. PICK r \in Runs : r = job[q].run /\ u \in Urls /\ source[r][u].status \in Unchecked
    BY <1>2, <2>1 DEF ClaimInv
  <2>3. ~(r = job[p].run /\ u \in Claims(p) \ Claims(p)')
    BY <1>1, <1>3, <2>1, <2>2 DEF ClaimInv
  <2>4. source'[r][u].status \in Unchecked
    BY <2>2, <2>3 DEF Respects
  <2> QED
    BY <2>1, <2>2, <2>4
<1>4. ASSUME NEW q \in Procs, NEW w \in Procs, q # w, job'[q].run = job'[w].run
      PROVE  Claims(q)' \cap Claims(w)' = {}
  BY <1>1, <1>4 DEF ClaimInv
<1>5. ASSUME NEW b \in queue, NEW u \in b.urls PROVE source'[b.run][u].status \in Unchecked
  <2>1. PICK r \in Runs : r = b.run /\ u \in Urls /\ source[r][u].status \in Unchecked
    BY <1>5 DEF ClaimInv, TasksInv, RecordsOK
  <2>2. ~(r = job[p].run /\ u \in Claims(p))
    BY <1>5, <2>1 DEF ClaimInv
  <2>3. source'[r][u].status \in Unchecked
    BY <2>1, <2>2 DEF Respects
  <2> QED
    BY <2>1, <2>3
<1>6. ASSUME NEW b \in queue, NEW q \in Procs, b.run = job'[q].run
      PROVE  b.urls \cap Claims(q)' = {}
  BY <1>1, <1>6 DEF ClaimInv
<1>7. ASSUME NEW q \in Procs, job'[q].at = "insert"
      PROVE  /\ \A u \in job'[q].urls : source'[job'[q].run][u].status = "absent"
             /\ \A w \in Procs \ {q} : job'[w].at = "insert" => job'[w].run # job'[q].run
  <2>1. q # p /\ job'[q] = job[q] /\ At(q, "insert")
    BY <1>7 DEF Moves, At
  <2>2. \A w \in Procs \ {q} : job'[w].at = "insert" => job'[w].run # job'[q].run
    BY <2>1 DEF Moves, ClaimInv, At
  <2>3. ASSUME NEW u \in job[q].urls PROVE source'[job[q].run][u].status = "absent"
    <3>1. PICK r \in Runs : r = job[q].run /\ u \in Urls /\ source[r][u].status = "absent"
      BY <1>0, <2>1, <2>3 DEF ClaimInv, TaskOK, At
    <3>2. source'[r][u] = source[r][u]
      BY <3>1 DEF Respects, Unchecked
    <3> QED
      BY <3>1, <3>2
  <2> QED
    BY <2>1, <2>2, <2>3
<1>8. \A b, c \in queue : b # c /\ b.run = c.run => b.urls \cap c.urls = {}
  BY DEF ClaimInv
<1> QED
  BY <1>3, <1>4, <1>5, <1>6, <1>7, <1>8 DEF ClaimInv, At

\* What the four steps at which a batch changes hands do to their process.
LEMMA LockMoves ==
  ASSUME JobShape, NEW p \in Procs, LockRun(p)
  PROVE  /\ job[p].at = "lock" /\ job'[p].at = "insert" /\ Unlocked(job[p].run)
         /\ job'[p].mode = job[p].mode /\ job'[p].run = job[p].run
         /\ job'[p].urls = job[p].urls \ KnownUrls
         /\ job'[p].flag = (KnownUrls \cup job[p].urls = {})
         /\ \A q \in Procs : q # p => job'[q] = job[q]
         /\ UNCHANGED <<source, queue, run, lost>>
BY IdleShape DEF JobShape, LockRun, At, tables

\* Inserting new candidates makes them the claim of the inserting process.
LEMMA SaveMoves ==
  ASSUME JobShape, TasksInv, NEW p \in Procs, SaveNewSources(p)
  PROVE  /\ At(p, "insert") /\ job[p].mode = "discover" /\ job[p].run \in Runs
         /\ job[p].urls \subseteq Urls
         /\ job[p].urls = {} => ~Preflights(p)' /\ job'[p].at = "idle"
         /\ job[p].urls # {} => /\ Preflights(p)' /\ job'[p].at # "insert"
                                /\ job'[p].run = job[p].run /\ job'[p].urls = job[p].urls
         /\ \A q \in Procs : q # p => job'[q] = job[q]
         /\ UNCHANGED <<queue, lost>>
         /\ run' = [run EXCEPT ![job[p].run] = StatusAfterSave(p)]
<1>1. /\ job[p].at = "insert" /\ job[p].mode = "discover" /\ job[p].run \in Runs
      /\ job[p].urls \subseteq Urls
  BY DEF SaveNewSources, At, TasksInv, TaskOK, ModeOK, AtPage
<1>2. CASE job[p].urls = {}
  <2>1. Stop(p)
    BY <1>2 DEF SaveNewSources
  <2> QED
    BY <1>1, <1>2, <2>1, Stopped DEF Preflights, SaveNewSources, At, Stop, JobShape
<1>3. CASE job[p].urls # {}
  <2>1. PICK label \in {"load", "schedule"} : Goto(p, label)
    BY <1>3 DEF SaveNewSources
  <2> QED
    BY <1>1, <1>3, <2>1, Went DEF Preflights, Claiming, SaveNewSources, At, Goto, JobShape
<1> QED
  BY <1>2, <1>3

\* A batch given to Temporal takes the claims of its process along.
LEMMA QueueMoves ==
  ASSUME JobShape, TasksInv, NEW p \in Procs, Schedule(p), Stop(p),
         queue' = queue \cup {[run |-> job[p].run, urls |-> job[p].urls]}
  PROVE  /\ Preflights(p) /\ ~Preflights(p)' /\ job'[p].at = "idle"
         /\ Claims(p) = job[p].urls /\ Claims(p)' = {}
         /\ \A q \in Procs : q # p => job'[q] = job[q]
         /\ UNCHANGED <<source, run>>
<1>1. job[p].at = "schedule" /\ Preflights(p)
  BY DEF Schedule, At, TasksInv, TaskOK, ModeOK, AtPage, Preflights, Claiming
<1>2. ~Preflights(p)' /\ job'[p].at = "idle" /\ \A q \in Procs : q # p => job'[q] = job[q]
  BY Stopped DEF Preflights, Stop, JobShape
<1> QED
  BY <1>1, <1>2 DEF Claims, Schedule, tables

\* A worker takes the claims of the batch it takes.
LEMMA PollMoves ==
  ASSUME JobShape, NEW p \in Procs, Poll(p)
  PROVE  \E b \in queue :
           /\ queue' = queue \ {b}
           /\ At(p, "idle") /\ ~Preflights(p) /\ Preflights(p)' /\ job'[p].at = "load"
           /\ job'[p].run = b.run /\ job'[p].urls = b.urls
           /\ \A q \in Procs : q # p => job'[q] = job[q]
           /\ UNCHANGED <<source, run, lost>>
<1>1. PICK b \in queue :
        /\ queue' = queue \ {b}
        /\ job' = [job EXCEPT ![p] = [IdleJob EXCEPT !.mode = "discover", !.at = "load",
                                      !.run = b.run, !.urls = b.urls]]
  BY DEF Poll
<1>2. /\ job'[p].mode = "discover" /\ job'[p].at = "load" /\ job'[p].run = b.run
      /\ job'[p].urls = b.urls /\ \A q \in Procs : q # p => job'[q] = job[q]
  BY <1>1 DEF JobShape, IdleJob
<1> QED
  BY <1>1, <1>2 DEF Poll, At, Preflights, Claiming, AtPage, tables

\* A request locks its run and forgets the candidates that are known.
LEMMA LockKeepsClaims ==
  ASSUME JobShape, TasksInv, ClaimInv, NEW p \in Procs, LockRun(p)
  PROVE  ClaimInv'
<1>1. ~Preflights(p) /\ ~Preflights(p)' /\ UNCHANGED <<source, queue>>
  BY LockMoves DEF Preflights, Claiming, AtPage
<1>2. \A q \in Procs : Claims(q)' = Claims(q) /\ job'[q].run = job[q].run
  BY <1>1, LockMoves DEF Claims, Preflights
<1>3. ASSUME NEW u \in job'[p].urls PROVE source[job[p].run][u].status = "absent"
  <2>1. /\ job[p].run \in Runs /\ u \in Urls /\ u \notin KnownUrls
    BY <1>3, LockMoves DEF TasksInv, TaskOK
  <2> QED
    BY <2>1 DEF KnownUrls, Candidates
<1>4. ASSUME NEW q \in Procs, job'[q].at = "insert"
      PROVE  /\ \A u \in job'[q].urls : source'[job'[q].run][u].status = "absent"
             /\ \A w \in Procs \ {q} : job'[w].at = "insert" => job'[w].run # job'[q].run
  <2>1. CASE q = p
    BY <1>1, <1>3, <2>1, LockMoves DEF Unlocked
  <2>2. CASE q # p
    <3>1. job'[q] = job[q] /\ At(q, "insert")
      BY <1>4, <2>2, LockMoves DEF At
    <3>2. job[q].run # job[p].run
      BY <3>1, LockMoves DEF Unlocked, At
    <3> QED
      BY <1>1, <1>2, <3>1, <3>2, LockMoves DEF ClaimInv, At
  <2> QED
    BY <2>1, <2>2
<1>5. /\ \A q \in Procs : \A u \in Claims(q)' : source'[job'[q].run][u].status \in Unchecked
      /\ \A q, w \in Procs : q # w /\ job'[q].run = job'[w].run => Claims(q)' \cap Claims(w)' = {}
      /\ \A b \in queue', q \in Procs : b.run = job'[q].run => b.urls \cap Claims(q)' = {}
  BY <1>1, <1>2 DEF ClaimInv
<1>6. /\ \A b \in queue' : \A u \in b.urls : source'[b.run][u].status \in Unchecked
      /\ \A b, c \in queue' : b # c /\ b.run = c.run => b.urls \cap c.urls = {}
  BY <1>1 DEF ClaimInv
<1> QED
  BY <1>4, <1>5, <1>6 DEF ClaimInv, At

\* It inserts candidates that nobody has claimed, and claims them.
LEMMA SaveKeepsClaims ==
  ASSUME JobShape, TasksInv, ClaimInv, NEW p \in Procs, SaveNewSources(p)
  PROVE  ClaimInv'
<1>0. \A q \in Procs : TaskOK(q)
  BY DEF TasksInv
<1>1. /\ At(p, "insert") /\ job[p].run \in Runs /\ Claims(p) = {} /\ UNCHANGED queue
      /\ Claims(p)' = job[p].urls /\ (Claims(p)' # {} => job'[p].run = job[p].run)
      /\ job'[p].at # "insert" /\ job[p].urls \subseteq Urls
      /\ \A q \in Procs : q # p => job'[q] = job[q]
  BY SaveMoves DEF Claims, Preflights, Claiming, AtPage, At
<1>2. \A q \in Procs : q # p => Claims(q)' = Claims(q) /\ job'[q].run = job[q].run
  BY <1>1 DEF Claims, Preflights
<1>3. \A u \in job[p].urls : source[job[p].run][u].status = "absent"
  BY <1>1 DEF ClaimInv
<1>4. ASSUME NEW r \in Runs, NEW u \in Urls
      PROVE  \/ /\ r = job[p].run /\ u \in job[p].urls
                /\ source'[r][u].status = "pending" /\ source[r][u].status = "absent"
             \/ ~(r = job[p].run /\ u \in job[p].urls) /\ source'[r][u] = source[r][u]
  <2>1. source'[r][u] = IF r = job[p].run /\ u \in job[p].urls
                        THEN [status |-> "pending", version |-> "none"] ELSE source[r][u]
    BY InsertedRows
  <2> QED
    BY <1>3, <2>1
<1>5. ASSUME NEW r \in Runs, NEW u \in Urls, source[r][u].status \in Unchecked
      PROVE  /\ source'[r][u].status \in Unchecked
             /\ ~(r = job[p].run /\ u \in Claims(p)')
  BY <1>1, <1>4, <1>5 DEF Unchecked
<1>6. ASSUME NEW q \in Procs, NEW u \in Claims(q)
      PROVE  job[q].run \in Runs /\ u \in Urls /\ source[job[q].run][u].status \in Unchecked
  BY <1>0, <1>6 DEF TaskOK, Claims, Preflights, Claiming, AtPage, ClaimInv
<1>7. ASSUME NEW b \in queue, NEW u \in b.urls
      PROVE  b.run \in Runs /\ u \in Urls /\ source[b.run][u].status \in Unchecked
  BY <1>7 DEF TasksInv, RecordsOK, ClaimInv
<1>8. ASSUME NEW q \in Procs, NEW u \in Claims(q)'
      PROVE  source'[job'[q].run][u].status \in Unchecked
  <2>1. CASE q = p
    BY <1>1, <1>4, <1>8, <2>1 DEF Unchecked
  <2>2. CASE q # p
    BY <1>2, <1>5, <1>6, <1>8, <2>2
  <2> QED
    BY <2>1, <2>2
<1>9. ASSUME NEW q \in Procs, NEW w \in Procs, q # w, job'[q].run = job'[w].run
      PROVE  Claims(q)' \cap Claims(w)' = {}
  <2>1. ASSUME NEW z \in Procs, z # p, job'[z].run = job'[p].run
        PROVE  Claims(z)' \cap Claims(p)' = {}
    BY <1>1, <1>2, <1>5, <1>6, <2>1
  <2> QED
    BY <1>2, <1>9, <2>1 DEF ClaimInv
<1>10. ASSUME NEW b \in queue, NEW q \in Procs, b.run = job'[q].run
       PROVE  b.urls \cap Claims(q)' = {}
  <2>1. CASE q = p
    BY <1>1, <1>5, <1>7, <1>10, <2>1
  <2>2. CASE q # p
    BY <1>2, <1>10, <2>2 DEF ClaimInv
  <2> QED
    BY <2>1, <2>2
<1>11. ASSUME NEW q \in Procs, job'[q].at = "insert"
       PROVE  /\ \A u \in job'[q].urls : source'[job'[q].run][u].status = "absent"
              /\ \A w \in Procs \ {q} : job'[w].at = "insert" => job'[w].run # job'[q].run
  <2>1. q # p /\ job'[q] = job[q] /\ At(q, "insert") /\ job[q].run # job[p].run
    BY <1>1, <1>11 DEF At, ClaimInv
  <2>2. \A w \in Procs \ {q} : job'[w].at = "insert" => job'[w].run # job'[q].run
    BY <1>1, <2>1 DEF ClaimInv, At
  <2>3. \A u \in job[q].urls : /\ job[q].run \in Runs /\ u \in Urls
                               /\ source[job[q].run][u].status = "absent"
    BY <1>0, <2>1 DEF ClaimInv, TaskOK, At
  <2>4. ASSUME NEW u \in job[q].urls PROVE source'[job[q].run][u].status = "absent"
    BY <1>4, <2>1, <2>3, <2>4
  <2> QED
    BY <2>1, <2>2, <2>4
<1>12. /\ \A b \in queue' : \A u \in b.urls : source'[b.run][u].status \in Unchecked
       /\ \A b, c \in queue' : b # c /\ b.run = c.run => b.urls \cap c.urls = {}
  BY <1>1, <1>5, <1>7 DEF ClaimInv
<1> QED
  BY <1>1, <1>8, <1>9, <1>10, <1>11, <1>12 DEF ClaimInv, At

\* A batch that goes to the queue takes the claims with it,
LEMMA QueueKeepsClaims ==
  ASSUME JobShape, TasksInv, ClaimInv, NEW p \in Procs, Schedule(p), Stop(p),
         queue' = queue \cup {[run |-> job[p].run, urls |-> job[p].urls]}
  PROVE  ClaimInv'
<1> DEFINE new == [run |-> job[p].run, urls |-> job[p].urls]
<1>1. /\ new.run = job[p].run /\ new.urls = Claims(p) /\ Claims(p)' = {}
      /\ job'[p].at = "idle" /\ \A q \in Procs : q # p => job'[q] = job[q]
      /\ UNCHANGED source /\ queue' = queue \cup {new}
  BY QueueMoves
<1> HIDE DEF new
<1>2. \A q \in Procs : q # p => Claims(q)' = Claims(q) /\ job'[q].run = job[q].run
  BY <1>1 DEF Claims, Preflights
<1>3. /\ \A q \in Procs : \A u \in Claims(q)' : source'[job'[q].run][u].status \in Unchecked
      /\ \A q, w \in Procs : q # w /\ job'[q].run = job'[w].run => Claims(q)' \cap Claims(w)' = {}
  BY <1>1, <1>2 DEF ClaimInv
<1>4. \A b \in queue' : \A u \in b.urls : source'[b.run][u].status \in Unchecked
  BY <1>1 DEF ClaimInv
<1>5. \A b \in queue', q \in Procs : b.run = job'[q].run => b.urls \cap Claims(q)' = {}
  BY <1>1, <1>2 DEF ClaimInv
<1>6. \A b, c \in queue' : b # c /\ b.run = c.run => b.urls \cap c.urls = {}
  BY <1>1 DEF ClaimInv
<1>7. \A q \in Procs : job'[q].at = "insert" =>
        /\ \A u \in job'[q].urls : source'[job'[q].run][u].status = "absent"
        /\ \A w \in Procs \ {q} : job'[w].at = "insert" => job'[w].run # job'[q].run
  BY <1>1 DEF ClaimInv, At
<1> QED
  BY <1>3, <1>4, <1>5, <1>6, <1>7 DEF ClaimInv, At

\* and the worker that takes the batch gets them.
LEMMA PollKeepsClaims ==
  ASSUME JobShape, TasksInv, ClaimInv, NEW p \in Procs, Poll(p)
  PROVE  ClaimInv'
<1>1. PICK b \in queue :
        /\ queue' = queue \ {b}
        /\ At(p, "idle") /\ ~Preflights(p) /\ Preflights(p)' /\ job'[p].at = "load"
        /\ job'[p].run = b.run /\ job'[p].urls = b.urls
        /\ \A q \in Procs : q # p => job'[q] = job[q]
        /\ UNCHANGED source
  BY PollMoves
<1>2. Claims(p)' = b.urls
  BY <1>1 DEF Claims
<1>3. \A q \in Procs : q # p => Claims(q)' = Claims(q) /\ job'[q].run = job[q].run
  BY <1>1 DEF Claims, Preflights
<1>4. /\ \A q \in Procs : \A u \in Claims(q)' : source'[job'[q].run][u].status \in Unchecked
      /\ \A q, w \in Procs : q # w /\ job'[q].run = job'[w].run => Claims(q)' \cap Claims(w)' = {}
  BY <1>1, <1>2, <1>3 DEF ClaimInv
<1>5. /\ \A c \in queue' : \A u \in c.urls : source'[c.run][u].status \in Unchecked
      /\ \A c, d \in queue' : c # d /\ c.run = d.run => c.urls \cap d.urls = {}
  BY <1>1 DEF ClaimInv
<1>6. \A c \in queue', q \in Procs : c.run = job'[q].run => c.urls \cap Claims(q)' = {}
  BY <1>1, <1>2, <1>3 DEF ClaimInv
<1>7. \A q \in Procs : job'[q].at = "insert" =>
        /\ \A u \in job'[q].urls : source'[job'[q].run][u].status = "absent"
        /\ \A w \in Procs \ {q} : job'[w].at = "insert" => job'[w].run # job'[q].run
  BY <1>1 DEF ClaimInv, At
<1> QED
  BY <1>4, <1>5, <1>6, <1>7 DEF ClaimInv, At

\* Without an address, or when Temporal does not answer, the batch is lost.
LEMMA UnscheduledMoves ==
  ASSUME JobShape, TasksInv, NEW p \in Procs, Schedule(p),
         \/ Goto(p, "fail_preflight") /\ UNCHANGED <<queue, lost>>
         \/ Stop(p) /\ lost' = lost \cup {job[p].run} /\ UNCHANGED queue
  PROVE  Moves(p) /\ Respects(p) /\ Carries(p) /\ UNCHANGED queue
<1>1. Respects(p) /\ UNCHANGED <<source, queue>>
  BY DEF Schedule, tables, Respects
<1>2. CASE Goto(p, "fail_preflight")
  <2>1. /\ job'[p].at = "fail_preflight" /\ job'[p].mode = job[p].mode
        /\ job'[p].run = job[p].run /\ job'[p].urls = job[p].urls
        /\ \A q \in Procs : q # p => job'[q] = job[q]
    BY <1>2, Went DEF Goto, JobShape
  <2>2. job[p].at = "schedule"
    BY DEF Schedule, At
  <2>3. (Preflights(p) <=> Preflights(p)') /\ Claims(p)' = Claims(p)
    BY <2>1, <2>2 DEF Preflights, Claiming, Claims
  <2> QED
    BY <1>1, <2>1, <2>3 DEF Moves, Carries
<1>3. CASE Stop(p) /\ lost' = lost \cup {job[p].run}
  BY <1>1, <1>3, StoppedMoves DEF Carries
<1> QED
  BY <1>1, <1>2, <1>3

\* A step is one of these, or leaves every process and every candidate alone.
LEMMA ResearchSteps ==
  ASSUME [ResearchNext]_researchVars
  PROVE  \/ \E p \in Procs :
              \/ Plain(p) \/ LockRun(p) \/ SaveNewSources(p) \/ Schedule(p) \/ Poll(p)
         \/ UNCHANGED <<run, source, job, queue, lost>>
BY DEF ResearchNext, Proceed, Plain, Deadline, Rest, researchVars, tables

\* The three ends of a hand-over: queued, refused, lost.
LEMMA ScheduleSteps ==
  ASSUME NEW p \in Procs, Schedule(p)
  PROVE  \/ /\ queue' = queue \cup {[run |-> job[p].run, urls |-> job[p].urls]}
            /\ Stop(p) /\ UNCHANGED lost
         \/ Goto(p, "fail_preflight") /\ UNCHANGED <<queue, lost>>
         \/ Stop(p) /\ lost' = lost \cup {job[p].run} /\ UNCHANGED queue
BY DEF Schedule

\* ClaimInv is inductive: no two owners claim a candidate.
LEMMA ClaimStep ==
  AcceptInv /\ TasksInv /\ ClaimInv /\ [ResearchNext]_researchVars => ClaimInv'
<1> SUFFICES ASSUME AcceptInv, TasksInv, ClaimInv, [ResearchNext]_researchVars
             PROVE  ClaimInv'
  OBVIOUS
<1>0. JobShape
  BY DEF AcceptInv
<1>1. ASSUME NEW p \in Procs, Plain(p) PROVE ClaimInv'
  BY <1>0, <1>1, PlainMoves, MovesKeepClaims
<1>2. ASSUME NEW p \in Procs, LockRun(p) PROVE ClaimInv'
  BY <1>0, <1>2, LockKeepsClaims
<1>3. ASSUME NEW p \in Procs, SaveNewSources(p) PROVE ClaimInv'
  BY <1>0, <1>3, SaveKeepsClaims
<1>4. ASSUME NEW p \in Procs, Schedule(p) PROVE ClaimInv'
  BY <1>0, <1>4, ScheduleSteps, QueueKeepsClaims, UnscheduledMoves, MovesKeepClaims
<1>5. ASSUME NEW p \in Procs, Poll(p) PROVE ClaimInv'
  BY <1>0, <1>5, PollKeepsClaims
<1>6. CASE UNCHANGED <<run, source, job, queue, lost>>
  BY <1>6 DEF ClaimInv, Claims, Preflights, At
<1> QED
  BY <1>1, <1>2, <1>3, <1>4, <1>5, <1>6, ResearchSteps

\* Nobody claims a candidate in the beginning.
LEMMA ClaimInit == ResearchInit => ClaimInv
<1> SUFFICES ASSUME ResearchInit PROVE ClaimInv
  OBVIOUS
<1>1. queue = {} /\ \A p \in Procs : job[p] = IdleJob
  BY DEF ResearchInit
<1>2. \A p \in Procs : Claims(p) = {} /\ ~At(p, "insert")
  BY <1>1 DEF IdleJob, Claims, Preflights, At
<1> QED
  BY <1>1, <1>2 DEF ClaimInv

\* Whichever batches, repeated requests, crashes and workers interleave, the
\* verdict of a candidate is given once: save_new_sources inserts only what the
\* workspace does not know, under the lock of the run (web_research/store.py:280-359), and
\* the batch that claims a candidate is the only one to judge it.
THEOREM CandidatesJudgedOnce == ResearchSpec => VerdictIsFinal
<1>1. ASSUME AcceptInv, TasksInv, ClaimInv, [ResearchNext]_researchVars,
             NEW r \in Runs, NEW u \in Urls, source[r][u].status \in Verdicts
      PROVE  source'[r][u] = source[r][u]
  <2>1. ASSUME NEW p \in Procs, SaveNewSources(p), r = job[p].run, u \in job[p].urls
        PROVE  FALSE
    <3>1. source[r][u].status = "absent"
      BY <1>1, <2>1 DEF SaveNewSources, ClaimInv
    <3> QED
      BY <1>1, <3>1 DEF Verdicts
  <2>2. source[r][u].status # "pending"
    BY <1>1 DEF Verdicts
  <2>3. ASSUME NEW p \in Procs, RecordCandidatePreflight(p), r = job[p].run, u = job[p].url
        PROVE  FALSE
    <3>1. job[p].at = "verdict" /\ TaskOK(p)
      BY <1>1, <2>3 DEF RecordCandidatePreflight, At, TasksInv
    <3>2. u \in Claims(p)
      BY <2>3, <3>1 DEF TaskOK, ModeOK, AtPage, Claims, Preflights, Claiming
    <3>3. source[r][u].status \in Unchecked
      BY <1>1, <2>3, <3>2 DEF ClaimInv
    <3> QED
      BY <1>1, <3>3 DEF Verdicts, Unchecked
  <2> QED
    BY <1>1, <2>1, <2>2, <2>3, SourceStep
<1>2. AcceptInv /\ TasksInv /\ ClaimInv /\ [ResearchNext]_researchVars =>
        [\A r \in Runs, u \in Urls :
           source[r][u].status \in Verdicts => source'[r][u] = source[r][u]]_researchVars
  BY <1>1
<1> QED
  BY <1>2, AcceptInvInit, AcceptInvStep, TasksInit, TasksStep, ClaimInit, ClaimStep, PTL
     DEF ResearchSpec, VerdictIsFinal

-----------------------------------------------------------------------------
(* Nothing is left undone.                                                  *)

\* A run with a lost batch stays among the lost.
LEMMA LostStays ==
  ASSUME [ResearchNext]_researchVars
  PROVE  lost \subseteq lost'
<1>1. ASSUME NEW p \in Procs, Proceed(p) PROVE lost \subseteq lost'
  BY <1>1 DEF Proceed, Search, MarkFailed, LockRun, SaveNewSources, Schedule,
     FailCandidatePreflight, Load, TakeHeld, MarkCandidateChecking, FetchFails, Fetch,
     LookForCapture, SaveEvidence, LookForEvaluation, Evaluate, RecordCandidatePreflight,
     CompleteCandidatePreflight, Reread, Override
<1>2. ASSUME \/ UNCHANGED researchVars \/ Deadline \/ Rest
             \/ \E p \in Procs :
                  \/ Poll(p) \/ Crash(p)
                  \/ \E r \in Runs : \/ Request(p, r)
                                     \/ \E u \in Urls : Extract(p, r, u)
                                     \/ \E v \in Versions : Accept(p, r, v)
      PROVE  lost \subseteq lost'
  BY <1>2 DEF researchVars, Deadline, Rest, Poll, Crash, Request, Extract, Accept
<1> QED
  BY <1>1, <1>2 DEF ResearchNext

\* A page that the workspace knows stays known.
LEMMA KnownStays ==
  ASSUME TasksInv, [ResearchNext]_researchVars, KnownUrls # {}
  PROVE  KnownUrls' # {}
<1>1. PICK r \in Runs, u \in Urls : source[r][u].status # "absent"
  BY DEF KnownUrls, Candidates
<1>2. source'[r][u].status # "absent"
  <2>1. source[r][u] \in SourceRows
    BY DEF TasksInv, RecordsOK
  <2>2. ASSUME NEW p \in Procs, RecordCandidatePreflight(p) PROVE job[p].result # "absent"
    BY <2>2 DEF RecordCandidatePreflight, At, TasksInv, TaskOK, Verdicts
  <2>3. [source[r][u] EXCEPT !.status = "checking"].status = "checking"
    BY <2>1 DEF SourceRows
  <2>4. \/ source'[r][u] = source[r][u]
        \/ source'[r][u] = [status |-> "pending", version |-> "none"]
        \/ source'[r][u] = [source[r][u] EXCEPT !.status = "checking"]
        \/ \E p \in Procs : /\ RecordCandidatePreflight(p)
                            /\ source'[r][u] = [status |-> job[p].result,
                                                version |-> job[p].version]
    BY SourceStep
  <2>5. CASE source'[r][u] = [status |-> "pending", version |-> "none"]
    BY <2>5
  <2>6. ASSUME NEW p \in Procs, RecordCandidatePreflight(p),
               source'[r][u] = [status |-> job[p].result, version |-> job[p].version]
        PROVE  source'[r][u].status # "absent"
    BY <2>2, <2>6
  <2>7. source'[r][u] = [source[r][u] EXCEPT !.status = "checking"] =>
          source'[r][u].status = "checking"
    BY <2>3
  <2> QED
    BY <1>1, <2>4, <2>5, <2>6, <2>7
<1> QED
  BY <1>2 DEF KnownUrls, Candidates

\* How a step that moves no batch changes the status of a run.
LEMMA PlainStatus ==
  ASSUME JobShape, TasksInv, NEW p \in Procs, Plain(p), NEW r \in Runs
  PROVE  \/ run'[r] = run[r] \/ run'[r] \in {"failed", "ready"}
         \/ run'[r] = "searching" /\ Finding(p, r)'
<1>0. run \in [Runs -> RunStatuses]
  BY DEF TasksInv, RecordsOK
<1>1. CASE UNCHANGED run
  BY <1>1
<1>2. CASE MarkFailed(p) \/ FailCandidatePreflight(p) \/ CompleteCandidatePreflight(p)
  <2>1. run' = [run EXCEPT ![job[p].run] = "failed"] \/ run' = [run EXCEPT ![job[p].run] = "ready"]
    BY <1>2 DEF MarkFailed, FailCandidatePreflight, CompleteCandidatePreflight
  <2> QED
    BY <1>0, <2>1
<1>3. ASSUME NEW q \in Runs, Request(p, q), run'[r] # run[r]
      PROVE  run'[r] = "searching" /\ Finding(p, r)'
  <2>1. q = r /\ run[r] = "absent" /\ run'[r] = "searching"
    BY <1>0, <1>3 DEF Request
  <2>2. /\ job'[p].mode = "discover" /\ job'[p].at = "search" /\ job'[p].run = q
        /\ job'[p].flag = (run[q] = "absent")
    BY <1>3 DEF JobShape, IdleJob, Request
  <2> QED
    BY <2>1, <2>2 DEF Finding, At
<1> QED
  BY <1>1, <1>2, <1>3 DEF Plain, tables, Search, Load, TakeHeld, MarkCandidateChecking,
     FetchFails, Fetch, LookForCapture, SaveEvidence, LookForEvaluation, Evaluate,
     RecordCandidatePreflight, Reread, Override, Crash, Extract, Accept

\* Who is about to say what a run found goes on to say it.
LEMMA FinderMoves ==
  ASSUME JobShape, TasksInv, NEW p \in Procs, Plain(p), NEW r \in Runs, Finding(p, r),
         r \notin lost'
  PROVE  Finding(p, r)' \/ run'[r] = "failed"
<1>0. /\ job[p].mode = "discover" /\ job[p].run = r
      /\ job[p].at \in {"search", "mark_failed", "lock", "insert"}
      /\ job[p].at = "search" => job[p].flag
  BY DEF Finding, At
<1>1. CASE Search(p)
  <2>1. job[p].flag
    BY <1>0, <1>1 DEF Search, At
  <2>2. ASSUME NEW found \in SUBSET Urls,
               job' = [job EXCEPT ![p].at = "lock", ![p].urls = found, ![p].flag = FALSE]
        PROVE  Finding(p, r)'
    <3>1. job'[p].at = "lock" /\ job'[p].mode = job[p].mode /\ job'[p].run = job[p].run
      BY <2>2, IdleShape DEF JobShape
    <3> QED
      BY <1>0, <3>1 DEF Finding, At
  <2>3. ASSUME Goto(p, "mark_failed") PROVE Finding(p, r)'
    BY <1>0, <2>3, Went DEF Finding, At
  <2> QED
    BY <1>1, <2>1, <2>2, <2>3 DEF Search
<1>2. CASE MarkFailed(p)
  BY <1>0, <1>2 DEF MarkFailed, TasksInv, RecordsOK
<1>3. CASE Crash(p)
  BY <1>0, <1>3 DEF Crash
<1> QED
  BY <1>0, <1>1, <1>2, <1>3 DEF Plain, At, FailCandidatePreflight, Load, TakeHeld,
     MarkCandidateChecking, FetchFails, Fetch, LookForCapture, SaveEvidence,
     LookForEvaluation, Evaluate, RecordCandidatePreflight, CompleteCandidatePreflight,
     Reread, Override, Request, Extract, Accept

\* A step that moves no batch leaves nothing undone.
LEMMA MovesSettle ==
  ASSUME TasksInv, SettleInv, [ResearchNext]_researchVars,
         NEW p \in Procs, Moves(p), Respects(p), Carries(p), UNCHANGED queue,
         \A r \in Runs : \/ run'[r] = run[r] \/ run'[r] \in {"failed", "ready"}
                         \/ run'[r] = "searching" /\ Finding(p, r)',
         \A r \in Runs \ lost' : Finding(p, r) => Finding(p, r)' \/ run'[r] = "failed"
  PROVE  SettleInv'
<1>0. lost \subseteq lost' /\ (KnownUrls # {} => KnownUrls' # {})
  BY LostStays, KnownStays
<1>1. /\ \A q \in Procs : q # p => job'[q] = job[q]
      /\ \A q \in Procs : q # p => (Preflights(q)' <=> Preflights(q)) /\ Claims(q)' = Claims(q)
      /\ \A q \in Procs, r \in Runs : q # p /\ Finding(q, r) => Finding(q, r)'
  BY DEF Moves, Preflights, Claims, Finding, At
<1>2. ASSUME NEW r \in Runs \ lost', NEW u \in Urls, source'[r][u].status \in Unchecked
      PROVE  ClaimedInRun(r, u)'
  <2>1. source[r][u].status \in Unchecked
    BY <1>2 DEF Respects
  <2>2. ClaimedInRun(r, u)
    BY <1>0, <2>1 DEF SettleInv
  <2>3. ASSUME job[p].run = r, u \in Claims(p) PROVE u \in Claims(p)' /\ job'[p].run = r
    <3>1. Preflights(p)
      BY <2>3 DEF Claims
    <3>2. u \in Claims(p)'
      BY <1>2, <2>3, <3>1 DEF Carries
    <3>3. Preflights(p)'
      BY <3>2 DEF Claims
    <3> QED
      BY <2>3, <3>2, <3>3 DEF Moves
  <2> QED
    BY <1>1, <2>2, <2>3 DEF ClaimedInRun
<1>3. ASSUME NEW r \in Runs \ lost', run'[r] = "preflighting" PROVE Preflighted(r)'
  <2>1. run[r] = "preflighting"
    BY <1>3
  <2>2. Preflighted(r)
    BY <1>0, <2>1 DEF SettleInv
  <2>3. ASSUME Preflights(p), job[p].run = r PROVE Preflights(p)' /\ job'[p].run = r
    BY <1>3, <2>3 DEF Carries, Moves
  <2> QED
    BY <1>1, <2>2, <2>3 DEF Preflighted
<1>4. ASSUME NEW r \in Runs \ lost', run'[r] = "searching"
      PROVE  KnownUrls' # {} \/ \E q \in Procs : Finding(q, r)'
  <2>1. CASE Finding(p, r)'
    BY <2>1
  <2>2. CASE ~Finding(p, r)'
    <3>1. run[r] = "searching" /\ ~Finding(p, r)
      BY <1>4, <2>2
    <3>2. KnownUrls # {} \/ \E q \in Procs : Finding(q, r)
      BY <1>0, <3>1 DEF SettleInv
    <3> QED
      BY <1>0, <1>1, <3>1, <3>2
  <2> QED
    BY <2>1, <2>2
<1>5. ASSUME NEW q \in Procs, job'[q].at = "insert", job'[q].urls = {}, ~job'[q].flag
      PROVE  KnownUrls' # {}
  <2>1. job'[q] = job[q] /\ At(q, "insert")
    BY <1>1, <1>5 DEF Moves, At
  <2> QED
    BY <1>0, <1>5, <2>1 DEF SettleInv
<1> QED
  BY <1>2, <1>3, <1>4, <1>5 DEF SettleInv, At

\* A request that has locked its run is still about to say what it found.
LEMMA LockSettles ==
  ASSUME JobShape, TasksInv, SettleInv, NEW p \in Procs, LockRun(p)
  PROVE  SettleInv'
<1>1. ~Preflights(p) /\ ~Preflights(p)' /\ UNCHANGED <<source, queue, run, lost>>
  BY LockMoves DEF Preflights, Claiming, AtPage
<1>2. /\ KnownUrls' = KnownUrls
      /\ \A q \in Procs : /\ Claims(q)' = Claims(q) /\ job'[q].run = job[q].run
                          /\ (Preflights(q)' <=> Preflights(q))
  BY <1>1, LockMoves DEF KnownUrls, Candidates, Claims, Preflights
<1>3. ASSUME NEW q \in Procs, NEW r \in Runs, Finding(q, r) PROVE Finding(q, r)'
  BY <1>3, LockMoves DEF Finding, At
<1>4. \A r \in Runs, u \in Urls : ClaimedInRun(r, u) => ClaimedInRun(r, u)'
  BY <1>1, <1>2 DEF ClaimedInRun
<1>5. \A r \in Runs : Preflighted(r) => Preflighted(r)'
  BY <1>1, <1>2 DEF Preflighted
<1>6. ASSUME NEW q \in Procs, job'[q].at = "insert", job'[q].urls = {}, ~job'[q].flag
      PROVE  KnownUrls # {}
  <2>1. CASE q = p
    BY <1>6, <2>1, LockMoves
  <2>2. CASE q # p
    BY <1>6, <2>2, LockMoves DEF SettleInv, At
  <2> QED
    BY <2>1, <2>2
<1> QED
  BY <1>1, <1>2, <1>3, <1>4, <1>5, <1>6 DEF SettleInv, At

\* What it inserts it claims; that it found nothing ends the run, or all that
\* it found was known.
LEMMA SaveSettles ==
  ASSUME JobShape, TasksInv, SettleInv, NEW p \in Procs, SaveNewSources(p),
         [ResearchNext]_researchVars
  PROVE  SettleInv'
<1>0. KnownUrls # {} => KnownUrls' # {}
  BY KnownStays
<1>1. /\ At(p, "insert") /\ job[p].run \in Runs /\ ~Preflights(p) /\ UNCHANGED <<queue, lost>>
      /\ job[p].urls # {} => /\ Preflights(p)' /\ job'[p].run = job[p].run
                             /\ Claims(p)' = job[p].urls
      /\ job'[p].at # "insert" /\ run' = [run EXCEPT ![job[p].run] = StatusAfterSave(p)]
      /\ \A q \in Procs : q # p => job'[q] = job[q]
  BY SaveMoves DEF Claims, Preflights, Claiming, AtPage, At
<1>2. /\ Claims(p) = {}
      /\ \A q \in Procs : q # p => /\ Claims(q)' = Claims(q)
                                   /\ (Preflights(q)' <=> Preflights(q))
      /\ \A q \in Procs, r \in Runs : q # p /\ Finding(q, r) => Finding(q, r)'
  BY <1>1 DEF Claims, Preflights, Finding, At
<1>3. ASSUME NEW r \in Runs \ lost', NEW u \in Urls, source'[r][u].status \in Unchecked
      PROVE  ClaimedInRun(r, u)'
  <2>1. CASE r = job[p].run /\ u \in job[p].urls
    BY <1>1, <2>1 DEF ClaimedInRun
  <2>2. CASE ~(r = job[p].run /\ u \in job[p].urls)
    <3>1. source'[r][u] = source[r][u]
      BY <2>2, InsertedRows
    <3>2. ClaimedInRun(r, u)
      BY <1>1, <1>3, <3>1 DEF SettleInv
    <3> QED
      BY <1>1, <1>2, <3>2 DEF ClaimedInRun
  <2> QED
    BY <2>1, <2>2
<1>4. run \in [Runs -> RunStatuses]
  BY DEF TasksInv, RecordsOK
<1>5. ASSUME NEW r \in Runs \ lost', run'[r] = "preflighting" PROVE Preflighted(r)'
  <2>1. CASE r = job[p].run /\ job[p].urls # {}
    BY <1>1, <2>1 DEF Preflighted
  <2>2. CASE ~(r = job[p].run /\ job[p].urls # {})
    <3>1. run[r] = "preflighting"
      BY <1>1, <1>4, <1>5, <2>2 DEF StatusAfterSave
    <3>2. Preflighted(r)
      BY <1>1, <3>1 DEF SettleInv
    <3> QED
      BY <1>1, <1>2, <3>2 DEF Preflighted
  <2> QED
    BY <2>1, <2>2
<1>6. ASSUME NEW r \in Runs \ lost', run'[r] = "searching"
      PROVE  KnownUrls' # {} \/ \E q \in Procs : Finding(q, r)'
  <2>1. CASE r = job[p].run
    <3>1. job[p].urls = {} /\ ~job[p].flag
      BY <1>1, <1>4, <1>6, <2>1 DEF StatusAfterSave
    <3> QED
      BY <1>0, <1>1, <3>1 DEF SettleInv
  <2>2. CASE r # job[p].run
    <3>1. run[r] = "searching" /\ ~Finding(p, r)
      BY <1>1, <1>4, <1>6, <2>2 DEF Finding
    <3>2. KnownUrls # {} \/ \E q \in Procs : Finding(q, r)
      BY <1>1, <3>1 DEF SettleInv
    <3> QED
      BY <1>0, <1>2, <3>1, <3>2
  <2> QED
    BY <2>1, <2>2
<1>7. ASSUME NEW q \in Procs, job'[q].at = "insert", job'[q].urls = {}, ~job'[q].flag
      PROVE  KnownUrls' # {}
  <2>1. job'[q] = job[q] /\ At(q, "insert")
    BY <1>1, <1>7 DEF At
  <2> QED
    BY <1>0, <1>7, <2>1 DEF SettleInv
<1> QED
  BY <1>3, <1>5, <1>6, <1>7 DEF SettleInv, At

\* What a batch claims is claimed in the queue as well,
LEMMA QueueSettles ==
  ASSUME JobShape, TasksInv, SettleInv, NEW p \in Procs, Schedule(p), Stop(p), UNCHANGED lost,
         queue' = queue \cup {[run |-> job[p].run, urls |-> job[p].urls]}
  PROVE  SettleInv'
<1> DEFINE new == [run |-> job[p].run, urls |-> job[p].urls]
<1>1. /\ new.run = job[p].run /\ new.urls = Claims(p)
      /\ job'[p].at = "idle" /\ \A q \in Procs : q # p => job'[q] = job[q]
      /\ UNCHANGED <<source, run>> /\ queue' = queue \cup {new}
  BY QueueMoves
<1>2. job[p].at = "schedule" /\ KnownUrls' = KnownUrls
  BY <1>1 DEF Schedule, At, KnownUrls, Candidates
<1> HIDE DEF new
<1>3. /\ \A q \in Procs : q # p => /\ Claims(q)' = Claims(q)
                                   /\ (Preflights(q)' <=> Preflights(q))
      /\ \A q \in Procs, r \in Runs : Finding(q, r) => Finding(q, r)'
  BY <1>1, <1>2 DEF Claims, Preflights, Finding, At
<1>4. \A r \in Runs, u \in Urls : ClaimedInRun(r, u) => ClaimedInRun(r, u)'
  BY <1>1, <1>3 DEF ClaimedInRun
<1>5. \A r \in Runs : Preflighted(r) => Preflighted(r)'
  BY <1>1, <1>3 DEF Preflighted
<1>6. ASSUME NEW q \in Procs, job'[q].at = "insert", job'[q].urls = {}, ~job'[q].flag
      PROVE  KnownUrls # {}
  BY <1>1, <1>6 DEF SettleInv, At
<1> QED
  BY <1>1, <1>2, <1>3, <1>4, <1>5, <1>6 DEF SettleInv, At

\* and then by the worker that takes it.
LEMMA PollSettles ==
  ASSUME JobShape, TasksInv, SettleInv, NEW p \in Procs, Poll(p)
  PROVE  SettleInv'
<1>1. PICK b \in queue :
        /\ queue' = queue \ {b}
        /\ At(p, "idle") /\ ~Preflights(p) /\ Preflights(p)' /\ job'[p].at = "load"
        /\ job'[p].run = b.run /\ job'[p].urls = b.urls
        /\ \A q \in Procs : q # p => job'[q] = job[q]
        /\ UNCHANGED <<source, run, lost>>
  BY PollMoves
<1>2. /\ Claims(p)' = b.urls /\ Claims(p) = {} /\ KnownUrls' = KnownUrls
      /\ \A q \in Procs : q # p => /\ Claims(q)' = Claims(q)
                                   /\ (Preflights(q)' <=> Preflights(q))
  BY <1>1 DEF Claims, Preflights, KnownUrls, Candidates
<1>3. ASSUME NEW q \in Procs, NEW r \in Runs, Finding(q, r) PROVE Finding(q, r)'
  <2>1. q # p
    BY <1>1, <1>3 DEF Finding, At
  <2> QED
    BY <1>1, <1>3, <2>1 DEF Finding, At
<1>4. \A r \in Runs, u \in Urls : ClaimedInRun(r, u) => ClaimedInRun(r, u)'
  BY <1>1, <1>2 DEF ClaimedInRun
<1>5. \A r \in Runs : Preflighted(r) => Preflighted(r)'
  BY <1>1, <1>2 DEF Preflighted
<1>6. ASSUME NEW q \in Procs, job'[q].at = "insert", job'[q].urls = {}, ~job'[q].flag
      PROVE  KnownUrls # {}
  BY <1>1, <1>6 DEF SettleInv, At
<1> QED
  BY <1>1, <1>2, <1>3, <1>4, <1>5, <1>6 DEF SettleInv, At

\* SettleInv is inductive.
LEMMA SettleStep ==
  AcceptInv /\ TasksInv /\ ClaimInv /\ SettleInv /\ [ResearchNext]_researchVars => SettleInv'
<1> SUFFICES ASSUME AcceptInv, TasksInv, ClaimInv, SettleInv, [ResearchNext]_researchVars
             PROVE  SettleInv'
  OBVIOUS
<1>0. JobShape
  BY DEF AcceptInv
<1>1. ASSUME NEW p \in Procs, Plain(p) PROVE SettleInv'
  <2>1. Moves(p) /\ Respects(p) /\ Carries(p) /\ UNCHANGED queue
    BY <1>0, <1>1, PlainMoves
  <2>2. \A r \in Runs : \/ run'[r] = run[r] \/ run'[r] \in {"failed", "ready"}
                        \/ run'[r] = "searching" /\ Finding(p, r)'
    BY <1>0, <1>1, PlainStatus
  <2>3. \A r \in Runs \ lost' : Finding(p, r) => Finding(p, r)' \/ run'[r] = "failed"
    BY <1>0, <1>1, FinderMoves
  <2> QED
    BY <2>1, <2>2, <2>3, MovesSettle
<1>2. ASSUME NEW p \in Procs, LockRun(p) PROVE SettleInv'
  BY <1>0, <1>2, LockSettles
<1>3. ASSUME NEW p \in Procs, SaveNewSources(p) PROVE SettleInv'
  BY <1>0, <1>3, SaveSettles
<1>4. ASSUME NEW p \in Procs, Schedule(p),
             \/ Goto(p, "fail_preflight") /\ UNCHANGED <<queue, lost>>
             \/ Stop(p) /\ lost' = lost \cup {job[p].run} /\ UNCHANGED queue
      PROVE  SettleInv'
  <2>1. Moves(p) /\ Respects(p) /\ Carries(p) /\ UNCHANGED queue
    BY <1>0, <1>4, UnscheduledMoves
  <2>2. \A r \in Runs : run'[r] = run[r] /\ ~Finding(p, r)
    BY <1>4 DEF Schedule, tables, Finding, At
  <2> QED
    BY <2>1, <2>2, MovesSettle
<1>5. ASSUME NEW p \in Procs, Schedule(p) PROVE SettleInv'
  BY <1>0, <1>4, <1>5, ScheduleSteps, QueueSettles
<1>6. ASSUME NEW p \in Procs, Poll(p) PROVE SettleInv'
  BY <1>0, <1>6, PollSettles
<1>7. CASE UNCHANGED <<run, source, job, queue, lost>>
  <2>1. KnownUrls' = KnownUrls
    BY <1>7 DEF KnownUrls, Candidates
  <2>2. \A p \in Procs : /\ Claims(p)' = Claims(p) /\ (Preflights(p)' <=> Preflights(p))
                         /\ \A r \in Runs : Finding(p, r)' <=> Finding(p, r)
    BY <1>7 DEF Claims, Preflights, Finding, At
  <2> QED
    BY <1>7, <2>1, <2>2 DEF SettleInv, ClaimedInRun, Preflighted, At
<1> QED
  BY <1>1, <1>2, <1>3, <1>5, <1>6, <1>7, ResearchSteps

\* In the beginning no run exists.
LEMMA SettleInit == ResearchInit => SettleInv
<1> SUFFICES ASSUME ResearchInit PROVE SettleInv
  OBVIOUS
<1>1. /\ \A p \in Procs : job[p] = IdleJob
      /\ \A r \in Runs : run[r] = "absent"
      /\ \A r \in Runs, u \in Urls : source[r][u] = NoSource
  BY DEF ResearchInit
<1>2. \A p \in Procs : ~At(p, "insert")
  BY <1>1 DEF IdleJob, At
<1>3. \A r \in Runs, u \in Urls : source[r][u].status \notin Unchecked
  BY <1>1 DEF NoSource, Unchecked
<1> QED
  BY <1>1, <1>2, <1>3 DEF SettleInv

\* Once nothing is at work on a run and nothing of it was lost, its status and
\* its candidates tell what became of it, for any number of batches, requests
\* and workers that wrote them (web_research/store.py:280-441).
THEOREM QuietRunsSettled == ResearchSpec => []QuietRunIsSettled
<1>1. TasksInv /\ SettleInv => QuietRunIsSettled
  <2> SUFFICES ASSUME TasksInv, SettleInv, NEW r \in Runs \ lost, ~Open(r)
               PROVE  /\ run[r] # "preflighting"
                      /\ \A u \in Candidates(r) : source[r][u].status \in Verdicts
                      /\ run[r] = "searching" => KnownUrls # {}
    BY DEF QuietRunIsSettled
  <2>1. ~Preflighted(r) /\ \A p \in Procs : ~Finding(p, r)
    BY DEF Open, Preflighted, Preflights, Finding
  <2>2. \A u \in Urls : ~ClaimedInRun(r, u)
    BY DEF Open, ClaimedInRun, Claims, Preflights
  <2>3. ASSUME NEW u \in Candidates(r) PROVE source[r][u].status \in Verdicts
    <3>1. u \in Urls /\ source[r][u].status # "absent"
      BY DEF Candidates
    <3>2. source[r][u].status \in CandidateStatuses
      BY <3>1 DEF TasksInv, RecordsOK, SourceRows
    <3>3. source[r][u].status \notin Unchecked
      BY <2>2, <3>1 DEF SettleInv
    <3> QED
      BY <3>1, <3>2, <3>3 DEF CandidateStatuses, Unchecked
  <2> QED
    BY <2>1, <2>3 DEF SettleInv
<1> QED
  BY <1>1, AcceptInvInit, AcceptInvStep, TasksInit, TasksStep, ClaimInit, ClaimStep,
     SettleInit, SettleStep, PTL DEF ResearchSpec

-----------------------------------------------------------------------------
(* How many duplicates looking first and inserting afterwards can make.     *)

CapturesOf(v) == {e \in evidence : e.version = v}

\* Who found no capture of a version, or no evaluation of it in a run, and is
\* about to insert one.
Retaining(v) == {p \in Procs : At(p, "retain") /\ job[p].version = v}
Recording(r, v) ==
  {p \in Procs : At(p, "record") /\ job[p].run = r /\ job[p].version = v}

\* Whoever inserts looked while there was nothing: what is there and what is
\* still to come were begun by different processes.
CapturesBound(v) ==
  /\ IsFiniteSet(CapturesOf(v))
  /\ Cardinality(CapturesOf(v)) + Cardinality(Retaining(v)) <= Cardinality(Procs)

RowsBound(r, v) ==
  Len(evaluations[r][v]) + Cardinality(Recording(r, v)) <= Cardinality(Procs)

BoundInv ==
  \A v \in Versions : CapturesBound(v) /\ \A r \in Runs : RowsBound(r, v)

\* Any set of processes is finite, and no larger than all of them.
LEMMA SomeProcs ==
  ASSUME NEW S \in SUBSET Procs
  PROVE  /\ IsFiniteSet(S) /\ Cardinality(S) \in Nat /\ Cardinality(Procs) \in Nat
         /\ Cardinality(S) <= Cardinality(Procs)
         /\ \A T \in SUBSET S : Cardinality(T) \in Nat /\ Cardinality(T) <= Cardinality(S)
         /\ \A p \in S : Cardinality(S \ {p}) = Cardinality(S) - 1
<1>1. IsFiniteSet(S) /\ Cardinality(S) <= Cardinality(Procs)
  BY FS_Subset, ProcsAssumption
<1>2. Cardinality(S) \in Nat /\ Cardinality(Procs) \in Nat
  BY <1>1, FS_CardinalityType, ProcsAssumption
<1>3. ASSUME NEW T \in SUBSET S
      PROVE  Cardinality(T) \in Nat /\ Cardinality(T) <= Cardinality(S)
  <2>1. IsFiniteSet(T) /\ Cardinality(T) <= Cardinality(S)
    BY <1>1, FS_Subset
  <2> QED
    BY <2>1, FS_CardinalityType
<1>4. ASSUME NEW p \in S PROVE Cardinality(S \ {p}) = Cardinality(S) - 1
  BY <1>1, FS_RemoveElement
<1> QED
  BY <1>1, <1>2, <1>3, <1>4

\* An acceptance and a deadline leave the number of evaluations as it is.
LEMMA LengthKept ==
  ASSUME TrustTypeOK, NEW r \in Runs, NEW v \in Versions, NEW i, NEW o,
         evaluations' = [evaluations EXCEPT ![r][v][i].overrides = o],
         NEW q \in Runs, NEW w \in Versions
  PROVE  Len(evaluations'[q][w]) = Len(evaluations[q][w])
<1> DEFINE s == evaluations[q][w]
           row == [s[i] EXCEPT !.overrides = o]
           t == [s EXCEPT ![i] = row]
<1>1. s \in Seq(Row)
  BY DEF TrustTypeOK
<1>2. evaluations'[q][w] = s \/ evaluations'[q][w] = t
  BY DEF TrustTypeOK
<1>3. Len(t) = Len(s)
  BY <1>1
<1> HIDE DEF t
<1> QED
  BY <1>2, <1>3

\* Nobody but an evaluating process changes it.
LEMMA LengthSteps ==
  ASSUME AcceptInv, [ResearchNext]_researchVars, \A p \in Procs : ~Evaluate(p),
         NEW q \in Runs, NEW w \in Versions
  PROVE  Len(evaluations'[q][w]) = Len(evaluations[q][w])
<1>0. TrustTypeOK
  BY DEF AcceptInv, TrustInv
<1>1. ASSUME NEW p \in Procs, Override(p)
      PROVE  Len(evaluations'[q][w]) = Len(evaluations[q][w])
  <2> DEFINE r == job[p].run
             v == job[p].version
             i == job[p].time
  <2>1. r \in Runs /\ v \in Versions
    BY <1>1 DEF Override, AcceptInv, SightInv, SawForReview
  <2>2. \E kind \in {"permanent", "expiring"} : AcceptEvaluation(r, v, i, kind)
    BY <1>1 DEF Override
  <2> HIDE DEF r, v, i
  <2>3. PICK kind : evaluations' = [evaluations EXCEPT
          ![r][v][i].overrides = evaluations[r][v][i].overrides \cup {kind}]
    BY <2>2, Zenon DEF AcceptEvaluation
  <2> QED
    BY <1>0, <2>1, <2>3, LengthKept
<1>2. CASE Deadline
  <2>1. PICK r \in Runs, v \in Versions : \E i \in DOMAIN evaluations[r][v] :
          ExpireOverride(r, v, i)
    BY <1>2 DEF Deadline
  <2>2. PICK i : ExpireOverride(r, v, i)
    BY <2>1
  <2>3. evaluations' = [evaluations EXCEPT ![r][v][i].overrides =
          (evaluations[r][v][i].overrides \ {"expiring"}) \cup {"expired"}]
    BY <2>2, Zenon DEF ExpireOverride
  <2> QED
    BY <1>0, <2>3, LengthKept
<1>3. ASSUME NEW p \in Procs, Quiet(p) PROVE UNCHANGED evaluations
  BY <1>3, QuietElsewhere DEF AcceptInv
<1>4. ASSUME NEW p \in Procs,
             Reread(p) \/ \E r \in Runs, v \in Versions : Accept(p, r, v)
      PROVE  UNCHANGED evaluations
  BY <1>4 DEF Reread, Accept, tables
<1>5. UNCHANGED researchVars => UNCHANGED evaluations
  BY DEF researchVars, tables
<1> QED
  BY <1>1, <1>2, <1>3, <1>4, <1>5 DEF ResearchNext, Proceed, Rest, Quiet

\* Process p is not, after its step, about to insert a capture or an evaluation.
Harmless(p) ==
  /\ job'[p].at \notin {"retain", "record"}
  /\ \A q \in Procs : q # p => job'[q] = job[q]

\* A verdict that is formed inserts neither.
LEMMA JudgeHarmless ==
  ASSUME JobShape, NEW p \in Procs, NEW d, Judge(p, d)
  PROVE  Harmless(p)
<1>1. CASE Stop(p)
  BY <1>1, Stopped DEF Stop, JobShape, Harmless
<1>2. CASE job' = [job EXCEPT ![p].at = "verdict", ![p].result = Readiness(d)]
  BY <1>2, IdleShape DEF JobShape, Harmless
<1> QED
  BY <1>1, <1>2 DEF Judge

\* Only the two steps that look and find nothing lead to an insertion.
LEMMA HarmlessSteps ==
  ASSUME JobShape, NEW p \in Procs, Proceed(p) \/ Poll(p) \/ Crash(p) \/ Plain(p)
  PROVE  Harmless(p) \/ LookForCapture(p) \/ LookForEvaluation(p)
<1> USE IdleShape
<1>1. ASSUME Stop(p) PROVE Harmless(p)
  BY <1>1 DEF Stop, JobShape, Harmless
<1>2. ASSUME NEW label \in Labels \ {"retain", "record"}, Goto(p, label) PROVE Harmless(p)
  BY <1>2 DEF Goto, JobShape, Harmless
<1>3. CASE Search(p)
  <2>1. ASSUME NEW found \in SUBSET Urls,
               job' = [job EXCEPT ![p].at = "lock", ![p].urls = found, ![p].flag = FALSE]
        PROVE  Harmless(p)
    BY <2>1 DEF JobShape, Harmless
  <2> QED
    BY <1>1, <1>2, <1>3, <2>1 DEF Search, Labels
<1>4. CASE MarkFailed(p) \/ FailCandidatePreflight(p) \/ CompleteCandidatePreflight(p)
           \/ Override(p) \/ Crash(p)
  BY <1>1, <1>4 DEF MarkFailed, FailCandidatePreflight, CompleteCandidatePreflight, Override,
     Crash
<1>5. CASE LockRun(p)
  BY <1>5, LockMoves DEF Harmless
<1>6. CASE SaveNewSources(p)
  <2>1. Stop(p) \/ Goto(p, "load") \/ Goto(p, "schedule")
    BY <1>6 DEF SaveNewSources
  <2> QED
    BY <1>1, <1>2, <2>1 DEF Labels
<1>7. CASE Schedule(p)
  <2>1. Stop(p) \/ Goto(p, "fail_preflight")
    BY <1>7 DEF Schedule
  <2> QED
    BY <1>1, <1>2, <2>1 DEF Labels
<1>8. CASE Load(p) \/ Reread(p)
  BY <1>8 DEF Load, Reread, JobShape, Harmless
<1>9. ASSUME NEW u \in job[p].urls, TakeHeld(p, u) \/ MarkCandidateChecking(p, u)
      PROVE  Harmless(p)
  BY <1>9 DEF TakeHeld, MarkCandidateChecking, JobShape, Harmless
<1>10. CASE FetchFails(p)
  <2>1. ASSUME NEW result, job' = [job EXCEPT ![p].at = "verdict", ![p].result = result]
        PROVE  Harmless(p)
    BY <2>1 DEF JobShape, Harmless
  <2> QED
    BY <1>1, <1>10, <2>1 DEF FetchFails
<1>11. CASE Fetch(p)
  BY <1>11 DEF Fetch, JobShape, Harmless
<1>12. CASE SaveEvidence(p)
  BY <1>2, <1>12 DEF SaveEvidence, Labels
<1>13. CASE Evaluate(p)
  BY <1>13, JudgeHarmless DEF Evaluate
<1>14. CASE RecordCandidatePreflight(p)
  BY <1>14 DEF RecordCandidatePreflight, JobShape, Harmless
<1>15. CASE Poll(p)
  BY <1>15, PollMoves DEF Harmless
<1>16. ASSUME NEW r \in Runs, Request(p, r) PROVE Harmless(p)
  BY <1>16 DEF Request, JobShape, Harmless, Fields
<1>17. ASSUME NEW r \in Runs, NEW u \in Urls, Extract(p, r, u) PROVE Harmless(p)
  BY <1>17 DEF Extract, JobShape, Harmless, Fields
<1>18. ASSUME NEW r \in Runs, NEW v \in Versions, Accept(p, r, v) PROVE Harmless(p)
  BY <1>18 DEF Accept, JobShape, Harmless, Fields
<1> QED
  BY <1>3, <1>4, <1>5, <1>6, <1>7, <1>8, <1>9, <1>10, <1>11, <1>12, <1>13, <1>14, <1>15,
     <1>16, <1>17, <1>18 DEF Proceed, Plain

\* What a harmless step leaves of those about to insert.
LEMMA HarmlessKeeps ==
  ASSUME NEW p \in Procs, Harmless(p)
  PROVE  /\ \A v : Retaining(v)' \subseteq Retaining(v) \ {p}
         /\ \A r, v : Recording(r, v)' \subseteq Recording(r, v) \ {p}
BY DEF Harmless, Retaining, Recording, At

\* Every step is of one process, or touches none.
LEMMA JobSteps ==
  ASSUME JobShape, [ResearchNext]_researchVars
  PROVE  \/ UNCHANGED job
         \/ \E p \in Procs : Harmless(p) \/ LookForCapture(p) \/ LookForEvaluation(p)
<1>1. \/ UNCHANGED job
      \/ \E p \in Procs : Proceed(p) \/ Poll(p) \/ Crash(p) \/ Plain(p)
  BY DEF ResearchNext, Plain, Deadline, Rest, researchVars
<1> QED
  BY <1>1, HarmlessSteps

\* Nothing is written and nobody more is about to write.
LEMMA CapturesStay ==
  ASSUME NEW v, CapturesBound(v), CapturesOf(v)' = CapturesOf(v),
         Retaining(v)' \subseteq Retaining(v)
  PROVE  CapturesBound(v)'
<1>1. /\ Cardinality(Retaining(v)) \in Nat /\ Cardinality(Procs) \in Nat
      /\ Cardinality(Retaining(v)') \in Nat
      /\ Cardinality(Retaining(v)') <= Cardinality(Retaining(v))
  BY SomeProcs DEF Retaining
<1>2. Cardinality(CapturesOf(v)) \in Nat
  BY FS_CardinalityType DEF CapturesBound
<1> QED
  BY <1>1, <1>2 DEF CapturesBound

\* The first to look finds nothing; whoever is about to insert then is counted.
LEMMA NoCaptureYet ==
  ASSUME NEW v, evidence' = evidence, CapturesOf(v) = {}
  PROVE  CapturesBound(v)'
<1>1. CapturesOf(v)' = {}
  BY DEF CapturesOf
<1>2. /\ Cardinality(Retaining(v)') \in Nat
      /\ Cardinality(Retaining(v)') <= Cardinality(Procs)
  BY SomeProcs DEF Retaining
<1> QED
  BY <1>1, <1>2, FS_EmptySet DEF CapturesBound

\* A capture that is inserted was about to be.
LEMMA CaptureAdded ==
  ASSUME NEW v, CapturesBound(v), NEW p \in Retaining(v), NEW e,
         CapturesOf(v)' = CapturesOf(v) \cup {e}, Retaining(v)' \subseteq Retaining(v) \ {p}
  PROVE  CapturesBound(v)'
<1>1. /\ Cardinality(Retaining(v)) \in Nat /\ Cardinality(Procs) \in Nat
      /\ Cardinality(Retaining(v) \ {p}) = Cardinality(Retaining(v)) - 1
      /\ Cardinality(Retaining(v) \ {p}) \in Nat
  BY SomeProcs DEF Retaining
<1>2. /\ Cardinality(Retaining(v)') \in Nat
      /\ Cardinality(Retaining(v)') <= Cardinality(Retaining(v) \ {p})
  <2>1. Retaining(v) \ {p} \in SUBSET Procs /\ Retaining(v)' \in SUBSET (Retaining(v) \ {p})
    BY DEF Retaining
  <2> QED
    BY <2>1, SomeProcs
<1>3. /\ IsFiniteSet(CapturesOf(v)') /\ Cardinality(CapturesOf(v)) \in Nat
      /\ Cardinality(CapturesOf(v)') \in Nat
      /\ Cardinality(CapturesOf(v)') <= Cardinality(CapturesOf(v)) + 1
  <2>1. IsFiniteSet(CapturesOf(v)) /\ Cardinality(CapturesOf(v)) \in Nat
    BY FS_CardinalityType DEF CapturesBound
  <2>2. /\ IsFiniteSet(CapturesOf(v) \cup {e})
        /\ Cardinality(CapturesOf(v) \cup {e}) =
             IF e \in CapturesOf(v) THEN Cardinality(CapturesOf(v))
             ELSE Cardinality(CapturesOf(v)) + 1
    BY <2>1, FS_AddElement
  <2>3. \A n \in Nat : n <= n + 1 /\ n + 1 <= n + 1 /\ n + 1 \in Nat
    OBVIOUS
  <2>4. /\ Cardinality(CapturesOf(v) \cup {e}) \in Nat
        /\ Cardinality(CapturesOf(v) \cup {e}) <= Cardinality(CapturesOf(v)) + 1
    BY <2>1, <2>2, <2>3
  <2> QED
    BY <2>1, <2>2, <2>4, Zenon
<1> QED
  BY <1>1, <1>2, <1>3 DEF CapturesBound

\* So captures are inserted within their bound,
LEMMA CapturesStep ==
  ASSUME JobShape, TasksInv, [ResearchNext]_researchVars, NEW v \in Versions, CapturesBound(v)
  PROVE  CapturesBound(v)'
<1>1. ASSUME NEW p \in Procs, LookForCapture(p) PROVE CapturesBound(v)'
  <2>1. evidence' = evidence /\ \A q \in Procs : q # p => job'[q] = job[q]
    BY <1>1 DEF LookForCapture, tables, Goto, JobShape
  <2>2. CASE CapturesOf(v) = {}
    BY <2>1, <2>2, NoCaptureYet
  <2>3. CASE CapturesOf(v) # {}
    <3>1. Retaining(v)' \subseteq Retaining(v)
      <4>1. Retained(v)
        BY <2>3 DEF CapturesOf, Retained
      <4>2. job'[p].at = "retain" => job[p].version # v /\ job'[p].version = job[p].version
        BY <1>1, <4>1, Went DEF LookForCapture
      <4> QED
        BY <2>1, <4>2 DEF Retaining, At
    <3> QED
      BY <2>1, <3>1, CapturesStay DEF CapturesOf
  <2> QED
    BY <2>2, <2>3
<1>2. ASSUME NEW p \in Procs, SaveEvidence(p) PROVE CapturesBound(v)'
  <2>1. /\ Harmless(p) /\ At(p, "retain")
        /\ evidence' = evidence \cup {[version |-> job[p].version, at |-> job[p].time]}
    <3>1. ~LookForCapture(p) /\ ~LookForEvaluation(p)
      BY <1>2 DEF SaveEvidence, LookForCapture, LookForEvaluation, At
    <3> QED
      BY <1>2, <3>1, HarmlessSteps DEF Plain, SaveEvidence
  <2>2. Retaining(v)' \subseteq Retaining(v) \ {p}
    BY <2>1, HarmlessKeeps
  <2>3. CASE job[p].version = v
    <3>1. CapturesOf(v)' = CapturesOf(v) \cup {[version |-> v, at |-> job[p].time]}
      BY <2>1, <2>3 DEF CapturesOf
    <3>2. p \in Retaining(v)
      BY <2>1, <2>3 DEF Retaining
    <3> QED
      BY <2>2, <3>1, <3>2, CaptureAdded
  <2>4. CASE job[p].version # v
    <3>1. CapturesOf(v)' = CapturesOf(v)
      BY <2>1, <2>4 DEF CapturesOf
    <3> QED
      BY <2>2, <3>1, CapturesStay
  <2> QED
    BY <2>3, <2>4
<1>3. ASSUME UNCHANGED evidence, Retaining(v)' \subseteq Retaining(v) PROVE CapturesBound(v)'
  BY <1>3, CapturesStay DEF CapturesOf
<1>4. ASSUME NEW p \in Procs, ~LookForCapture(p), UNCHANGED evidence,
             Harmless(p) \/ LookForEvaluation(p)
      PROVE  Retaining(v)' \subseteq Retaining(v)
  <2>1. CASE Harmless(p)
    BY <2>1, HarmlessKeeps
  <2>2. CASE LookForEvaluation(p)
    <3>1. Harmless(p) \/ Goto(p, "record")
      BY <2>2, JudgeHarmless DEF LookForEvaluation
    <3>2. CASE Goto(p, "record")
      BY <3>2 DEF Goto, JobShape, Retaining, At
    <3> QED
      BY <2>1, <3>1, <3>2
  <2> QED
    BY <1>4, <2>1, <2>2
<1>5. UNCHANGED job => Retaining(v)' \subseteq Retaining(v)
  BY DEF Retaining, At
<1>6. CASE UNCHANGED evidence
  <2>1. CASE UNCHANGED job
    BY <1>3, <1>5, <1>6, <2>1
  <2>2. CASE ~UNCHANGED job
    <3>1. PICK p \in Procs : Harmless(p) \/ LookForCapture(p) \/ LookForEvaluation(p)
      BY <2>2, JobSteps
    <3> QED
      BY <1>1, <1>3, <1>4, <1>6, <3>1
  <2> QED
    BY <2>1, <2>2
<1> QED
  BY <1>2, <1>6, EvidenceSteps

\* The same of the evaluations: their number stays and nobody more is about to
\* insert one,
LEMMA RowsStay ==
  ASSUME NEW r, NEW v, RowsBound(r, v), Len(evaluations[r][v]) \in Nat,
         Len(evaluations'[r][v]) = Len(evaluations[r][v]),
         Recording(r, v)' \subseteq Recording(r, v)
  PROVE  RowsBound(r, v)'
<1>1. /\ Cardinality(Recording(r, v)) \in Nat /\ Cardinality(Procs) \in Nat
      /\ Cardinality(Recording(r, v)') \in Nat
      /\ Cardinality(Recording(r, v)') <= Cardinality(Recording(r, v))
  BY SomeProcs DEF Recording
<1> QED
  BY <1>1 DEF RowsBound

\* there is none yet,
LEMMA NoRowYet ==
  ASSUME NEW r, NEW v, evaluations' = evaluations, evaluations[r][v] = <<>>
  PROVE  RowsBound(r, v)'
<1>1. /\ Cardinality(Recording(r, v)') \in Nat
      /\ Cardinality(Recording(r, v)') <= Cardinality(Procs) /\ Cardinality(Procs) \in Nat
  BY SomeProcs DEF Recording
<1>2. Len(evaluations'[r][v]) = 0
  OBVIOUS
<1> QED
  BY <1>1, <1>2 DEF RowsBound

\* or one is added by a process that was about to.
LEMMA RowAdded ==
  ASSUME NEW r, NEW v, RowsBound(r, v), NEW p \in Recording(r, v),
         Len(evaluations[r][v]) \in Nat,
         Len(evaluations'[r][v]) = Len(evaluations[r][v]) + 1,
         Recording(r, v)' \subseteq Recording(r, v) \ {p}
  PROVE  RowsBound(r, v)'
<1>1. /\ Cardinality(Recording(r, v)) \in Nat /\ Cardinality(Procs) \in Nat
      /\ Cardinality(Recording(r, v) \ {p}) = Cardinality(Recording(r, v)) - 1
      /\ Cardinality(Recording(r, v) \ {p}) \in Nat
  BY SomeProcs DEF Recording
<1>2. /\ Cardinality(Recording(r, v)') \in Nat
      /\ Cardinality(Recording(r, v)') <= Cardinality(Recording(r, v) \ {p})
  <2>1. /\ Recording(r, v) \ {p} \in SUBSET Procs
        /\ Recording(r, v)' \in SUBSET (Recording(r, v) \ {p})
    BY DEF Recording
  <2> QED
    BY <2>1, SomeProcs
<1> QED
  BY <1>1, <1>2 DEF RowsBound

\* So evaluations are too.
LEMMA RowsStep ==
  ASSUME AcceptInv, TasksInv, [ResearchNext]_researchVars, NEW r \in Runs, NEW v \in Versions,
         RowsBound(r, v)
  PROVE  RowsBound(r, v)'
<1>0. JobShape /\ evaluations[r][v] \in Seq(Row) /\ Len(evaluations[r][v]) \in Nat
  BY DEF AcceptInv, TrustInv, TrustTypeOK
<1>1. ASSUME NEW p \in Procs, Evaluate(p) PROVE RowsBound(r, v)'
  <2> DEFINE s == job[p].run
             w == job[p].version
  <2>1. At(p, "record") /\ RecordEvaluation(s, w) /\ Harmless(p)
    BY <1>0, <1>1, JudgeHarmless DEF Evaluate
  <2>2. Recording(r, v)' \subseteq Recording(r, v) \ {p}
    BY <2>1, HarmlessKeeps
  <2>3. CASE s = r /\ w = v
    <3> DEFINE row == [base |-> Disposition(v), overrides |-> {}]
    <3>1. p \in Recording(r, v)
      BY <2>1, <2>3 DEF Recording
    <3>2. evaluations'[r][v] = Append(evaluations[r][v], row)
      BY <2>1, <2>3 DEF RecordEvaluation, AcceptInv, TrustInv, TrustTypeOK
    <3>3. Len(Append(evaluations[r][v], row)) = Len(evaluations[r][v]) + 1
      BY <1>0, RecordedRows
    <3> HIDE DEF row
    <3>4. Len(evaluations'[r][v]) = Len(evaluations[r][v]) + 1
      BY <3>2, <3>3
    <3> QED
      BY <1>0, <2>2, <3>1, <3>4, RowAdded
  <2>4. CASE ~(s = r /\ w = v)
    <3>1. evaluations'[r][v] = evaluations[r][v]
      BY <2>1, <2>4 DEF RecordEvaluation, AcceptInv, TrustInv, TrustTypeOK
    <3> QED
      BY <1>0, <2>2, <3>1, RowsStay
  <2> QED
    BY <2>3, <2>4
<1>2. ASSUME NEW p \in Procs, LookForEvaluation(p) PROVE RowsBound(r, v)'
  <2>1. evaluations' = evaluations
    BY <1>2 DEF LookForEvaluation, tables
  <2>2. CASE evaluations[r][v] = <<>>
    BY <2>1, <2>2, NoRowYet
  <2>3. CASE evaluations[r][v] # <<>>
    <3>1. CASE Harmless(p)
      BY <1>0, <2>1, <3>1, HarmlessKeeps, RowsStay
    <3>2. CASE ~Harmless(p)
      <4>1. Goto(p, "record") /\ ~Evaluated(job[p].run, job[p].version)
        BY <1>0, <1>2, <3>2, JudgeHarmless DEF LookForEvaluation
      <4>2. ~(job[p].run = r /\ job[p].version = v)
        BY <2>3, <4>1 DEF Evaluated
      <4>3. /\ job'[p].run = job[p].run /\ job'[p].version = job[p].version
            /\ \A q \in Procs : q # p => job'[q] = job[q]
        BY <1>0, <4>1, Went DEF Goto, JobShape
      <4>4. Recording(r, v)' \subseteq Recording(r, v)
        BY <4>2, <4>3 DEF Recording, At
      <4> QED
        BY <1>0, <2>1, <4>4, RowsStay
    <3> QED
      BY <3>1, <3>2
  <2> QED
    BY <2>2, <2>3
<1>3. CASE \A p \in Procs : ~Evaluate(p) /\ ~LookForEvaluation(p)
  <2>1. Len(evaluations'[r][v]) = Len(evaluations[r][v])
    BY <1>3, LengthSteps
  <2>2. Recording(r, v)' \subseteq Recording(r, v)
    <3>1. CASE UNCHANGED job
      BY <3>1 DEF Recording, At
    <3>2. ASSUME NEW p \in Procs, Harmless(p) PROVE Recording(r, v)' \subseteq Recording(r, v)
      BY <3>2, HarmlessKeeps
    <3>3. ASSUME NEW p \in Procs, LookForCapture(p)
          PROVE  Recording(r, v)' \subseteq Recording(r, v)
      <4>1. PICK label \in {"lookup", "retain"} : Goto(p, label)
        BY <3>3 DEF LookForCapture
      <4>2. job'[p].at # "record" /\ \A q \in Procs : q # p => job'[q] = job[q]
        BY <1>0, <4>1, Went DEF Goto, JobShape
      <4> QED
        BY <4>2 DEF Recording, At
    <3> QED
      BY <1>0, <1>3, <3>1, <3>2, <3>3, JobSteps
  <2> QED
    BY <1>0, <2>1, <2>2, RowsStay
<1> QED
  BY <1>1, <1>2, <1>3

\* BoundInv is inductive.
LEMMA BoundStep == AcceptInv /\ TasksInv /\ BoundInv /\ [ResearchNext]_researchVars => BoundInv'
<1> SUFFICES ASSUME AcceptInv, TasksInv, BoundInv, [ResearchNext]_researchVars
             PROVE  BoundInv'
  OBVIOUS
<1>1. ASSUME NEW v \in Versions PROVE CapturesBound(v)'
  BY <1>1, CapturesStep DEF BoundInv, AcceptInv
<1>2. ASSUME NEW r \in Runs, NEW v \in Versions PROVE RowsBound(r, v)'
  BY <1>2, RowsStep DEF BoundInv
<1> QED
  BY <1>1, <1>2 DEF BoundInv

\* In the beginning nothing is retained or evaluated, or about to be.
LEMMA BoundInit == ResearchInit => BoundInv
<1> SUFFICES ASSUME ResearchInit, NEW v \in Versions
             PROVE  CapturesBound(v) /\ \A r \in Runs : RowsBound(r, v)
  BY DEF BoundInv
<1>0. \A p \in Procs : job[p] = IdleJob
  BY DEF ResearchInit
<1>1. \A p \in Procs : job[p].at = "idle"
  BY <1>0, IdleShape
<1>2. CapturesOf(v) = {} /\ Retaining(v) = {} /\ \A r \in Runs : Recording(r, v) = {}
  BY <1>1 DEF ResearchInit, CapturesOf, Retaining, Recording, At
<1>3. \A r \in Runs : Len(evaluations[r][v]) = 0
  BY DEF ResearchInit, TrustInit
<1>4. Cardinality(Procs) \in Nat /\ IsFiniteSet({}) /\ Cardinality({}) = 0
  BY FS_EmptySet, FS_CardinalityType, ProcsAssumption
<1>5. 0 + 0 <= Cardinality(Procs)
  BY <1>4
<1>6. CapturesBound(v)
  BY <1>2, <1>4, <1>5, Zenon DEF CapturesBound
<1>7. ASSUME NEW r \in Runs PROVE RowsBound(r, v)
  BY <1>2, <1>3, <1>4, <1>5, Zenon DEF RowsBound
<1> QED
  BY <1>6, <1>7

\* Nothing locks the look for an equal capture or evaluation and the insertion
\* that follows it, and the tables have no key for them; for any number of
\* retrievals there are still no more duplicates than processes that were at
\* work at once (web_research/store.py:456, web_trust/service.py:28).
THEOREM DuplicatesBounded == ResearchSpec => []DuplicatesAreBounded
<1>1. AcceptInv /\ BoundInv => DuplicatesAreBounded
  <2> SUFFICES ASSUME AcceptInv, BoundInv, NEW v \in Versions
               PROVE  /\ Cardinality(CapturesOf(v)) <= Cardinality(Procs)
                      /\ \A r \in Runs : Len(evaluations[r][v]) <= Cardinality(Procs)
    BY DEF DuplicatesAreBounded, CapturesOf
  <2>1. /\ Cardinality(Retaining(v)) \in Nat /\ Cardinality(Procs) \in Nat
        /\ \A r \in Runs : Cardinality(Recording(r, v)) \in Nat
    BY SomeProcs DEF Retaining, Recording
  <2>2. Cardinality(CapturesOf(v)) \in Nat
    BY FS_CardinalityType DEF BoundInv, CapturesBound
  <2>3. \A r \in Runs : Len(evaluations[r][v]) \in Nat
    BY DEF AcceptInv, TrustInv, TrustTypeOK
  <2> QED
    BY <2>1, <2>2, <2>3 DEF BoundInv, CapturesBound, RowsBound
<1> QED
  BY <1>1, AcceptInvInit, AcceptInvStep, TasksInit, TasksStep, BoundInit, BoundStep, PTL
     DEF ResearchSpec

\* One retrieval or acceptance at a time, in any order and with any crashes,
\* never loses an operator's permanent acceptance
\* (docs/adr/0015-local-policy-controlled-web-trust.md:80-84): that an
\* evaluation without it comes after it, as acceptance_lost shows, takes two
\* evaluations at once (web_trust/service.py:28).
THEOREM AcceptanceStandsAlone ==
  ASSUME Cardinality(Procs) = 1
  PROVE  ResearchSpec => []AcceptanceStands
<1>1. AcceptInv /\ DuplicatesAreBounded => AcceptanceStands
  <2> SUFFICES ASSUME AcceptInv, DuplicatesAreBounded, NEW r \in Runs, NEW v \in Versions,
                      NEW i \in DOMAIN evaluations[r][v],
                      "permanent" \in evaluations[r][v][i].overrides
               PROVE  Effective(Latest(r, v)) \in Usable
    BY DEF AcceptanceStands
  <2>1. evaluations[r][v] \in Seq(Row) /\ Len(evaluations[r][v]) <= 1
    BY DEF AcceptInv, TrustInv, TrustTypeOK, DuplicatesAreBounded
  <2>2. i = Len(evaluations[r][v])
    BY <2>1
  <2> QED
    BY <2>2 DEF Latest, Effective, InForce, Usable
<1> QED
  BY <1>1, AcceptInvInit, AcceptInvStep, DuplicatesBounded, PTL DEF ResearchSpec
=============================================================================
