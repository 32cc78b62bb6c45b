----------------------------- MODULE ResearchRuns -----------------------------
(***************************************************************************)
(* Research runs of one workspace: discovery of candidate sources, their   *)
(* preflight (inline or by a Temporal worker), retrieval of single pages   *)
(* by operators, and the acceptance of evidence (web_research/store.py,    *)
(* web_trust/preflight.py and the research routes of main.py).             *)
(*                                                                         *)
(* A run is named by its normalized question, for which the workspace has  *)
(* one run.  Each transaction and each unlocked read is a step; a          *)
(* transaction whose statements may see different data is two steps.       *)
(***************************************************************************)
EXTENDS WebTrust, FiniteSets

CONSTANTS
  Urls,          \* pages that searches find and that operators ask for
  Page,          \* the page a version was served from, after redirects
  Serves,        \* versions that fetching a URL may return
  DirectLimit,   \* DIRECT_PREFLIGHT_SOURCE_LIMIT
  Procs,         \* requests and activities in progress at once
  MaxAsked       \* bound: requests and crashes in one behaviour

ASSUME ResearchAssumption ==
  /\ Page \in [Versions -> Urls] /\ Serves \in [Urls -> SUBSET Versions]
  /\ DirectLimit \in Nat /\ MaxAsked \in Nat

ASSUME ProcsAssumption == IsFiniteSet(Procs)

VARIABLES
  run,        \* research_runs.status per run
  source,     \* research_sources: candidate rows of each run
  evidence,   \* research_evidence: retained captures with their retrieval time
  fetches,    \* clock of each page: captures made of it so far
  job,        \* what each request or activity does next and remembers
  queue,      \* preflight batches Temporal holds
  lost,       \* runs that had a batch fail to start or a process die
  asked       \* requests and crashes so far

tables == <<run, source, evidence, evaluations>>
researchVars == <<tables, fetches, job, queue, lost, asked>>

-----------------------------------------------------------------------------
(* Tables.                                                                  *)

RunStatuses == {"absent", "searching", "preflighting", "ready", "failed"}
Verdicts == {"ready_to_extract", "review_required", "blocked", "unreachable"}
CandidateStatuses == {"absent", "pending", "checking"} \cup Verdicts
Unchecked == {"pending", "checking"}

NoSource == [status |-> "absent", version |-> "none"]
Candidates(r) == {u \in Urls : source[r][u].status # "absent"}
KnownUrls == UNION {Candidates(r) : r \in Runs}

\* get_run joins evidence of the whole workspace to a source by URL and takes
\* the capture retrieved last.
Captures(u) == {e \in evidence : Page[e.version] = u}
LatestCapture(u) ==
  IF Captures(u) = {} THEN "none"
  ELSE (CHOOSE e \in Captures(u) : \A f \in Captures(u) : f.at <= e.at).version

IdleJob == [mode |-> "none", at |-> "idle", run |-> "none", urls |-> {}, held |-> <<>>,
            url |-> "none", version |-> "none", time |-> 0, result |-> "none",
            flag |-> FALSE]

\* save_new_sources holds its run's row from its first statement to its commit;
\* every other update of the run, and every insert of a row that refers to it,
\* waits.
\* Mutant: the row is not locked.
UnlockedAlways(r) == TRUE

Unlocked(r) == \A p \in Procs : job[p].at = "insert" => job[p].run # r

At(p, label) == job[p].at = label
Goto(p, label) == job' = [job EXCEPT ![p].at = label]
Stop(p) == job' = [job EXCEPT ![p] = IdleJob]

Ask == asked < MaxAsked /\ asked' = asked + 1

-----------------------------------------------------------------------------
(* Discovery: POST /v1/research/runs.                                       *)

\* get_or_create_run: an advisory lock per question makes it one step.
Request(p, r) ==
  /\ Ask /\ At(p, "idle")
  /\ job' = [job EXCEPT ![p] = [IdleJob EXCEPT
       !.mode = "discover", !.at = "search", !.run = r, !.flag = run[r] = "absent"]]
  /\ run' = IF run[r] = "absent" THEN [run EXCEPT ![r] = "searching"] ELSE run
  /\ UNCHANGED <<source, evidence, evaluations, fetches, queue, lost>>

\* The search returns any results, for a known target too, or fails.
Search(p) ==
  /\ At(p, "search")
  /\ \/ \E found \in SUBSET Urls :
          job' = [job EXCEPT ![p].at = "lock", ![p].urls = found, ![p].flag = FALSE]
     \/ IF job[p].flag THEN Goto(p, "mark_failed") ELSE Stop(p)
  /\ UNCHANGED <<tables, fetches, queue, lost, asked>>

MarkFailed(p) ==
  /\ At(p, "mark_failed") /\ Unlocked(job[p].run)
  /\ run' = [run EXCEPT ![job[p].run] = "failed"]
  /\ Stop(p)
  /\ UNCHANGED <<source, evidence, evaluations, fetches, queue, lost, asked>>

\* save_new_sources locks its run, then reads the URLs the workspace knows.
LockRun(p) ==
  /\ At(p, "lock") /\ Unlocked(job[p].run)
  /\ job' = [job EXCEPT ![p].at = "insert", ![p].urls = @ \ KnownUrls,
                        ![p].flag = (KnownUrls \cup job[p].urls = {})]
  /\ UNCHANGED <<tables, fetches, queue, lost, asked>>

\* Mutant: a search without results does not end the run.
StatusAfterSaveUnending(p) ==
  IF job[p].urls # {} THEN "preflighting" ELSE run[job[p].run]

StatusAfterSave(p) ==
  IF job[p].urls # {} THEN "preflighting"
  ELSE IF job[p].flag THEN "ready" ELSE run[job[p].run]

SaveNewSources(p) ==
  /\ At(p, "insert")
  /\ source' = [source EXCEPT ![job[p].run] =
       [u \in Urls |-> IF u \in job[p].urls THEN [NoSource EXCEPT !.status = "pending"]
                       ELSE @[u]]]
  /\ run' = [run EXCEPT ![job[p].run] = StatusAfterSave(p)]
  /\ IF job[p].urls = {} THEN Stop(p)
     ELSE Goto(p, IF Cardinality(job[p].urls) <= DirectLimit THEN "load" ELSE "schedule")
  /\ UNCHANGED <<evidence, evaluations, fetches, queue, lost, asked>>

\* A large batch goes to Temporal.  Without an address the run is failed; an
\* address that does not answer raises out of the request.
Schedule(p) ==
  /\ At(p, "schedule")
  /\ \/ /\ queue' = queue \cup {[run |-> job[p].run, urls |-> job[p].urls]}
        /\ Stop(p) /\ UNCHANGED lost
     \/ Goto(p, "fail_preflight") /\ UNCHANGED <<queue, lost>>
     \/ Stop(p) /\ lost' = lost \cup {job[p].run} /\ UNCHANGED queue
  /\ UNCHANGED <<tables, fetches, asked>>

FailCandidatePreflight(p) ==
  /\ At(p, "fail_preflight") /\ Unlocked(job[p].run)
  /\ run' = [run EXCEPT ![job[p].run] = "failed"]
  /\ lost' = lost \cup {job[p].run}
  /\ Stop(p)
  /\ UNCHANGED <<source, evidence, evaluations, fetches, queue, asked>>

-----------------------------------------------------------------------------
(* Preflight of a batch, in the request or in a worker's activity.          *)

Poll(p) ==
  /\ At(p, "idle")
  /\ \E batch \in queue :
       /\ queue' = queue \ {batch}
       /\ job' = [job EXCEPT ![p] = [IdleJob EXCEPT !.mode = "discover", !.at = "load",
                                     !.run = batch.run, !.urls = batch.urls]]
  /\ UNCHANGED <<tables, fetches, lost, asked>>

\* preflight_run works on what get_run returned at its start.
Load(p) ==
  /\ At(p, "load")
  /\ LET open == {u \in job[p].urls : source[job[p].run][u].status \in Unchecked}
     IN job' = [job EXCEPT ![p].at = "next", ![p].urls = open,
                           ![p].held = [u \in open |-> LatestCapture(u)]]
  /\ UNCHANGED <<tables, fetches, queue, lost, asked>>

\* A candidate with a retained capture is evaluated, any other is fetched.
TakeHeld(p, u) ==
  /\ At(p, "next") /\ job[p].held[u] # "none"
  /\ job' = [job EXCEPT ![p].at = "lookup", ![p].url = u, ![p].version = job[p].held[u]]
  /\ UNCHANGED <<tables, fetches, queue, lost, asked>>

MarkCandidateChecking(p, u) ==
  /\ At(p, "next") /\ job[p].held[u] = "none"
  /\ source' = [source EXCEPT ![job[p].run][u].status = IF @ = "pending" THEN "checking" ELSE @]
  /\ job' = [job EXCEPT ![p].at = "fetch", ![p].url = u]
  /\ UNCHANGED <<run, evidence, evaluations, fetches, queue, lost, asked>>

\* A candidate that cannot be retrieved gets its verdict from the error; an
\* operator's retrieval then only leaves an audit event.
FetchFails(p) ==
  /\ At(p, "fetch")
  /\ IF job[p].mode = "extract" THEN Stop(p)
     ELSE \E result \in {"blocked", "unreachable"} :
            job' = [job EXCEPT ![p].at = "verdict", ![p].result = result]
  /\ UNCHANGED <<tables, fetches, queue, lost, asked>>

Fetch(p) ==
  /\ At(p, "fetch")
  /\ \E v \in Serves[job[p].url] :
       /\ fetches' = [fetches EXCEPT ![Page[v]] = @ + 1]
       /\ job' = [job EXCEPT ![p].at = "capture", ![p].version = v,
                             ![p].time = fetches[Page[v]] + 1]
  /\ UNCHANGED <<tables, queue, lost, asked>>

Retained(v) == \E e \in evidence : e.version = v

\* save_evidence looks for an equal capture first, and then inserts.
LookForCapture(p) ==
  /\ At(p, "capture")
  /\ Goto(p, IF Retained(job[p].version) THEN "lookup" ELSE "retain")
  /\ UNCHANGED <<tables, fetches, queue, lost, asked>>

SaveEvidence(p) ==
  /\ At(p, "retain") /\ Unlocked(job[p].run)
  /\ evidence' = evidence \cup {[version |-> job[p].version, at |-> job[p].time]}
  /\ Goto(p, "lookup")
  /\ UNCHANGED <<run, source, evaluations, fetches, queue, lost, asked>>

\* Mutant: only what is blocked is kept from extraction.
ReadinessUnreviewed(disposition) ==
  IF disposition = "blocked" THEN disposition ELSE "ready_to_extract"

\* Mutant: a candidate's status is the disposition of its evidence.
ReadinessRaw(disposition) == disposition

Readiness(disposition) ==
  IF disposition \in Usable THEN "ready_to_extract" ELSE disposition

Judge(p, disposition) ==
  IF job[p].mode = "extract" THEN Stop(p)
  ELSE job' = [job EXCEPT ![p].at = "verdict", ![p].result = Readiness(disposition)]

\* Mutant: evaluate inserts without looking.
LookForEvaluationNever(p) ==
  /\ At(p, "lookup") /\ Goto(p, "record")
  /\ UNCHANGED <<tables, fetches, queue, lost, asked>>

\* evaluate looks for an evaluation of the run and version, and then inserts.
LookForEvaluation(p) ==
  /\ At(p, "lookup")
  /\ IF Evaluated(job[p].run, job[p].version)
     THEN Judge(p, Effective(Latest(job[p].run, job[p].version)))
     ELSE Goto(p, "record")
  /\ UNCHANGED <<tables, fetches, queue, lost, asked>>

Evaluate(p) ==
  /\ At(p, "record") /\ Unlocked(job[p].run)
  /\ RecordEvaluation(job[p].run, job[p].version)
  /\ Judge(p, Disposition(job[p].version))
  /\ UNCHANGED <<run, source, evidence, fetches, queue, lost, asked>>

RecordCandidatePreflight(p) ==
  /\ At(p, "verdict") /\ Unlocked(job[p].run)
  /\ source' = [source EXCEPT ![job[p].run][job[p].url] =
                  [status |-> job[p].result, version |-> job[p].version]]
  /\ job' = [job EXCEPT ![p].at = "next", ![p].urls = @ \ {job[p].url}, ![p].url = "none",
                        ![p].version = "none", ![p].time = 0, ![p].result = "none"]
  /\ UNCHANGED <<run, evidence, evaluations, fetches, queue, lost, asked>>

CompleteCandidatePreflight(p) ==
  /\ At(p, "next") /\ job[p].urls = {} /\ Unlocked(job[p].run)
  /\ run' = [run EXCEPT ![job[p].run] = "ready"]
  /\ Stop(p)
  /\ UNCHANGED <<source, evidence, evaluations, fetches, queue, lost, asked>>

-----------------------------------------------------------------------------
(* Operators: retrieve a page for a run, accept an evaluated version.       *)

Extract(p, r, u) ==
  /\ Ask /\ At(p, "idle") /\ run[r] # "absent"
  /\ job' = [job EXCEPT ![p] = [IdleJob EXCEPT
       !.mode = "extract", !.at = "fetch", !.run = r, !.url = u]]
  /\ UNCHANGED <<tables, fetches, queue, lost>>

\* Mutant: whatever was evaluated can be accepted.
AcceptableOnceEvaluated(r, v) == Evaluated(r, v)

Acceptable(r, v) == Evaluated(r, v) /\ Latest(r, v).base = "review_required"

Accept(p, r, v) ==
  /\ Ask /\ At(p, "idle") /\ Acceptable(r, v)
  /\ job' = [job EXCEPT ![p] = [IdleJob EXCEPT
       !.mode = "accept", !.at = "reread", !.run = r, !.version = v]]
  /\ UNCHANGED <<tables, fetches, queue, lost>>

\* accept_evaluation reads the latest evaluation again and inserts for that one.
Reread(p) ==
  /\ At(p, "reread")
  /\ job' = [job EXCEPT ![p].at = "override",
                        ![p].time = Len(evaluations[job[p].run][job[p].version])]
  /\ UNCHANGED <<tables, fetches, queue, lost, asked>>

Override(p) ==
  /\ At(p, "override")
  /\ \E kind \in {"permanent", "expiring"} :
       AcceptEvaluation(job[p].run, job[p].version, job[p].time, kind)
  /\ Stop(p)
  /\ UNCHANGED <<run, source, evidence, fetches, queue, lost, asked>>

Deadline ==
  /\ \E r \in Runs, v \in Versions : \E i \in DOMAIN evaluations[r][v] : ExpireOverride(r, v, i)
  /\ UNCHANGED <<run, source, evidence, fetches, job, queue, lost, asked>>

\* The process of a request or an activity dies, or its database fails; what it
\* had not committed is rolled back.  The batch has one attempt.
Crash(p) ==
  /\ Ask /\ ~At(p, "idle")
  /\ lost' = IF job[p].mode = "discover" THEN lost \cup {job[p].run} ELSE lost
  /\ Stop(p)
  /\ UNCHANGED <<tables, fetches, queue>>

-----------------------------------------------------------------------------

ResearchInit ==
  /\ run = [r \in Runs |-> "absent"]
  /\ source = [r \in Runs |-> [u \in Urls |-> NoSource]]
  /\ evidence = {} /\ TrustInit
  /\ fetches = [u \in Urls |-> 0]
  /\ job = [p \in Procs |-> IdleJob]
  /\ queue = {} /\ lost = {}
  /\ asked = 0

Proceed(p) ==
  \/ Search(p) \/ MarkFailed(p) \/ LockRun(p) \/ SaveNewSources(p)
  \/ Schedule(p) \/ FailCandidatePreflight(p)
  \/ Load(p) \/ \E u \in job[p].urls : TakeHeld(p, u) \/ MarkCandidateChecking(p, u)
  \/ FetchFails(p) \/ Fetch(p) \/ LookForCapture(p) \/ SaveEvidence(p)
  \/ LookForEvaluation(p) \/ Evaluate(p) \/ RecordCandidatePreflight(p)
  \/ CompleteCandidatePreflight(p) \/ Reread(p) \/ Override(p)

\* Nothing is at work: more is asked for, or not.
Rest == queue = {} /\ (\A p \in Procs : At(p, "idle")) /\ UNCHANGED researchVars

ResearchNext ==
  \/ \E p \in Procs :
       \/ Proceed(p) \/ Poll(p) \/ Crash(p)
       \/ \E r \in Runs : \/ Request(p, r)
                          \/ \E u \in Urls : Extract(p, r, u)
                          \/ \E v \in Versions : Accept(p, r, v)
  \/ Deadline \/ Rest

ResearchSpec == ResearchInit /\ [][ResearchNext]_researchVars

-----------------------------------------------------------------------------
(* Properties.                                                              *)

Labels == {"idle", "search", "mark_failed", "lock", "insert", "schedule",
           "fail_preflight", "load", "next", "fetch", "capture", "retain", "lookup",
           "record", "verdict", "reread", "override"}

ResearchTypeOK ==
  /\ run \in [Runs -> RunStatuses]
  /\ source \in [Runs -> [Urls -> [status : CandidateStatuses,
                                   version : Versions \cup {"none"}]]]
  /\ evidence \subseteq [version : Versions, at : Nat]
  /\ TrustTypeOK
  /\ \A p \in Procs : job[p].at \in Labels /\ job[p].urls \subseteq Urls
                      /\ (job[p].at # "idle" => job[p].run \in Runs)
  /\ \A batch \in queue : batch.run \in Runs /\ batch.urls \subseteq Urls
  /\ lost \subseteq Runs

\* Work on a run that is still to come.
Open(r) ==
  \/ \E p \in Procs : job[p].mode = "discover" /\ job[p].run = r
  \/ \E batch \in queue : batch.run = r

\* When nothing is at work on a run and no batch of it was lost, its status
\* tells what became of it, although several batches write it at any time: no
\* candidate of a ready run waits, no run is left preflighting, and a run is
\* left searching only when all it found was known to the workspace already.
QuietRunIsSettled ==
  \A r \in Runs \ lost : ~Open(r) =>
    /\ run[r] # "preflighting"
    /\ \A u \in Candidates(r) : source[r][u].status \in Verdicts
    /\ run[r] = "searching" => KnownUrls # {}

\* A candidate gets one verdict, from the one batch that it belongs to: neither
\* a repeated request nor a second batch reopens or changes it.  This is about
\* one row of one run; another run may judge the same page anew.  Rechecks by
\* age, which docs/adr/0015 (lines 63-64) leaves to later work, are not coded.
VerdictIsFinal ==
  [][\A r \in Runs, u \in Urls :
       source[r][u].status \in Verdicts => source'[r][u] = source[r][u]]_researchVars

\* Whatever is ready to extract has a retained capture, of the version recorded
\* with it, that was evaluated in this run and is usable by policy or by an
\* operator's decision.
ReadyCandidateIsUsable ==
  \A r \in Runs, u \in Urls :
    source[r][u].status = "ready_to_extract" =>
      LET v == source[r][u].version
      IN /\ Retained(v) /\ Evaluated(r, v)
         /\ \/ Disposition(v) \in Usable
            \/ \E i \in DOMAIN evaluations[r][v] : evaluations[r][v][i].overrides # {}

\* Looking first and inserting afterwards, without a lock, makes duplicates, but
\* however often a page is retrieved no more of them than there were processes
\* at it at once: captures of a version in the workspace, evaluations of it in
\* a run (web_research/store.py:456, web_trust/service.py:28).
DuplicatesAreBounded ==
  \A v \in Versions :
    /\ Cardinality({e \in evidence : e.version = v}) <= Cardinality(Procs)
    /\ \A r \in Runs : Len(evaluations[r][v]) <= Cardinality(Procs)

\* Requests, activities and operators keep the records as TrustSpec allows.
ImplementsTrust == TrustSpec
=============================================================================
