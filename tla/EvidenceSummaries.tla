--------------------------- MODULE EvidenceSummaries ---------------------------
(***************************************************************************)
(* Evidence summaries (evidence_summaries/service.py and store.py, and the *)
(* summary routes of main.py): an execution selects sources of a run,      *)
(* prepares the evidence that may reach the local model, and runs in the   *)
(* request or as a Temporal workflow; a completed one may be regenerated.  *)
(*                                                                         *)
(* A summary is named by the version whose text it was made from.  Each    *)
(* transaction is a step, and so is each read on which a later step        *)
(* depends; audit events, chunk and group records are never read back and  *)
(* are left out.                                                           *)
(***************************************************************************)
EXTENDS WebTrust, EvidenceIntelligence, FiniteSets

CONSTANTS
  Sources,       \* candidate URLs of the runs
  Page,          \* the URL each version was captured at
  Preflighted,   \* preflight_content_hash of each source, or "none"
  Length,        \* characters in each version's text
  Executions,    \* identifiers of summary executions
  Procs,         \* requests and activities in progress at once
  MaxAsked       \* bound: requests, new captures and crashes in one behaviour

ASSUME SummaryAssumption ==
  /\ Page \in [Versions -> Sources] /\ Preflighted \in [Sources -> Versions \cup {"none"}]
  /\ Length \in [Versions -> 1 .. MaxLength] /\ MaxAsked \in Nat

\* A hash of a text is never mistaken for an absent one.
ASSUME NoneAssumption == "none" \notin Versions

VARIABLES
  exec,         \* evidence_summary_executions
  src,          \* evidence_summary_execution_sources of each execution
  artifacts,    \* evidence_summary_artifacts
  latest,       \* the capture of each page that was retrieved last
  job,          \* what each request or activity does next and remembers
  tasks,        \* workflows Temporal holds
  unreachable,  \* executions whose workflow could not be started
  lost,         \* executions a process died or raised on
  overlapped,   \* executions regenerated while they were being processed
  skipped,      \* sources whose evidence was not found, with their execution
  asked         \* requests, captures and crashes so far

rows == <<exec, src, artifacts>>
marks == <<unreachable, lost, overlapped, skipped>>
summaryVars == <<rows, evaluations, latest, job, tasks, marks, asked>>

-----------------------------------------------------------------------------

NoExecution == [status |-> "absent", run |-> "none", route |-> "undetermined",
                attempt |-> 0, requested |-> FALSE]
NoSource == [status |-> "absent", version |-> "none", summary |-> "none"]
Selected(x) == {u \in Sources : src[x][u].status # "absent"}
Summarized(x) == {u \in Sources : src[x][u].status = "completed"
                                  /\ src[x][u].summary # "none"}

IdleJob == [mode |-> "none", at |-> "idle", x |-> "none", todo |-> {}, held |-> <<>>,
            done |-> {}, again |-> FALSE, inputs |-> {}, url |-> "none", version |-> "none"]

At(p, label) == job[p].at = label
Goto(p, label) == job' = [job EXCEPT ![p].at = label]
Stop(p) == job' = [job EXCEPT ![p] = IdleJob]
NextSource(p) ==
  job' = [job EXCEPT ![p].at = "next", ![p].todo = @ \ {job[p].url}, ![p].url = "none",
                     ![p].version = "none"]

Ask == asked < MaxAsked /\ asked' = asked + 1

SetStatus(x, status) == exec' = [exec EXCEPT ![x].status = status]
SetSource(x, u, row) == src' = [src EXCEPT ![x][u] = row]

-----------------------------------------------------------------------------
(* Creating an execution.                                                   *)

\* An operator selects sources whose preflighted capture is still the latest;
\* the platform selects those preflight found ready, or the one whose evidence
\* an operator has just accepted.
ByOperator(urls) == \A u \in urls : \E w \in Sources :
                      latest[w] # "none" /\ latest[w] = Preflighted[u]
Ready(u) == Preflighted[u] # "none" /\ Disposition(Preflighted[u]) \in Usable
JustAccepted(r, u) == \E v \in Versions : Page[v] = u /\ Evaluated(r, v) /\ InForce(Latest(r, v))

CreateExecution(p, x, r, urls) ==
  /\ Ask /\ At(p, "idle") /\ exec[x].status = "absent"
  /\ \/ ByOperator(urls) \/ \A u \in urls : Ready(u)
     \/ \E u \in urls : urls = {u} /\ JustAccepted(r, u)
  /\ exec' = [exec EXCEPT ![x] = [NoExecution EXCEPT !.status = "extracting", !.run = r]]
  /\ src' = [src EXCEPT ![x] = [u \in Sources |-> IF u \in urls
                THEN [NoSource EXCEPT !.status = "pending"] ELSE NoSource]]
  /\ job' = [job EXCEPT ![p] = [IdleJob EXCEPT !.mode = "create", !.at = "load", !.x = x]]
  /\ UNCHANGED <<artifacts, evaluations, latest, tasks, marks>>

-----------------------------------------------------------------------------
(* prepare: which evidence may reach the model, and by which route.         *)

\* The capture of the source's page, or one of a source that has the hash the
\* preflight recorded.
EvidenceFor(u) ==
  IF latest[u] # "none" THEN latest[u]
  ELSE IF \E w \in Sources : latest[w] = Preflighted[u] THEN Preflighted[u] ELSE "none"

Load(p) ==
  /\ At(p, "load")
  /\ job' = [job EXCEPT ![p].at = "next", ![p].todo = Selected(job[p].x),
       ![p].held = [u \in Selected(job[p].x) |-> EvidenceFor(u)],
       ![p].done = Summarized(job[p].x), ![p].again = exec[job[p].x].requested]
  /\ UNCHANGED <<rows, evaluations, latest, tasks, marks, asked>>

SkipUnavailable(p, u) ==
  /\ At(p, "next") /\ job[p].held[u] = "none"
  /\ job' = [job EXCEPT ![p].todo = @ \ {u}]
  /\ skipped' = skipped \cup {<<job[p].x, u>>}
  /\ UNCHANGED <<rows, evaluations, latest, tasks, unreachable, lost, overlapped, asked>>

\* Mutant: only what is blocked is refused.
AdmissionUnreviewed(disposition) == IF disposition = "blocked" THEN "refuse" ELSE "admit"

Admission(disposition) == IF disposition \in Usable THEN "admit" ELSE "refuse"

LookForEvaluation(p, u) ==
  /\ At(p, "next") /\ job[p].held[u] # "none"
  /\ LET r == exec[job[p].x].run
         v == job[p].held[u]
     IN job' = [job EXCEPT ![p].url = u, ![p].version = v,
          ![p].at = IF Evaluated(r, v) THEN Admission(Effective(Latest(r, v))) ELSE "record"]
  /\ UNCHANGED <<rows, evaluations, latest, tasks, marks, asked>>

Evaluate(p) ==
  /\ At(p, "record")
  /\ RecordEvaluation(exec[job[p].x].run, job[p].version)
  /\ Goto(p, Admission(Disposition(job[p].version)))
  /\ UNCHANGED <<rows, latest, tasks, marks, asked>>

RecordSourceFailure(p) ==
  /\ At(p, "refuse")
  /\ src' = [src EXCEPT ![job[p].x][job[p].url].status = "failed"]
  /\ NextSource(p)
  /\ UNCHANGED <<exec, artifacts, evaluations, latest, tasks, marks, asked>>

\* A summary of the same version is taken over, from any run of the workspace,
\* unless the operator asked for a new one.  Where there is no artifact, one is
\* made of what an execution holds for the version.
Matching(u, v) == {a \in artifacts : a.url = u /\ a.version = v}
Prior(u, v) == {row \in {src[x][u] : x \in Executions} :
                  row.status = "completed" /\ row.version = v /\ row.summary # "none"}
Reusable(u, v) == IF Matching(u, v) # {} THEN {a.text : a \in Matching(u, v)}
                  ELSE {row.summary : row \in Prior(u, v)}

ReuseMatchingArtifact(p) ==
  /\ At(p, "admit") /\ ~job[p].again /\ job[p].url \notin job[p].done
  /\ LET x == job[p].x
         u == job[p].url
         v == job[p].version
     IN \E text \in Reusable(u, v) :
          /\ SetSource(x, u, [status |-> "completed", version |-> v, summary |-> text])
          /\ artifacts' = IF Matching(u, v) # {} THEN artifacts ELSE artifacts \cup
               {[run |-> exec[x].run, url |-> u, version |-> v, text |-> text]}
  /\ NextSource(p)
  /\ UNCHANGED <<exec, evaluations, latest, tasks, marks, asked>>

AddInput(p) ==
  /\ At(p, "admit")
  /\ \/ job[p].again
     \/ job[p].url \notin job[p].done /\ Reusable(job[p].url, job[p].version) = {}
  /\ job' = [job EXCEPT ![p].at = "next", ![p].todo = @ \ {job[p].url},
       ![p].inputs = @ \cup {[url |-> job[p].url, version |-> job[p].version]},
       ![p].url = "none", ![p].version = "none"]
  /\ UNCHANGED <<rows, evaluations, latest, tasks, marks, asked>>

KeepDone(p) ==
  /\ At(p, "admit") /\ ~job[p].again /\ job[p].url \in job[p].done
  /\ NextSource(p)
  /\ UNCHANGED <<rows, evaluations, latest, tasks, marks, asked>>

\* Nothing is left for the model: what is completed settles the execution.
\* Otherwise prepare raises, which only the creating request handles.
NothingToSummarize(p) ==
  /\ At(p, "next") /\ job[p].todo = {} /\ job[p].inputs = {}
  /\ IF \E u \in Sources : src[job[p].x][u].status = "completed"
     THEN Goto(p, "settle") /\ UNCHANGED lost
     ELSE IF job[p].mode = "create" THEN Goto(p, "fail") /\ UNCHANGED lost
     ELSE Stop(p) /\ lost' = lost \cup {job[p].x}
  /\ UNCHANGED <<rows, evaluations, latest, tasks, unreachable, overlapped, skipped, asked>>

Settle(p) ==
  /\ At(p, "settle")
  /\ exec' = [exec EXCEPT ![job[p].x].status = "awaiting_execution",
                          ![job[p].x].route = "direct"]
  /\ job' = [job EXCEPT ![p].at = "call", ![p].todo = {}]
  /\ UNCHANGED <<src, artifacts, evaluations, latest, tasks, marks, asked>>

StartExtracted(p) ==
  /\ At(p, "next") /\ job[p].todo = {} /\ job[p].inputs # {}
  /\ job' = [job EXCEPT ![p].at = "extracted", ![p].todo = {i.url : i \in job[p].inputs}]
  /\ UNCHANGED <<rows, evaluations, latest, tasks, marks, asked>>

Input(p, u) == (CHOOSE i \in job[p].inputs : i.url = u).version

\* Mutant: the hash is left out of the update.
ExtractedUnnamed(row, v) == [row EXCEPT !.status = "extracted"]

\* Mutant: the version of a source is recorded once.
ExtractedOnce(row, v) ==
  [row EXCEPT !.status = "extracted", !.version = IF @ = "none" THEN v ELSE @]

Extracted(row, v) == [row EXCEPT !.status = "extracted", !.version = v]

RecordSourceExtracted(p, u) ==
  /\ At(p, "extracted")
  /\ SetSource(job[p].x, u, Extracted(src[job[p].x][u], Input(p, u)))
  /\ job' = [job EXCEPT ![p].todo = @ \ {u}]
  /\ UNCHANGED <<exec, artifacts, evaluations, latest, tasks, marks, asked>>

ChunkCount(inputs) == MapThenSumSet(LAMBDA i : Len(ChunkText(Length[i.version])), inputs)

\* set_execution_route; the caller reads back what it has written.
SetExecutionRoute(p) ==
  /\ At(p, "extracted") /\ job[p].todo = {}
  /\ LET route == Route(Cardinality(job[p].inputs), ChunkCount(job[p].inputs))
     IN /\ exec' = [exec EXCEPT ![job[p].x].status = "awaiting_execution",
                                ![job[p].x].route = route]
        /\ IF job[p].mode = "execute" THEN Goto(p, "summarizing")
           ELSE IF route = "durable" THEN Goto(p, "schedule")
           ELSE job' = [job EXCEPT ![p] = [IdleJob EXCEPT !.mode = "execute", !.at = "enter",
                                                          !.x = job[p].x]]
  /\ UNCHANGED <<src, artifacts, evaluations, latest, tasks, marks, asked>>

FailExecution(p) ==
  /\ At(p, "fail")
  /\ SetStatus(job[p].x, "failed")
  /\ Stop(p)
  /\ UNCHANGED <<src, artifacts, evaluations, latest, tasks, marks, asked>>

\* Mutant: the execution is left as it was prepared.
UnscheduledQuietly(p) == Stop(p)

Unscheduled(p) == Goto(p, "fail")

\* Without a Temporal address the execution is failed; an address that does
\* not answer raises an error nothing handles.
Schedule(p) ==
  /\ At(p, "schedule")
  /\ LET x == job[p].x
     IN \/ /\ tasks' = tasks \cup {[x |-> x, attempt |-> exec[x].attempt]}
           /\ Stop(p) /\ UNCHANGED marks
        \/ Unscheduled(p) /\ UNCHANGED <<tasks, marks>>
        \/ /\ unreachable' = unreachable \cup {x} /\ lost' = lost \cup {x}
           /\ Stop(p) /\ UNCHANGED <<tasks, overlapped, skipped>>
  /\ UNCHANGED <<rows, evaluations, latest, asked>>

-----------------------------------------------------------------------------
(* execute: in the request that took the direct route, or in an activity.   *)

Poll(p) ==
  /\ At(p, "idle")
  /\ \E task \in tasks :
       /\ tasks' = tasks \ {task}
       /\ job' = [job EXCEPT ![p] = [IdleJob EXCEPT !.mode = "execute", !.at = "enter",
                                                    !.x = task.x]]
  /\ UNCHANGED <<rows, evaluations, latest, marks, asked>>

Enter(p) ==
  /\ At(p, "enter")
  /\ IF exec[job[p].x].status \in {"awaiting_execution", "summarizing"}
     THEN Goto(p, "load") ELSE Stop(p)
  /\ UNCHANGED <<rows, evaluations, latest, tasks, marks, asked>>

MarkSummarizing(p) ==
  /\ At(p, "summarizing")
  /\ SetStatus(job[p].x, "summarizing")
  /\ job' = [job EXCEPT ![p].at = "call", ![p].todo = {i.url : i \in job[p].inputs}]
  /\ UNCHANGED <<src, artifacts, evaluations, latest, tasks, marks, asked>>

\* Mutant: the other sources go on.
BadAnswerSkipsSource(p, u) == job' = [job EXCEPT ![p].todo = @ \ {u}]

BadAnswer(p, u) == Goto(p, "fail")

\* The model calls for one source.  A bad answer fails the execution; an error
\* that is not one of the provider's, such as a chunk summary beyond the
\* consolidation budget, raises out of execute.
Summarize(p, u) ==
  /\ At(p, "call")
  /\ \/ /\ job' = [job EXCEPT ![p].at = "hash", ![p].url = u, ![p].version = Input(p, u)]
        /\ UNCHANGED lost
     \/ BadAnswer(p, u) /\ UNCHANGED lost
     \/ Stop(p) /\ lost' = lost \cup {job[p].x}
  /\ UNCHANGED <<rows, evaluations, latest, tasks, unreachable, overlapped, skipped, asked>>

\* record_source_summary reads the version the summary is stored under, and
\* then writes the artifact and the source.
ReadVersion(p) ==
  /\ At(p, "hash")
  /\ job' = [job EXCEPT ![p].at = "store",
                        ![p].held = [@ EXCEPT ![job[p].url] = src[job[p].x][job[p].url].version]]
  /\ UNCHANGED <<rows, evaluations, latest, tasks, marks, asked>>

Others(r, u, v) == {a \in artifacts : ~(a.run = r /\ a.url = u /\ a.version = v)}

RecordSourceSummary(p) ==
  /\ At(p, "store")
  /\ LET x == job[p].x
         u == job[p].url
         v == job[p].held[u]
     IN /\ artifacts' = Others(exec[x].run, u, v) \cup
             {[run |-> exec[x].run, url |-> u, version |-> v, text |-> job[p].version]}
        /\ src' = [src EXCEPT ![x][u].status = "completed", ![x][u].summary = job[p].version]
  /\ job' = [job EXCEPT ![p].at = "call", ![p].todo = @ \ {job[p].url}, ![p].url = "none",
                        ![p].version = "none"]
  /\ UNCHANGED <<exec, evaluations, latest, tasks, marks, asked>>

CompleteExecution(p) ==
  /\ At(p, "call") /\ job[p].todo = {}
  /\ exec' = [exec EXCEPT ![job[p].x].status = "completed", ![job[p].x].requested = FALSE]
  /\ Stop(p)
  /\ UNCHANGED <<src, artifacts, evaluations, latest, tasks, marks, asked>>

-----------------------------------------------------------------------------
(* Regeneration: the check reads, the reset does not look again.            *)

Regenerable(x) == exec[x].status = "completed" /\ Summarized(x) = Selected(x)

Regenerate(p, x) ==
  /\ Ask /\ At(p, "idle") /\ Regenerable(x)
  /\ job' = [job EXCEPT ![p] = [IdleJob EXCEPT !.mode = "regenerate", !.at = "begin", !.x = x]]
  /\ UNCHANGED <<rows, evaluations, latest, tasks, marks>>

Busy(x) ==
  \/ \E p \in Procs : job[p].x = x /\ job[p].at # "begin"
  \/ \E task \in tasks : task.x = x

BeginRegeneration(p) ==
  /\ At(p, "begin")
  /\ LET x == job[p].x
     IN /\ exec' = [exec EXCEPT ![x].status = "extracting", ![x].route = "undetermined",
                                ![x].attempt = @ + 1, ![x].requested = TRUE]
        /\ src' = [src EXCEPT ![x] = [u \in Sources |->
             IF u \in Selected(x) THEN [@[u] EXCEPT !.status = "extracted", !.summary = "none"]
             ELSE @[u]]]
        /\ overlapped' = IF Busy(x) THEN overlapped \cup {x} ELSE overlapped
        /\ lost' = lost \ {x}
        /\ skipped' = {s \in skipped : s[1] # x}
  /\ Goto(p, "load")
  /\ UNCHANGED <<artifacts, evaluations, latest, tasks, unreachable, asked>>

-----------------------------------------------------------------------------
(* Around it: a page is captured again, an operator accepts evidence whose  *)
(* evaluation requires review, an acceptance expires, a process dies.       *)

Recapture(v) ==
  /\ Ask /\ latest[Page[v]] # v
  /\ latest' = [latest EXCEPT ![Page[v]] = v]
  /\ UNCHANGED <<rows, evaluations, job, tasks, marks>>

Accept(r, v, kind) ==
  /\ Ask /\ Evaluated(r, v) /\ Latest(r, v).base = "review_required"
  /\ AcceptEvaluation(r, v, Len(evaluations[r][v]), kind)
  /\ UNCHANGED <<rows, latest, job, tasks, marks>>

Deadline ==
  /\ \E r \in Runs, v \in Versions : \E i \in DOMAIN evaluations[r][v] : ExpireOverride(r, v, i)
  /\ UNCHANGED <<rows, latest, job, tasks, marks, asked>>

\* An activity has one attempt, so a task that dies is gone.
Crash(p) ==
  /\ Ask /\ ~At(p, "idle")
  /\ lost' = lost \cup {job[p].x}
  /\ Stop(p)
  /\ UNCHANGED <<rows, evaluations, latest, tasks, unreachable, overlapped, skipped>>

-----------------------------------------------------------------------------

\* Preflight has evaluated what it recorded; a page may have been captured.  No
\* summary has been asked for yet, or one was completed in the request.
SummaryInit ==
  /\ \/ /\ exec = [x \in Executions |-> NoExecution]
        /\ src = [x \in Executions |-> [u \in Sources |-> NoSource]]
        /\ artifacts = {}
     \/ \E old \in Executions, r \in Runs, done \in {u \in Sources : Ready(u)} :
          LET v == Preflighted[done]
          IN /\ exec = [x \in Executions |-> IF x # old THEN NoExecution
                  ELSE [NoExecution EXCEPT !.status = "completed", !.run = r,
                                           !.route = Route(1, Len(ChunkText(Length[v])))]]
             /\ src = [x \in Executions |-> [u \in Sources |->
                  IF x = old /\ u = done
                  THEN [status |-> "completed", version |-> v, summary |-> v] ELSE NoSource]]
             /\ artifacts = {[run |-> r, url |-> done, version |-> v, text |-> v]}
  /\ evaluations = [r \in Runs |-> [v \in Versions |->
       IF \E u \in Sources : Preflighted[u] = v
       THEN <<[base |-> Disposition(v), overrides |-> {}]>> ELSE <<>>]]
  /\ latest = [u \in Sources |->
       IF \E w \in Sources : Preflighted[w] # "none" /\ Page[Preflighted[w]] = u
       THEN Preflighted[CHOOSE w \in Sources :
                          Preflighted[w] # "none" /\ Page[Preflighted[w]] = u]
       ELSE "none"]
  /\ job = [p \in Procs |-> IdleJob]
  /\ tasks = {} /\ unreachable = {} /\ lost = {} /\ overlapped = {} /\ skipped = {}
  /\ asked = 0

Proceed(p) ==
  \/ Load(p)
  \/ \E u \in job[p].todo : SkipUnavailable(p, u) \/ LookForEvaluation(p, u)
                            \/ RecordSourceExtracted(p, u) \/ Summarize(p, u)
  \/ Evaluate(p) \/ RecordSourceFailure(p) \/ ReuseMatchingArtifact(p) \/ AddInput(p)
  \/ KeepDone(p) \/ NothingToSummarize(p) \/ Settle(p) \/ StartExtracted(p)
  \/ SetExecutionRoute(p) \/ FailExecution(p) \/ Schedule(p)
  \/ Enter(p) \/ MarkSummarizing(p) \/ ReadVersion(p) \/ RecordSourceSummary(p)
  \/ CompleteExecution(p) \/ BeginRegeneration(p)

Rest == tasks = {} /\ (\A p \in Procs : At(p, "idle")) /\ UNCHANGED summaryVars

SummaryNext ==
  \/ \E p \in Procs :
       \/ Proceed(p) \/ Poll(p) \/ Crash(p)
       \/ \E x \in Executions :
            \/ Regenerate(p, x)
            \/ \E r \in Runs, urls \in SUBSET Sources \ {{}} : CreateExecution(p, x, r, urls)
  \/ \E v \in Versions :
       \/ Recapture(v)
       \/ \E r \in Runs, kind \in {"permanent", "expiring"} : Accept(r, v, kind)
  \/ Deadline \/ Rest

SummarySpec == SummaryInit /\ [][SummaryNext]_summaryVars

-----------------------------------------------------------------------------
(* Properties.                                                              *)

SummaryTypeOK ==
  /\ exec \in [Executions -> [status : {"absent", "extracting", "awaiting_execution",
                                        "summarizing", "completed", "failed"},
                              run : Runs \cup {"none"},
                              route : {"undetermined", "direct", "durable"},
                              attempt : 0 .. MaxAsked, requested : BOOLEAN]]
  /\ src \in [Executions -> [Sources ->
       [status : {"absent", "pending", "extracted", "completed", "failed"},
        version : Versions \cup {"none"}, summary : Versions \cup {"none"}]]]
  /\ artifacts \subseteq [run : Runs, url : Sources, version : Versions, text : Versions]
  /\ latest \in [Sources -> Versions \cup {"none"}]
  /\ TrustTypeOK

\* What may reach the model in a run: usable by policy, or accepted by an
\* operator (an acceptance may have expired since).
Cleared(r, v) ==
  /\ Evaluated(r, v)
  /\ \/ Disposition(v) \in Usable
     \/ \E i \in DOMAIN evaluations[r][v] : evaluations[r][v][i].overrides # {}

\* Neither a new capture of a page, nor a redirect, nor a regeneration beside
\* the work it resets brings text to the model that was not cleared in this run,
\* at this exact version (docs/local-evidence-intelligence.md:34-40); and no
\* summary of such text is taken over from another run, unless one was stored
\* under another version by such a regeneration.
OnlyClearedTextIsSummarized ==
  /\ \A p \in Procs : \A i \in job[p].inputs : Cleared(exec[job[p].x].run, i.version)
  /\ overlapped = {} => \A x \in Executions, u \in Sources :
       src[x][u].summary # "none" => Cleared(exec[x].run, src[x][u].summary)

\* A stored summary was made from the version it is stored under, although the
\* version is read again after the model has answered, unless an execution was
\* regenerated while at work: its summary may be stored under the version the
\* other request prepared, from where other executions take it over.
SummaryIsOfItsVersion ==
  overlapped = {} =>
    /\ \A x \in Executions, u \in Sources :
         src[x][u].summary # "none" => src[x][u].summary = src[x][u].version
    /\ \A a \in artifacts : a.text = a.version

\* A completed execution has a result, and every source it selected has a
\* summary or a reason against it, unless its evidence was not found when the
\* execution was prepared, for the first time or once more by its worker.
CompletedIsSummarized ==
  \A x \in Executions \ overlapped :
    exec[x].status = "completed" =>
      /\ Summarized(x) # {}
      /\ \A u \in Selected(x) \ Summarized(x) :
           src[x][u].status = "failed" \/ <<x, u>> \in skipped

\* An execution nothing works on has an outcome, unless a process died, its
\* workflow could not be started, or an error escaped from it.
QuietExecutionIsSettled ==
  \A x \in Executions \ (lost \cup overlapped) :
    exec[x].status # "absent" /\ ~Busy(x) => exec[x].status \in {"completed", "failed"}

\* The pure functions meet their definitions on all bounded inputs.  This
\* depends on no state and is looked at before the first request only.
\* No character of a text is lost between two chunks (chunking.py:17-30).
ChunksCoverText == asked = 0 => \A n \in 1 .. MaxLength : ChunksCover(n)

\* Summaries are grouped in order, within the budget, and without groups that
\* could have been one (consolidation.py:12-34).
GroupsFitBudget ==
  asked = 0 => \A count \in 1 .. MaxItems : \A sizes \in [1 .. count -> 1 .. Budget - 2] :
    GroupsFit(sizes)

\* When Temporal is unreachable the execution fails closed
\* (docs/local-evidence-intelligence.md:158-160).
UnreachableFailsClosed ==
  \A x \in unreachable : ~Busy(x) => exec[x].status = "failed"
=============================================================================
