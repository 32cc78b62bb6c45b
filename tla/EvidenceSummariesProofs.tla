------------------------ MODULE EvidenceSummariesProofs ------------------------
(***************************************************************************)
(* What may reach the model, under which version its answers are stored,   *)
(* and what becomes of an execution, for any sources, versions, executions *)
(* and number of processes.  TaskInv says what a process may rely on       *)
(* whoever works beside it; OrderInv what is known of an execution         *)
(* that was not regenerated under the hands of its worker; StoredInv that  *)
(* a stored text has the version it is filed under.                        *)
(***************************************************************************)
EXTENDS EvidenceSummaries, EvidenceIntelligenceProofs, WebTrustProofs, FiniteSetTheorems

Fields == DOMAIN IdleJob
JobShape == DOMAIN job = Procs /\ \A p \in Procs : DOMAIN job[p] = Fields

\* Where a process decides source by source, and where it calls the model.
Choosing == {"next", "record", "refuse", "admit"}
Calling == {"call", "hash", "store"}
Working == {"load", "extracted", "settle", "fail", "schedule", "enter", "summarizing"}
             \cup Choosing \cup Calling

InputUrls(p) == {i.url : i \in job[p].inputs}

-----------------------------------------------------------------------------
(* What holds of a process whoever works beside it.                         *)

ModeOK(p) ==
  \/ job[p].at = "idle"
  \/ job[p].at = "begin" /\ job[p].mode = "regenerate"
  \/ /\ job[p].at \in Working \ {"enter", "summarizing"}
     /\ job[p].mode \in {"create", "regenerate"}
  \/ job[p].at \in Working \ {"schedule"} /\ job[p].mode = "execute"

\* Its execution is known, with the run and the sources it was created for.
Known(x) == x \in Executions /\ exec[x].status # "absent" /\ exec[x].run \in Runs

InputsOK(p) ==
  /\ job[p].inputs \subseteq [url : Sources, version : Versions]
  /\ \A i \in job[p].inputs : /\ i.url \in Selected(job[p].x)
                              /\ Cleared(exec[job[p].x].run, i.version)

ChoosingOK(p) ==
  /\ \A u \in job[p].todo : job[p].held[u] \in Versions \cup {"none"}
  /\ job[p].at # "next" => job[p].url \in job[p].todo /\ job[p].version \in Versions
  /\ job[p].at = "admit" => Cleared(exec[job[p].x].run, job[p].version)

\* The version of a source that is to be summarized has been recorded.
RecordedOK(p) ==
  /\ job[p].todo \subseteq InputUrls(p)
  /\ \A u \in InputUrls(p) :
       \/ src[job[p].x][u].version \in Versions
       \/ job[p].at = "extracted" /\ u \in job[p].todo

CallingOK(p) ==
  /\ job[p].at \in {"hash", "store"} =>
       job[p].url \in job[p].todo /\ job[p].version = Input(p, job[p].url)
  /\ job[p].at = "store" => job[p].held[job[p].url] \in Versions

TaskOK(p) ==
  /\ ModeOK(p)
  /\ job[p].at \in {"idle", "begin", "load", "enter", "settle"} => job[p].inputs = {}
  /\ job[p].at # "idle" => /\ Known(job[p].x) /\ job[p].todo \subseteq Selected(job[p].x)
                           /\ InputsOK(p)
  /\ job[p].at \in Choosing \cup Calling \cup {"extracted", "summarizing", "settle"} =>
       DOMAIN job[p].held = Selected(job[p].x)
  /\ job[p].at \in Choosing => ChoosingOK(p)
  /\ job[p].at \in Calling \cup {"extracted", "summarizing"} => RecordedOK(p)
  /\ job[p].at \in Calling => CallingOK(p)

ExecRow == [status : {"absent", "extracting", "awaiting_execution", "summarizing",
                      "completed", "failed"},
            run : Runs \cup {"none"}, route : {"undetermined", "direct", "durable"},
            attempt : Nat, requested : BOOLEAN]

SourceRow == [status : {"absent", "pending", "extracted", "completed", "failed"},
              version : Versions \cup {"none"}, summary : Versions \cup {"none"}]

\* A completed source has a summary, one that is not selected has none.
RowOK(row) ==
  /\ row.status = "completed" => row.summary \in Versions
  /\ row.status = "absent" => row.summary = "none"

RecordsOK ==
  /\ exec \in [Executions -> ExecRow]
  /\ \A x \in Executions : exec[x].status # "absent" => exec[x].run \in Runs
  /\ src \in [Executions -> [Sources -> SourceRow]]
  /\ \A x \in Executions, u \in Sources : RowOK(src[x][u])
  /\ artifacts \subseteq [run : Runs, url : Sources, version : Versions, text : Versions]
  /\ latest \in [Sources -> Versions \cup {"none"}]
  /\ \A task \in tasks : Known(task.x)

TaskInv == TrustInv /\ JobShape /\ RecordsOK /\ \A p \in Procs : TaskOK(p)

\* Every regeneration was asked for.
Beginning == {p \in Procs : At(p, "begin")}
AttemptInv ==
  /\ asked \in 0 .. MaxAsked /\ IsFiniteSet(Beginning)
  /\ \A x \in Executions : exec[x].attempt + Cardinality(Beginning) <= asked

-----------------------------------------------------------------------------
(* What holds of an execution that was not regenerated while at work.       *)

Works(p, x) == job[p].x = x /\ job[p].at \in Working
InProgress == {"extracting", "awaiting_execution", "summarizing"}

\* One process works on it, or one task of it waits.
AloneAt(x) ==
  /\ \A p, q \in Procs : Works(p, x) /\ Works(q, x) => p = q
  /\ \A p \in Procs, t \in tasks : Works(p, x) => t.x # x
  /\ \A s, t \in tasks : s.x = x /\ t.x = x => s = t

StatusAt(x) ==
  /\ \A p \in Procs : Works(p, x) =>
       /\ exec[x].status \in InProgress
       /\ job[p].at \in {"schedule", "enter"} => exec[x].status = "awaiting_execution"
  /\ \A t \in tasks : t.x = x => exec[x].status = "awaiting_execution"
  /\ exec[x].status \in InProgress /\ x \notin lost =>
       (\E p \in Procs : Works(p, x)) \/ (\E t \in tasks : t.x = x)

\* While it is prepared once more, nothing of an earlier summary is left; and
\* until it is executed, what has a summary is completed.
Bare(x) == \A u \in Sources : src[x][u].summary = "none"
Prepared(x) ==
  /\ exec[x].requested => Bare(x)
  /\ \A u \in Sources : src[x][u].summary # "none" => src[x][u].status = "completed"

\* The version of a source that is being summarized is the one its text has.
VersionsHeld(p) ==
  /\ \A u \in InputUrls(p) :
       \/ src[job[p].x][u].version = Input(p, u)
       \/ job[p].at = "extracted" /\ u \in job[p].todo
  /\ job[p].at = "store" => job[p].held[job[p].url] = job[p].version

\* Every source is summarized, or refused, or was not found.
Accounted(x, u) ==
  u \in Summarized(x) \/ src[x][u].status = "failed" \/ <<x, u>> \in skipped

PhaseChoosing(p, x) ==
  /\ job[p].again = exec[x].requested
  /\ \A u \in job[p].todo :
       /\ u \in job[p].done <=> src[x][u].summary # "none"
       /\ src[x][u].summary # "none" =>
            src[x][u].status = "completed" /\ job[p].mode = "execute"
  /\ InputUrls(p) \cap job[p].todo = {}
  /\ \A u \in Selected(x) \ job[p].todo : Accounted(x, u) \/ u \in InputUrls(p)

Phase(p, x) ==
  /\ job[p].at = "load" /\ job[p].mode # "execute" => Bare(x)
  /\ job[p].at \in {"load", "schedule", "enter"} => Prepared(x)
  /\ job[p].mode # "execute" /\ job[p].at \in Choosing \cup {"extracted"} => Prepared(x)
  /\ job[p].at \in Choosing \cup {"extracted", "summarizing"} =>
       /\ exec[x].requested => Bare(x)
       /\ \A u \in InputUrls(p) : src[x][u].summary = "none"
  /\ job[p].at \in Choosing => PhaseChoosing(p, x)
  /\ job[p].at \in {"extracted", "summarizing"} =>
       /\ job[p].inputs # {}
       /\ \A u \in Selected(x) : Accounted(x, u) \/ u \in InputUrls(p)
  /\ job[p].at \in Calling \cup {"extracted", "summarizing"} => VersionsHeld(p)
  /\ job[p].at = "settle" =>
       Summarized(x) # {} /\ \A u \in Selected(x) : Accounted(x, u)
  /\ job[p].at \in Calling =>
       /\ Summarized(x) # {} \/ job[p].todo # {}
       /\ \A u \in Selected(x) : Accounted(x, u) \/ u \in job[p].todo

PhaseAt(x) ==
  /\ \A p \in Procs : Works(p, x) => Phase(p, x)
  /\ \A t \in tasks : t.x = x => Prepared(x)

\* It ends with a result, and a reason for every source that has none.
DoneAt(x) == exec[x].status = "completed" =>
               Summarized(x) # {} /\ \A u \in Selected(x) : Accounted(x, u)

InOrder(x) == AloneAt(x) /\ StatusAt(x) /\ PhaseAt(x) /\ DoneAt(x)
OrderInv == \A x \in Executions \ overlapped : InOrder(x)

\* What the two properties about stored summaries say, as an invariant.
RowSound(x, u) == src[x][u].summary # "none" =>
  /\ Known(x) /\ src[x][u].summary = src[x][u].version
  /\ Cleared(exec[x].run, src[x][u].summary)

StoredInv ==
  overlapped = {} =>
    /\ \A x \in Executions, u \in Sources : RowSound(x, u)
    /\ \A a \in artifacts : a.text = a.version

-----------------------------------------------------------------------------
(* What each step does to its process and to the tables.                    *)

\* Only process p moves.
OnlyMoves(p) ==
  /\ DOMAIN job' = Procs /\ DOMAIN job'[p] = Fields
  /\ \A q \in Procs : q # p => job'[q] = job[q]

\* It remembers what it works on and what it loaded.
Keeps(p) ==
  /\ job'[p].mode = job[p].mode /\ job'[p].x = job[p].x /\ job'[p].held = job[p].held
  /\ job'[p].done = job[p].done /\ job'[p].again = job[p].again

\* The fields of a process, and an idle one.
LEMMA IdleShape ==
  /\ Fields = {"mode", "at", "x", "todo", "held", "done", "again", "inputs", "url", "version"}
  /\ IdleJob.at = "idle" /\ IdleJob.inputs = {} /\ IdleJob.todo = {}
BY DEF Fields, IdleJob

\* A process that stops is idle and holds no input.
LEMMA Stopped ==
  ASSUME JobShape, NEW p \in Procs, Stop(p)
  PROVE  OnlyMoves(p) /\ job'[p].at = "idle" /\ job'[p].inputs = {}
<1>1. job'[p] = IdleJob /\ DOMAIN job' = Procs /\ \A q \in Procs : q # p => job'[q] = job[q]
  BY DEF Stop, JobShape
<1> QED
  BY <1>1, IdleShape DEF OnlyMoves, Fields

\* A process that goes to another place keeps what it holds.
LEMMA Went ==
  ASSUME JobShape, NEW p \in Procs, NEW label, Goto(p, label)
  PROVE  /\ OnlyMoves(p) /\ Keeps(p) /\ job'[p].at = label
         /\ job'[p].todo = job[p].todo /\ job'[p].inputs = job[p].inputs
         /\ job'[p].url = job[p].url /\ job'[p].version = job[p].version
BY IdleShape DEF JobShape, Goto, OnlyMoves, Keeps

\* One that turns to the next source has one source less to decide.
LEMMA WentNext ==
  ASSUME JobShape, NEW p \in Procs, NextSource(p)
  PROVE  /\ OnlyMoves(p) /\ Keeps(p) /\ job'[p].at = "next"
         /\ job'[p].todo = job[p].todo \ {job[p].url} /\ job'[p].inputs = job[p].inputs
BY IdleShape DEF JobShape, NextSource, OnlyMoves, Keeps

\* Load takes the sources and the evidence of this moment.
LEMMA LoadMoves ==
  ASSUME JobShape, NEW p \in Procs, Load(p)
  PROVE  /\ OnlyMoves(p) /\ job[p].at = "load" /\ job'[p].at = "next"
         /\ job'[p].mode = job[p].mode /\ job'[p].x = job[p].x
         /\ job'[p].inputs = job[p].inputs /\ job'[p].todo = Selected(job[p].x)
         /\ job'[p].held = [u \in Selected(job[p].x) |-> EvidenceFor(u)]
         /\ job'[p].done = Summarized(job[p].x) /\ job'[p].again = exec[job[p].x].requested
         /\ UNCHANGED <<exec, src, artifacts, evaluations, latest, tasks, marks, asked>>
BY IdleShape DEF JobShape, Load, OnlyMoves, At, rows

\* A source whose evidence is not found leaves the list and no other trace.
LEMMA SkipMoves ==
  ASSUME JobShape, NEW p \in Procs, NEW u, SkipUnavailable(p, u)
  PROVE  /\ OnlyMoves(p) /\ Keeps(p) /\ job[p].at = "next" /\ job'[p].at = "next"
         /\ job'[p].todo = job[p].todo \ {u} /\ job'[p].inputs = job[p].inputs
         /\ skipped' = skipped \cup {<<job[p].x, u>>}
         /\ UNCHANGED <<exec, src, artifacts, evaluations, latest, tasks, asked>>
         /\ UNCHANGED <<unreachable, lost, overlapped>>
BY IdleShape DEF JobShape, SkipUnavailable, OnlyMoves, Keeps, At, rows

\* What is read of the evaluation decides where the process goes.
LEMMA LookMoves ==
  ASSUME JobShape, NEW p \in Procs, NEW u, LookForEvaluation(p, u)
  PROVE  LET r == exec[job[p].x].run
             v == job[p].held[u]
         IN /\ OnlyMoves(p) /\ Keeps(p) /\ job[p].at = "next" /\ v # "none"
            /\ job'[p].at = IF Evaluated(r, v) THEN Admission(Effective(Latest(r, v))) ELSE "record"
            /\ job'[p].todo = job[p].todo /\ job'[p].inputs = job[p].inputs
            /\ job'[p].url = u /\ job'[p].version = v
            /\ UNCHANGED <<exec, src, artifacts, evaluations, latest, tasks, marks, asked>>
BY IdleShape DEF JobShape, LookForEvaluation, OnlyMoves, Keeps, At, rows

\* An admitted source becomes an input, in the version that was looked at.
LEMMA AddMoves ==
  ASSUME JobShape, NEW p \in Procs, AddInput(p)
  PROVE  /\ OnlyMoves(p) /\ Keeps(p) /\ job[p].at = "admit" /\ job'[p].at = "next"
         /\ job'[p].todo = job[p].todo \ {job[p].url}
         /\ job'[p].inputs = job[p].inputs \cup {[url |-> job[p].url, version |-> job[p].version]}
         /\ UNCHANGED <<exec, src, artifacts, evaluations, latest, tasks, marks, asked>>
BY IdleShape DEF JobShape, AddInput, OnlyMoves, Keeps, At, rows

\* Without new inputs the process goes on with none to summarize.
LEMMA SettleMoves ==
  ASSUME JobShape, NEW p \in Procs, Settle(p)
  PROVE  /\ OnlyMoves(p) /\ Keeps(p) /\ job[p].at = "settle" /\ job'[p].at = "call"
         /\ job'[p].todo = {} /\ job'[p].inputs = job[p].inputs
         /\ UNCHANGED <<src, artifacts, evaluations, latest, tasks, marks, asked>>
BY IdleShape DEF JobShape, Settle, OnlyMoves, Keeps, At

\* Once every source is decided the inputs are to be marked extracted.
LEMMA StartMoves ==
  ASSUME JobShape, NEW p \in Procs, StartExtracted(p)
  PROVE  /\ OnlyMoves(p) /\ Keeps(p) /\ job[p].at = "next" /\ job'[p].at = "extracted"
         /\ job[p].todo = {} /\ job[p].inputs # {}
         /\ job'[p].todo = InputUrls(p) /\ job'[p].inputs = job[p].inputs
         /\ UNCHANGED <<exec, src, artifacts, evaluations, latest, tasks, marks, asked>>
BY IdleShape DEF JobShape, StartExtracted, OnlyMoves, Keeps, At, rows, InputUrls

\* The versions of the inputs are recorded one by one.
LEMMA ExtractedMoves ==
  ASSUME JobShape, NEW p \in Procs, NEW u, RecordSourceExtracted(p, u)
  PROVE  /\ OnlyMoves(p) /\ Keeps(p) /\ job[p].at = "extracted" /\ job'[p].at = "extracted"
         /\ job'[p].todo = job[p].todo \ {u} /\ job'[p].inputs = job[p].inputs
         /\ UNCHANGED <<exec, artifacts, evaluations, latest, tasks, marks, asked>>
BY IdleShape DEF JobShape, RecordSourceExtracted, OnlyMoves, Keeps, At

\* The direct route is taken on in the request, as a fresh execution.
LEMMA RouteMoves ==
  ASSUME JobShape, NEW p \in Procs, SetExecutionRoute(p)
  PROVE  /\ OnlyMoves(p) /\ job[p].at = "extracted" /\ job[p].todo = {}
         /\ job'[p].x = job[p].x
         /\ \/ /\ Keeps(p) /\ job'[p].todo = job[p].todo /\ job'[p].inputs = job[p].inputs
               /\ \/ job[p].mode = "execute" /\ job'[p].at = "summarizing"
                  \/ job[p].mode # "execute" /\ job'[p].at = "schedule"
            \/ /\ job'[p].mode = "execute" /\ job'[p].at = "enter" /\ job[p].mode # "execute"
               /\ job'[p].todo = {} /\ job'[p].inputs = {}
         /\ UNCHANGED <<src, artifacts, evaluations, latest, tasks, marks, asked>>
<1> DEFINE fresh == [job EXCEPT ![p] = [IdleJob EXCEPT !.mode = "execute", !.at = "enter",
                                                       !.x = job[p].x]]
<1>1. \/ Goto(p, "summarizing") /\ job[p].mode = "execute"
      \/ Goto(p, "schedule") /\ job[p].mode # "execute"
      \/ job' = fresh /\ job[p].mode # "execute"
  BY DEF SetExecutionRoute
<1>2. /\ job[p].at = "extracted" /\ job[p].todo = {}
      /\ UNCHANGED <<src, artifacts, evaluations, latest, tasks, marks, asked>>
  BY DEF SetExecutionRoute, At
<1>3. CASE job' = fresh /\ job[p].mode # "execute"
  <2>1. /\ job'[p].x = job[p].x /\ job'[p].mode = "execute" /\ job'[p].at = "enter"
        /\ job'[p].todo = {} /\ job'[p].inputs = {} /\ OnlyMoves(p)
    BY <1>3 DEF JobShape, OnlyMoves, IdleJob, Fields
  <2> QED
    BY <1>2, <1>3, <2>1
<1>4. CASE Goto(p, "summarizing") \/ Goto(p, "schedule")
  BY <1>1, <1>2, <1>3, <1>4, Went DEF Keeps
<1> QED
  BY <1>1, <1>3, <1>4

\* The inputs are to be summarized.
LEMMA SummarizingMoves ==
  ASSUME JobShape, NEW p \in Procs, MarkSummarizing(p)
  PROVE  /\ OnlyMoves(p) /\ Keeps(p) /\ job[p].at = "summarizing" /\ job'[p].at = "call"
         /\ job'[p].todo = InputUrls(p) /\ job'[p].inputs = job[p].inputs
         /\ UNCHANGED <<src, artifacts, evaluations, latest, tasks, marks, asked>>
BY IdleShape DEF JobShape, MarkSummarizing, OnlyMoves, Keeps, At, InputUrls

\* The model answers, or gives what the code refuses, or an error escapes.
LEMMA SummarizeMoves ==
  ASSUME JobShape, NEW p \in Procs, NEW u, Summarize(p, u)
  PROVE  /\ OnlyMoves(p) /\ job[p].at = "call"
         /\ \/ /\ Keeps(p) /\ job'[p].at = "hash" /\ job'[p].url = u
               /\ job'[p].version = Input(p, u)
               /\ job'[p].todo = job[p].todo /\ job'[p].inputs = job[p].inputs
               /\ UNCHANGED lost
            \/ /\ Keeps(p) /\ job'[p].at = "fail" /\ UNCHANGED lost
               /\ job'[p].todo = job[p].todo /\ job'[p].inputs = job[p].inputs
            \/ /\ job'[p].at = "idle" /\ job'[p].inputs = {} /\ lost' = lost \cup {job[p].x}
         /\ UNCHANGED <<exec, src, artifacts, evaluations, latest, tasks, asked>>
         /\ UNCHANGED <<unreachable, overlapped, skipped>>
<1>1. /\ job[p].at = "call" /\ UNCHANGED <<exec, src, artifacts, evaluations, latest, tasks, asked>>
      /\ UNCHANGED <<unreachable, overlapped, skipped>>
  BY DEF Summarize, At, rows
<1>2. CASE Goto(p, "fail") /\ UNCHANGED lost
  BY <1>1, <1>2, Went
<1>3. CASE Stop(p) /\ lost' = lost \cup {job[p].x}
  BY <1>1, <1>3, Stopped
<1>4. CASE /\ job' = [job EXCEPT ![p].at = "hash", ![p].url = u, ![p].version = Input(p, u)]
           /\ UNCHANGED lost
  BY <1>1, <1>4, IdleShape DEF JobShape, OnlyMoves, Keeps
<1> QED
  BY <1>2, <1>3, <1>4 DEF Summarize, BadAnswer

\* The version of the source is read again after the model has answered.
LEMMA ReadMoves ==
  ASSUME JobShape, NEW p \in Procs, ReadVersion(p)
  PROVE  /\ OnlyMoves(p) /\ job[p].at = "hash" /\ job'[p].at = "store"
         /\ job'[p].mode = job[p].mode /\ job'[p].x = job[p].x
         /\ job'[p].done = job[p].done /\ job'[p].again = job[p].again
         /\ job'[p].todo = job[p].todo /\ job'[p].inputs = job[p].inputs
         /\ job'[p].url = job[p].url /\ job'[p].version = job[p].version
         /\ job'[p].held = [job[p].held EXCEPT ![job[p].url] = src[job[p].x][job[p].url].version]
         /\ UNCHANGED <<exec, src, artifacts, evaluations, latest, tasks, marks, asked>>
BY IdleShape DEF JobShape, ReadVersion, OnlyMoves, At, rows

\* A stored summary takes its source from the list.
LEMMA StoreMoves ==
  ASSUME JobShape, NEW p \in Procs, RecordSourceSummary(p)
  PROVE  /\ OnlyMoves(p) /\ Keeps(p) /\ job[p].at = "store" /\ job'[p].at = "call"
         /\ job'[p].todo = job[p].todo \ {job[p].url} /\ job'[p].inputs = job[p].inputs
         /\ UNCHANGED <<exec, evaluations, latest, tasks, marks, asked>>
BY IdleShape DEF JobShape, RecordSourceSummary, OnlyMoves, Keeps, At

\* A request begins, or a worker takes a task.
LEMMA PollMoves ==
  ASSUME JobShape, NEW p \in Procs, Poll(p)
  PROVE  \E task \in tasks :
           /\ tasks' = tasks \ {task}
           /\ OnlyMoves(p) /\ job[p].at = "idle" /\ job'[p].at = "enter"
           /\ job'[p].mode = "execute" /\ job'[p].x = task.x
           /\ job'[p].todo = {} /\ job'[p].inputs = {}
           /\ UNCHANGED <<exec, src, artifacts, evaluations, latest, marks, asked>>
BY DEF JobShape, Poll, OnlyMoves, At, rows, IdleJob, Fields

\* A request to regenerate has found a completed execution.
LEMMA RegenerateMoves ==
  ASSUME JobShape, NEW p \in Procs, NEW x \in Executions, Regenerate(p, x)
  PROVE  /\ OnlyMoves(p) /\ job[p].at = "idle" /\ job'[p].at = "begin"
         /\ job'[p].mode = "regenerate" /\ job'[p].x = x
         /\ job'[p].todo = {} /\ job'[p].inputs = {}
         /\ exec[x].status = "completed"
         /\ UNCHANGED <<exec, src, artifacts, evaluations, latest, tasks, marks>>
BY DEF JobShape, Regenerate, Regenerable, OnlyMoves, At, rows, IdleJob, Fields

\* A request creates an execution that did not exist.
LEMMA CreateMoves ==
  ASSUME JobShape, NEW p \in Procs, NEW x \in Executions, NEW r \in Runs, NEW urls,
         CreateExecution(p, x, r, urls)
  PROVE  /\ OnlyMoves(p) /\ job[p].at = "idle" /\ job'[p].at = "load"
         /\ job'[p].mode = "create" /\ job'[p].x = x
         /\ job'[p].todo = {} /\ job'[p].inputs = {}
         /\ exec[x].status = "absent"
         /\ UNCHANGED <<artifacts, evaluations, latest, tasks, marks>>
BY DEF JobShape, CreateExecution, OnlyMoves, At, IdleJob, Fields

-----------------------------------------------------------------------------
(* The trust records.                                                       *)

\* Every step keeps them as TrustSpec allows.
LEMMA StepRefines ==
  ASSUME TaskInv, [SummaryNext]_summaryVars
  PROVE  [TrustNext]_evaluations
<1>1. ASSUME NEW p \in Procs, Evaluate(p) PROVE [TrustNext]_evaluations
  <2> DEFINE r == exec[job[p].x].run
             v == job[p].version
  <2>1. RecordEvaluation(r, v) /\ job[p].at = "record"
    BY <1>1 DEF Evaluate, At
  <2>2. r \in Runs /\ v \in Versions
    BY <2>1 DEF TaskInv, TaskOK, ChoosingOK, Choosing, Known
  <2> HIDE DEF r, v
  <2> QED
    BY <2>1, <2>2 DEF TrustNext
<1>2. ASSUME NEW r \in Runs, NEW v \in Versions, NEW kind \in {"permanent", "expiring"},
             Accept(r, v, kind)
      PROVE  [TrustNext]_evaluations
  <2> DEFINE s == evaluations[r][v]
  <2>1. s \in Seq(Row) /\ s # <<>> /\ s[Len(s)].base = "review_required"
    BY <1>2 DEF Accept, Evaluated, Latest, TaskInv, TrustInv, TrustTypeOK
  <2>2. Len(s) \in 1 .. Len(s) /\ DOMAIN s = 1 .. Len(s)
    BY <2>1
  <2>3. Len(s) \in DOMAIN s /\ SeenForReview(r, v, Len(s))
    BY <2>1, <2>2 DEF SeenForReview
  <2>4. AcceptEvaluation(r, v, Len(s), kind)
    BY <1>2 DEF Accept
  <2> QED
    BY <2>3, <2>4 DEF TrustNext
<1>3. CASE Deadline
  BY <1>3 DEF Deadline, TrustNext
<1>4. ASSUME NEW p \in Procs, Proceed(p), ~Evaluate(p) PROVE UNCHANGED evaluations
  BY <1>4 DEF Proceed, rows, Load, SkipUnavailable, LookForEvaluation, RecordSourceExtracted,
     Summarize, RecordSourceFailure, ReuseMatchingArtifact, AddInput, KeepDone,
     NothingToSummarize, Settle, StartExtracted, SetExecutionRoute, FailExecution, Schedule,
     Enter, MarkSummarizing, ReadVersion, RecordSourceSummary, CompleteExecution,
     BeginRegeneration
<1>5. ASSUME \/ UNCHANGED summaryVars \/ Rest
             \/ \E v \in Versions : Recapture(v)
             \/ \E p \in Procs :
                  \/ Poll(p) \/ Crash(p)
                  \/ \E x \in Executions :
                       \/ Regenerate(p, x)
                       \/ \E r \in Runs, urls \in SUBSET Sources \ {{}} :
                            CreateExecution(p, x, r, urls)
      PROVE  UNCHANGED evaluations
  BY <1>5 DEF summaryVars, rows, Rest, Recapture, Poll, Crash, Regenerate, CreateExecution
<1> QED
  BY <1>1, <1>2, <1>3, <1>4, <1>5 DEF SummaryNext

\* What was cleared in a run stays cleared.
LEMMA ClearedStays ==
  ASSUME TrustInv, [TrustNext]_evaluations, NEW r \in Runs, NEW v \in Versions, Cleared(r, v)
  PROVE  Cleared(r, v)'
<1> DEFINE s == evaluations[r][v]
           t == evaluations'[r][v]
<1>1. s \in Seq(Row) /\ t \in Seq(Row)
  BY TrustInvStep DEF TrustInv, TrustTypeOK
<1>2. /\ Len(t) >= Len(s)
      /\ \A j \in 1 .. Len(s) : s[j].overrides # {} => t[j].overrides # {}
  BY NothingForgotten DEF TrustInv, Grown
<1>3. Len(s) \in Nat /\ Len(t) \in Nat /\ DOMAIN s = 1 .. Len(s) /\ DOMAIN t = 1 .. Len(t)
  BY <1>1
<1>4. s # <<>>
  BY DEF Cleared, Evaluated
<1>5. t # <<>>
  BY <1>1, <1>2, <1>4, EmptySeq
<1>6. (\E i \in DOMAIN s : s[i].overrides # {}) => \E i \in DOMAIN t : t[i].overrides # {}
  BY <1>2, <1>3
<1> QED
  BY <1>5, <1>6 DEF Cleared, Evaluated, Disposition, Rules

\* An effective disposition that is usable was earned or decided.
LEMMA UsableIsCleared ==
  ASSUME TrustInv, NEW r \in Runs, NEW v \in Versions, Evaluated(r, v),
         Effective(Latest(r, v)) \in Usable
  PROVE  Cleared(r, v)
<1> DEFINE s == evaluations[r][v]
<1>1. s \in Seq(Row) /\ s # <<>>
  BY DEF Evaluated, TrustInv, TrustTypeOK
<1>2. Len(s) \in DOMAIN s
  BY <1>1
<1>3. Latest(r, v) = s[Len(s)] /\ s[Len(s)].base = Disposition(v)
  BY <1>2 DEF Latest, TrustInv, RowsFollowPolicy
<1>4. CASE InForce(Latest(r, v))
  BY <1>2, <1>3, <1>4 DEF InForce, Cleared
<1>5. CASE ~InForce(Latest(r, v))
  BY <1>3, <1>5 DEF Effective, Cleared
<1> QED
  BY <1>4, <1>5

-----------------------------------------------------------------------------
(* The tables.                                                              *)

\* How one row of the sources may change: what is selected stays so, and what
\* has a version keeps having one.
RowGrows(row, new) ==
  /\ new \in SourceRow /\ RowOK(new)
  /\ new.status = "absent" <=> row.status = "absent"
  /\ row.version \in Versions => new.version \in Versions

\* A row that is replaced, of the execution its process works on.
LEMMA RowReplaced ==
  ASSUME RecordsOK, NEW x \in Executions, NEW u \in Sources, NEW new,
         src' = [src EXCEPT ![x][u] = new]
  PROVE  \A y \in Executions, w \in Sources :
           src'[y][w] = IF y = x /\ w = u THEN new ELSE src[y][w]
BY DEF RecordsOK

\* An execution's record that is replaced.
LEMMA ExecReplaced ==
  ASSUME RecordsOK, NEW x \in Executions, NEW new, exec' = [exec EXCEPT ![x] = new]
  PROVE  \A y \in Executions : exec'[y] = IF y = x THEN new ELSE exec[y]
BY DEF RecordsOK

\* The new record of an execution that has changed its status.
LEMMA StatusRow ==
  ASSUME RecordsOK, NEW x \in Executions, NEW status
  PROVE  LET new == [exec[x] EXCEPT !.status = status]
         IN /\ new.status = status /\ new.run = exec[x].run /\ new.route = exec[x].route
            /\ new.attempt = exec[x].attempt /\ new.requested = exec[x].requested
            /\ status \in InProgress \cup {"completed", "failed"} => new \in ExecRow
<1>1. exec[x] \in ExecRow
  BY DEF RecordsOK
<1> QED
  BY <1>1 DEF ExecRow, InProgress

\* An execution turns to another status, the others stay.
TurnsTo(x, status) ==
  /\ exec' \in [Executions -> ExecRow]
  /\ \A y \in Executions : y # x => exec'[y] = exec[y]
  /\ exec'[x].status = status /\ exec'[x].run = exec[x].run

\* The steps that change an execution change one, to the status they name.
LEMMA ExecMoves ==
  ASSUME TaskInv, NEW p \in Procs, NEW x, x = job[p].x
  PROVE  /\ Settle(p) \/ SetExecutionRoute(p) =>
              /\ TurnsTo(x, "awaiting_execution")
              /\ exec'[x].requested = exec[x].requested /\ exec'[x].attempt = exec[x].attempt
         /\ FailExecution(p) =>
              /\ TurnsTo(x, "failed")
              /\ exec'[x].requested = exec[x].requested /\ exec'[x].attempt = exec[x].attempt
         /\ MarkSummarizing(p) =>
              /\ TurnsTo(x, "summarizing")
              /\ exec'[x].requested = exec[x].requested /\ exec'[x].attempt = exec[x].attempt
         /\ CompleteExecution(p) =>
              /\ TurnsTo(x, "completed")
              /\ exec'[x].requested = FALSE /\ exec'[x].attempt = exec[x].attempt
         /\ BeginRegeneration(p) =>
              /\ TurnsTo(x, "extracting")
              /\ exec'[x].requested = TRUE /\ exec'[x].attempt = exec[x].attempt + 1
<1>0. exec \in [Executions -> ExecRow]
  BY DEF TaskInv, RecordsOK
<1>1. ASSUME x \in Executions, NEW new \in ExecRow, new.run = exec[x].run,
             exec' = [exec EXCEPT ![x] = new]
      PROVE  TurnsTo(x, new.status) /\ exec'[x] = new
  BY <1>0, <1>1 DEF TurnsTo
<1>2. ASSUME job[p].at # "idle" PROVE x \in Executions
  BY <1>2 DEF TaskInv, TaskOK, Known
<1>3. ASSUME Settle(p) \/ SetExecutionRoute(p)
      PROVE  /\ TurnsTo(x, "awaiting_execution")
             /\ exec'[x].requested = exec[x].requested /\ exec'[x].attempt = exec[x].attempt
  <2>1. x \in Executions
    BY <1>2, <1>3 DEF Settle, SetExecutionRoute, At
  <2>2. PICK route \in {"direct", "durable"} :
          exec' = [exec EXCEPT ![x].status = "awaiting_execution", ![x].route = route]
    BY <1>3 DEF Settle, SetExecutionRoute, Route
  <2> DEFINE new == [exec[x] EXCEPT !.status = "awaiting_execution", !.route = route]
  <2>3. /\ new \in ExecRow /\ new.run = exec[x].run /\ new.status = "awaiting_execution"
        /\ new.requested = exec[x].requested /\ new.attempt = exec[x].attempt
    <3>1. exec[x] \in ExecRow
      BY <1>0, <2>1
    <3>2. /\ new.run = exec[x].run /\ new.status = "awaiting_execution"
          /\ new.requested = exec[x].requested /\ new.attempt = exec[x].attempt
      BY <3>1 DEF ExecRow
    <3>3. new \in ExecRow
      BY <3>1, <2>2 DEF ExecRow
    <3> QED
      BY <3>2, <3>3
  <2>4. exec' = [exec EXCEPT ![x] = new]
    BY <1>0, <2>1, <2>2
  <2> HIDE DEF new
  <2> QED
    BY <1>1, <2>1, <2>3, <2>4
<1>4. ASSUME NEW status \in {"failed", "summarizing"}, SetStatus(x, status), job[p].at # "idle"
      PROVE  /\ TurnsTo(x, status)
             /\ exec'[x].requested = exec[x].requested /\ exec'[x].attempt = exec[x].attempt
  <2>1. x \in Executions
    BY <1>2, <1>4
  <2> DEFINE new == [exec[x] EXCEPT !.status = status]
  <2>2. /\ new \in ExecRow /\ new.run = exec[x].run /\ new.status = status
        /\ new.requested = exec[x].requested /\ new.attempt = exec[x].attempt
    BY <1>0, <2>1 DEF ExecRow
  <2>3. exec' = [exec EXCEPT ![x] = new]
    BY <1>0, <1>4, <2>1 DEF SetStatus
  <2> HIDE DEF new
  <2> QED
    BY <1>1, <2>1, <2>2, <2>3
<1>5. ASSUME CompleteExecution(p)
      PROVE  /\ TurnsTo(x, "completed")
             /\ exec'[x].requested = FALSE /\ exec'[x].attempt = exec[x].attempt
  <2>1. x \in Executions
    BY <1>2, <1>5 DEF CompleteExecution, At
  <2> DEFINE new == [exec[x] EXCEPT !.status = "completed", !.requested = FALSE]
  <2>2. /\ new \in ExecRow /\ new.run = exec[x].run /\ new.status = "completed"
        /\ new.requested = FALSE /\ new.attempt = exec[x].attempt
    <3>1. exec[x] \in ExecRow
      BY <1>0, <2>1
    <3>2. /\ new.run = exec[x].run /\ new.status = "completed"
          /\ new.requested = FALSE /\ new.attempt = exec[x].attempt
      BY <3>1 DEF ExecRow
    <3>3. new \in ExecRow
      BY <3>1 DEF ExecRow
    <3> QED
      BY <3>2, <3>3
  <2>3. exec' = [exec EXCEPT ![x] = new]
    BY <1>0, <1>5, <2>1 DEF CompleteExecution
  <2> HIDE DEF new
  <2> QED
    BY <1>1, <2>1, <2>2, <2>3
<1>6. ASSUME BeginRegeneration(p)
      PROVE  /\ TurnsTo(x, "extracting")
             /\ exec'[x].requested = TRUE /\ exec'[x].attempt = exec[x].attempt + 1
  <2>1. x \in Executions
    BY <1>2, <1>6 DEF BeginRegeneration, At
  <2> DEFINE old == exec[x]
             new == [old EXCEPT !.status = "extracting", !.route = "undetermined",
                                !.attempt = old.attempt + 1, !.requested = TRUE]
  <2>2. /\ new \in ExecRow /\ new.run = old.run /\ new.status = "extracting"
        /\ new.requested = TRUE /\ new.attempt = old.attempt + 1
    <3>1. old \in ExecRow
      BY <1>0, <2>1
    <3> HIDE DEF old
    <3>2. old.attempt + 1 \in Nat
      BY <3>1 DEF ExecRow
    <3> QED
      BY <3>1, <3>2 DEF ExecRow
  <2>3. exec' = [exec EXCEPT ![x] = new]
    BY <1>0, <1>6, <2>1 DEF BeginRegeneration
  <2> HIDE DEF new
  <2> QED
    BY <1>1, <2>1, <2>2, <2>3
<1> QED
  BY <1>3, <1>4, <1>5, <1>6 DEF FailExecution, MarkSummarizing, At

\* One source of an execution gets another row, the others stay.
OnlyRow(x, u, new) ==
  /\ src' \in [Executions -> [Sources -> SourceRow]]
  /\ x \in Executions /\ u \in Sources
  /\ \A y \in Executions, w \in Sources :
       src'[y][w] = IF y = x /\ w = u THEN new ELSE src[y][w]

\* A row that is replaced by a row is the only one that changes.
LEMMA RowWritten ==
  ASSUME RecordsOK, NEW x \in Executions, NEW u \in Sources, NEW new \in SourceRow,
         src' = [src EXCEPT ![x][u] = new]
  PROVE  OnlyRow(x, u, new)
BY RowReplaced DEF OnlyRow, RecordsOK

\* A refused source keeps its version and its summary.
LEMMA FailureRow ==
  ASSUME TaskInv, NEW p \in Procs, RecordSourceFailure(p), NEW x, x = job[p].x
  PROVE  \E u \in Selected(x), new \in SourceRow :
           /\ u = job[p].url /\ u \in job[p].todo /\ OnlyRow(x, u, new)
           /\ new.status = "failed" /\ new.version = src[x][u].version
           /\ new.summary = src[x][u].summary
<1>1. job[p].at = "refuse" /\ RecordsOK
  BY DEF RecordSourceFailure, At, TaskInv
<1>2. PICK u : u = job[p].url
  OBVIOUS
<1>3. x \in Executions /\ u \in Selected(x) /\ u \in job[p].todo /\ u \in Sources
  BY <1>1, <1>2 DEF TaskInv, TaskOK, ChoosingOK, Choosing, Known, Selected
<1> DEFINE old == src[x][u]
           new == [old EXCEPT !.status = "failed"]
<1>4. /\ new \in SourceRow /\ new.status = "failed" /\ new.version = old.version
      /\ new.summary = old.summary
  <2>1. old \in SourceRow
    BY <1>1, <1>3 DEF RecordsOK
  <2> HIDE DEF old
  <2> QED
    BY <2>1 DEF SourceRow
<1>5. src' = [src EXCEPT ![x][u] = new]
  BY <1>1, <1>2, <1>3 DEF RecordSourceFailure, RecordsOK
<1> HIDE DEF new
<1> QED
  BY <1>1, <1>2, <1>3, <1>4, <1>5, RowWritten

\* A source taken over gets the text of an artifact for the version looked at.
LEMMA ReuseRow ==
  ASSUME TaskInv, NEW p \in Procs, ReuseMatchingArtifact(p), NEW x, x = job[p].x
  PROVE  \E u \in Selected(x), v \in Versions, text \in Versions, new \in SourceRow :
           /\ u = job[p].url /\ u \in job[p].todo /\ v = job[p].version
           /\ text \in Reusable(u, v) /\ OnlyRow(x, u, new)
           /\ new.status = "completed" /\ new.version = v /\ new.summary = text
           /\ artifacts' = IF Matching(u, v) # {} THEN artifacts ELSE artifacts \cup
                {[run |-> exec[x].run, url |-> u, version |-> v, text |-> text]}
<1>1. job[p].at = "admit" /\ RecordsOK
  BY DEF ReuseMatchingArtifact, At, TaskInv
<1>2. PICK u, v : u = job[p].url /\ v = job[p].version
  OBVIOUS
<1>3. /\ x \in Executions /\ u \in Selected(x) /\ u \in job[p].todo /\ u \in Sources
      /\ v \in Versions
  BY <1>1, <1>2 DEF TaskInv, TaskOK, ChoosingOK, Choosing, Known, Selected
<1>4. PICK text \in Reusable(u, v) :
        /\ SetSource(x, u, [status |-> "completed", version |-> v, summary |-> text])
        /\ artifacts' = IF Matching(u, v) # {} THEN artifacts ELSE artifacts \cup
             {[run |-> exec[x].run, url |-> u, version |-> v, text |-> text]}
  BY <1>2 DEF ReuseMatchingArtifact
<1>5. text \in Versions
  <2>1. CASE Matching(u, v) # {}
    BY <1>1, <1>4, <2>1 DEF Reusable, Matching, RecordsOK
  <2>2. CASE Matching(u, v) = {}
    <3>1. PICK y \in Executions : text = src[y][u].summary /\ src[y][u].summary # "none"
      BY <1>4, <2>2 DEF Reusable, Prior
    <3> QED
      BY <1>1, <1>3, <3>1 DEF RecordsOK, SourceRow
  <2> QED
    BY <2>1, <2>2
<1> DEFINE new == [status |-> "completed", version |-> v, summary |-> text]
<1>6. new \in SourceRow /\ new.status = "completed" /\ new.version = v /\ new.summary = text
  BY <1>3, <1>5 DEF SourceRow
<1>7. OnlyRow(x, u, new)
  BY <1>1, <1>3, <1>4, <1>6, RowWritten DEF SetSource
<1> HIDE DEF new
<1> QED
  BY <1>2, <1>3, <1>4, <1>5, <1>6, <1>7

\* The version of an input is one that was chosen for its source.
LEMMA InputType ==
  ASSUME NEW p \in Procs, InputsOK(p), NEW u \in InputUrls(p)
  PROVE  /\ u \in Selected(job[p].x) /\ Input(p, u) \in Versions
         /\ Cleared(exec[job[p].x].run, Input(p, u))
<1> DEFINE i == CHOOSE i \in job[p].inputs : i.url = u
<1>1. i \in job[p].inputs /\ i.url = u
  BY DEF InputUrls
<1>2. Input(p, u) = i.version
  BY DEF Input
<1> HIDE DEF i
<1>3. i.url \in Selected(job[p].x) /\ i.version \in Versions
  BY <1>1 DEF InputsOK
<1>4. Cleared(exec[job[p].x].run, i.version)
  BY <1>1 DEF InputsOK
<1> QED
  BY <1>1, <1>2, <1>3, <1>4

\* An extracted source gets the version of its input.
LEMMA ExtractedRow ==
  ASSUME TaskInv, NEW p \in Procs, NEW u \in job[p].todo, RecordSourceExtracted(p, u),
         NEW x, x = job[p].x
  PROVE  \E new \in SourceRow :
           /\ u \in Selected(x) /\ u \in InputUrls(p) /\ OnlyRow(x, u, new)
           /\ new.status = "extracted" /\ new.version = Input(p, u)
           /\ new.version \in Versions /\ new.summary = src[x][u].summary
<1>1. job[p].at = "extracted" /\ RecordsOK
  BY DEF RecordSourceExtracted, At, TaskInv
<1>2. /\ x \in Executions /\ InputsOK(p) /\ u \in InputUrls(p)
  BY <1>1 DEF TaskInv, TaskOK, RecordedOK, Known
<1>3. u \in Selected(x) /\ u \in Sources /\ Input(p, u) \in Versions
  BY <1>2, InputType DEF Selected
<1> DEFINE old == src[x][u]
           v == Input(p, u)
           new == [old EXCEPT !.status = "extracted", !.version = v]
<1>4. /\ new \in SourceRow /\ new.status = "extracted" /\ new.version = v
      /\ new.summary = old.summary
  <2>1. old \in SourceRow /\ v \in Versions
    BY <1>1, <1>2, <1>3 DEF RecordsOK
  <2> HIDE DEF old, v
  <2> QED
    BY <2>1 DEF SourceRow
<1>5. src' = [src EXCEPT ![x][u] = new]
  BY <1>1, <1>2, <1>3 DEF RecordSourceExtracted, SetSource, Extracted, RecordsOK
<1> HIDE DEF new
<1> QED
  BY <1>1, <1>2, <1>3, <1>4, <1>5, RowWritten

\* A summary is filed under the version that was read after the model answered.
LEMMA SummaryRow ==
  ASSUME TaskInv, NEW p \in Procs, RecordSourceSummary(p), NEW x, x = job[p].x
  PROVE  \E u \in Selected(x), new \in SourceRow :
           /\ u = job[p].url /\ u \in job[p].todo /\ u \in InputUrls(p) /\ OnlyRow(x, u, new)
           /\ new.status = "completed" /\ new.version = src[x][u].version
           /\ new.summary = job[p].version /\ job[p].version = Input(p, u)
           /\ job[p].version \in Versions /\ job[p].held[u] \in Versions
           /\ artifacts' = Others(exec[x].run, u, job[p].held[u]) \cup
                {[run |-> exec[x].run, url |-> u, version |-> job[p].held[u],
                  text |-> job[p].version]}
<1>1. job[p].at = "store" /\ RecordsOK
  BY DEF RecordSourceSummary, At, TaskInv
<1>2. PICK u : u = job[p].url
  OBVIOUS
<1>3. /\ x \in Executions /\ InputsOK(p) /\ u \in job[p].todo /\ u \in InputUrls(p)
      /\ job[p].version = Input(p, u) /\ job[p].held[u] \in Versions
  BY <1>1, <1>2 DEF TaskInv, TaskOK, RecordedOK, CallingOK, Calling, Known
<1>4. u \in Selected(x) /\ u \in Sources /\ Input(p, u) \in Versions
  BY <1>3, InputType DEF Selected
<1> DEFINE old == src[x][u]
           v == job[p].version
           new == [old EXCEPT !.status = "completed", !.summary = v]
<1>5. /\ new \in SourceRow /\ new.status = "completed" /\ new.version = old.version
      /\ new.summary = v
  <2>1. old \in SourceRow /\ v \in Versions
    BY <1>1, <1>3, <1>4 DEF RecordsOK
  <2> HIDE DEF old, v
  <2> QED
    BY <2>1 DEF SourceRow
<1>6. src' = [src EXCEPT ![x][u] = new]
  BY <1>1, <1>2, <1>3, <1>4 DEF RecordSourceSummary, RecordsOK
<1>7. artifacts' = Others(exec[x].run, u, job[p].held[u]) \cup
        {[run |-> exec[x].run, url |-> u, version |-> job[p].held[u], text |-> job[p].version]}
  BY <1>2 DEF RecordSourceSummary
<1> HIDE DEF new
<1> QED
  BY <1>1, <1>2, <1>3, <1>4, <1>5, <1>6, <1>7, RowWritten

\* A regeneration takes every selected source back to what was extracted.
BeginsAgain(x) ==
  /\ x \in Executions /\ src' \in [Executions -> [Sources -> SourceRow]]
  /\ \A y \in Executions : y # x => src'[y] = src[y]
  /\ \A u \in Selected(x) : /\ src'[x][u].status = "extracted"
                            /\ src'[x][u].summary = "none"
                            /\ src'[x][u].version = src[x][u].version
  /\ \A u \in Sources \ Selected(x) : src'[x][u] = src[x][u]

\* A regeneration empties the summaries of the selected sources.
LEMMA BeginRows ==
  ASSUME TaskInv, NEW p \in Procs, BeginRegeneration(p), NEW x, x = job[p].x
  PROVE  BeginsAgain(x)
<1>1. job[p].at = "begin" /\ RecordsOK
  BY DEF BeginRegeneration, At, TaskInv
<1>2. x \in Executions /\ src \in [Executions -> [Sources -> SourceRow]]
  BY <1>1 DEF TaskInv, TaskOK, Known, RecordsOK
<1> DEFINE old == src[x]
           new == [u \in Sources |-> IF u \in Selected(x)
                     THEN [old[u] EXCEPT !.status = "extracted", !.summary = "none"]
                     ELSE old[u]]
<1>3. src' = [src EXCEPT ![x] = new]
  BY <1>2 DEF BeginRegeneration
<1>4. old \in [Sources -> SourceRow] /\ Selected(x) \subseteq Sources
  BY <1>2 DEF Selected
<1> HIDE DEF old
<1>5. ASSUME NEW u \in Selected(x)
      PROVE  /\ new[u] \in SourceRow /\ new[u].status = "extracted"
             /\ new[u].summary = "none" /\ new[u].version = old[u].version
  <2>1. new[u] = [old[u] EXCEPT !.status = "extracted", !.summary = "none"]
    BY <1>4
  <2>2. old[u] \in SourceRow
    BY <1>4
  <2> HIDE DEF new
  <2> QED
    BY <2>1, <2>2 DEF SourceRow
<1>6. \A u \in Sources \ Selected(x) : new[u] = old[u] /\ new[u] \in SourceRow
  BY <1>4
<1>7. new \in [Sources -> SourceRow]
  <2>1. DOMAIN new = Sources /\ new = [u \in Sources |-> new[u]]
    OBVIOUS
  <2>2. \A u \in Sources : new[u] \in SourceRow
    BY <1>5, <1>6
  <2> HIDE DEF new
  <2> QED
    BY <2>1, <2>2
<1> HIDE DEF new
<1>8. old = src[x]
  BY DEF old
<1> QED
  BY <1>2, <1>3, <1>5, <1>6, <1>7, <1>8 DEF BeginsAgain

\* A new execution has sources that wait, and nothing else.
Created(x, r) ==
  /\ src' \in [Executions -> [Sources -> SourceRow]]
  /\ exec' \in [Executions -> ExecRow]
  /\ \A y \in Executions : y # x => src'[y] = src[y] /\ exec'[y] = exec[y]
  /\ \A u \in Sources : /\ src'[x][u].status \in {"absent", "pending"}
                        /\ src'[x][u].summary = "none"
  /\ exec'[x].status = "extracting" /\ exec'[x].run = r
  /\ exec'[x].attempt = 0 /\ exec'[x].requested = FALSE

\* A new execution has the chosen sources, all without summary.
LEMMA CreateRows ==
  ASSUME TaskInv, NEW p \in Procs, NEW x \in Executions, NEW r \in Runs,
         NEW urls \in SUBSET Sources, CreateExecution(p, x, r, urls)
  PROVE  Created(x, r)
<1>1. /\ src \in [Executions -> [Sources -> SourceRow]] /\ exec \in [Executions -> ExecRow]
  BY DEF TaskInv, RecordsOK
<1> DEFINE waiting == [NoSource EXCEPT !.status = "pending"]
           new == [u \in Sources |-> IF u \in urls THEN waiting ELSE NoSource]
           row == [NoExecution EXCEPT !.status = "extracting", !.run = r]
<1>2. src' = [src EXCEPT ![x] = new] /\ exec' = [exec EXCEPT ![x] = row]
  BY DEF CreateExecution
<1>3. /\ waiting \in SourceRow /\ waiting.status = "pending" /\ waiting.summary = "none"
      /\ NoSource \in SourceRow /\ NoSource.status = "absent" /\ NoSource.summary = "none"
  BY DEF NoSource, SourceRow
<1>4. /\ row \in ExecRow /\ row.status = "extracting" /\ row.run = r
      /\ row.attempt = 0 /\ row.requested = FALSE
  BY DEF NoExecution, ExecRow
<1> HIDE DEF row, waiting
<1>5. /\ new \in [Sources -> SourceRow]
      /\ \A u \in Sources : /\ new[u].status \in {"absent", "pending"}
                            /\ new[u].summary = "none"
  BY <1>3
<1> HIDE DEF new
<1> QED
  BY <1>1, <1>2, <1>4, <1>5 DEF Created

\* What every step leaves of the tables, whoever takes it: a known execution
\* stays known, of its run, with its sources, and what has a version keeps
\* having one.
ExecGrows ==
  /\ exec' \in [Executions -> ExecRow]
  /\ \A y \in Executions :
       /\ exec[y].status # "absent" => exec'[y].status # "absent" /\ exec'[y].run = exec[y].run
       /\ exec'[y].status # "absent" => exec'[y].run \in Runs

SrcGrows ==
  /\ src' \in [Executions -> [Sources -> SourceRow]]
  /\ \A y \in Executions, u \in Sources :
       /\ RowOK(src'[y][u])
       /\ exec[y].status # "absent" => RowGrows(src[y][u], src'[y][u])

\* A known execution that changes its status keeps its run.
LEMMA ExecTurns ==
  ASSUME TaskInv, NEW x, Known(x), NEW status, status # "absent", TurnsTo(x, status)
  PROVE  ExecGrows
BY DEF TaskInv, RecordsOK, Known, TurnsTo, ExecGrows

\* No step takes an execution's run away, or makes its record ill-formed.
LEMMA ExecStep ==
  ASSUME TaskInv, [SummaryNext]_summaryVars
  PROVE  ExecGrows
<1>1. CASE UNCHANGED exec
  BY <1>1 DEF ExecGrows, TaskInv, RecordsOK
<1>2. ASSUME NEW p \in Procs, Settle(p) \/ SetExecutionRoute(p) \/ FailExecution(p)
                  \/ MarkSummarizing(p) \/ CompleteExecution(p) \/ BeginRegeneration(p)
      PROVE  ExecGrows
  <2>1. job[p].at # "idle"
    BY <1>2 DEF Settle, SetExecutionRoute, FailExecution, MarkSummarizing, CompleteExecution,
       BeginRegeneration, At
  <2>2. Known(job[p].x)
    BY <2>1 DEF TaskInv, TaskOK
  <2>3. PICK x : x = job[p].x
    OBVIOUS
  <2>4. \E status \in {"awaiting_execution", "failed", "summarizing", "completed", "extracting"} :
          TurnsTo(x, status)
    BY <1>2, <2>3, ExecMoves
  <2> QED
    BY <2>2, <2>3, <2>4, ExecTurns
<1>3. ASSUME NEW p \in Procs, NEW x \in Executions, NEW r \in Runs,
             NEW urls \in SUBSET Sources, CreateExecution(p, x, r, urls)
      PROVE  ExecGrows
  <2>1. exec[x].status = "absent"
    BY <1>3 DEF CreateExecution
  <2>2. Created(x, r)
    BY <1>3, CreateRows
  <2> QED
    BY <2>1, <2>2 DEF Created, ExecGrows, TaskInv, RecordsOK
<1>4. ASSUME NEW p \in Procs, Proceed(p) PROVE ExecGrows
  <2>1. \/ UNCHANGED exec
        \/ Settle(p) \/ SetExecutionRoute(p) \/ FailExecution(p)
        \/ MarkSummarizing(p) \/ CompleteExecution(p) \/ BeginRegeneration(p)
    BY <1>4 DEF Proceed, rows, Load, SkipUnavailable, LookForEvaluation, RecordSourceExtracted,
       Summarize, Evaluate, RecordSourceFailure, ReuseMatchingArtifact, AddInput, KeepDone,
       NothingToSummarize, StartExtracted, Schedule, Enter, ReadVersion, RecordSourceSummary
  <2> QED
    BY <1>1, <1>2, <2>1
<1>5. ASSUME \/ UNCHANGED summaryVars \/ Rest \/ Deadline
             \/ \E v \in Versions :
                  Recapture(v) \/ \E r \in Runs, kind \in {"permanent", "expiring"} : Accept(r, v, kind)
             \/ \E p \in Procs :
                  Poll(p) \/ Crash(p) \/ \E x \in Executions : Regenerate(p, x)
      PROVE  UNCHANGED exec
  BY <1>5 DEF summaryVars, rows, Rest, Deadline, Recapture, Accept, Poll, Crash, Regenerate
<1> QED
  BY <1>1, <1>3, <1>4, <1>5 DEF SummaryNext

\* A well-formed row in the place of a selected one keeps the tables in order.
LEMMA SrcReplaced ==
  ASSUME TaskInv, NEW x, Known(x), NEW u \in Selected(x), NEW new \in SourceRow,
         OnlyRow(x, u, new), RowOK(new), new.status # "absent",
         src[x][u].version \in Versions => new.version \in Versions
  PROVE  SrcGrows
<1>1. \A y \in Executions, w \in Sources : src[y][w] \in SourceRow /\ RowOK(src[y][w])
  BY DEF TaskInv, RecordsOK
<1>2. src[x][u].status # "absent"
  BY DEF Selected
<1> QED
  BY <1>1, <1>2 DEF OnlyRow, SrcGrows, RowGrows

\* No step deselects a source, takes its version, or makes its row ill-formed.
LEMMA SrcStep ==
  ASSUME TaskInv, [SummaryNext]_summaryVars
  PROVE  SrcGrows
<1>0. \A y \in Executions, w \in Sources : src[y][w] \in SourceRow /\ RowOK(src[y][w])
  BY DEF TaskInv, RecordsOK
<1>1. CASE UNCHANGED src
  BY <1>0, <1>1 DEF SrcGrows, RowGrows, TaskInv, RecordsOK
<1>2. ASSUME NEW p \in Procs, NEW u \in job[p].todo, RecordSourceExtracted(p, u) PROVE SrcGrows
  <2>1. PICK x : x = job[p].x
    OBVIOUS
  <2>2. Known(x)
    BY <1>2, <2>1 DEF RecordSourceExtracted, At, TaskInv, TaskOK
  <2>3. PICK new \in SourceRow :
           /\ u \in Selected(x) /\ OnlyRow(x, u, new)
           /\ new.status = "extracted" /\ new.version \in Versions
    BY <1>2, <2>1, ExtractedRow
  <2> QED
    BY <2>2, <2>3, SrcReplaced DEF RowOK
<1>3. ASSUME NEW p \in Procs, RecordSourceFailure(p) PROVE SrcGrows
  <2>1. PICK x : x = job[p].x
    OBVIOUS
  <2>2. Known(x)
    BY <1>3, <2>1 DEF RecordSourceFailure, At, TaskInv, TaskOK
  <2>3. PICK u \in Selected(x), new \in SourceRow :
           /\ OnlyRow(x, u, new)
           /\ new.status = "failed" /\ new.version = src[x][u].version
    BY <1>3, <2>1, FailureRow
  <2> QED
    BY <2>2, <2>3, SrcReplaced DEF RowOK
<1>4. ASSUME NEW p \in Procs, ReuseMatchingArtifact(p) PROVE SrcGrows
  <2>1. PICK x : x = job[p].x
    OBVIOUS
  <2>2. Known(x)
    BY <1>4, <2>1 DEF ReuseMatchingArtifact, At, TaskInv, TaskOK
  <2>3. PICK u \in Selected(x), v \in Versions, text \in Versions, new \in SourceRow :
           /\ OnlyRow(x, u, new)
           /\ new.status = "completed" /\ new.version = v /\ new.summary = text
    BY <1>4, <2>1, ReuseRow
  <2> QED
    BY <2>2, <2>3, SrcReplaced DEF RowOK
<1>5. ASSUME NEW p \in Procs, RecordSourceSummary(p) PROVE SrcGrows
  <2>1. PICK x : x = job[p].x
    OBVIOUS
  <2>2. Known(x)
    BY <1>5, <2>1 DEF RecordSourceSummary, At, TaskInv, TaskOK
  <2>3. PICK u \in Selected(x), new \in SourceRow :
           /\ OnlyRow(x, u, new)
           /\ new.status = "completed" /\ new.version = src[x][u].version
           /\ new.summary \in Versions
    BY <1>5, <2>1, SummaryRow
  <2> QED
    BY <2>2, <2>3, SrcReplaced DEF RowOK
<1>6. ASSUME NEW p \in Procs, BeginRegeneration(p) PROVE SrcGrows
  <2>1. PICK x : x = job[p].x
    OBVIOUS
  <2>2. BeginsAgain(x)
    BY <1>6, <2>1, BeginRows
  <2>3. ASSUME NEW y \in Executions, NEW u \in Sources
        PROVE  RowOK(src'[y][u]) /\ RowGrows(src[y][u], src'[y][u])
    <3>1. CASE y # x \/ u \notin Selected(x)
      BY <1>0, <2>2, <3>1 DEF RowGrows, BeginsAgain
    <3>2. CASE y = x /\ u \in Selected(x)
      <4>1. src'[y][u] \in SourceRow /\ src[y][u].status # "absent"
        BY <2>2, <3>2 DEF Selected, BeginsAgain
      <4> QED
        BY <2>2, <3>2, <4>1 DEF RowGrows, RowOK, BeginsAgain
    <3> QED
      BY <3>1, <3>2
  <2> QED
    BY <2>2, <2>3 DEF SrcGrows, BeginsAgain
<1>7. ASSUME NEW p \in Procs, NEW x \in Executions, NEW r \in Runs,
             NEW urls \in SUBSET Sources, CreateExecution(p, x, r, urls)
      PROVE  SrcGrows
  <2>1. exec[x].status = "absent"
    BY <1>7 DEF CreateExecution
  <2>2. Created(x, r)
    BY <1>7, CreateRows
  <2> QED
    BY <1>0, <2>1, <2>2 DEF SrcGrows, RowGrows, RowOK, Created
<1>8. ASSUME NEW p \in Procs, Proceed(p) PROVE SrcGrows
  <2>1. \/ UNCHANGED src
        \/ \E u \in job[p].todo : RecordSourceExtracted(p, u)
        \/ RecordSourceFailure(p) \/ ReuseMatchingArtifact(p) \/ RecordSourceSummary(p)
        \/ BeginRegeneration(p)
    BY <1>8 DEF Proceed, rows, Load, SkipUnavailable, LookForEvaluation,
       Summarize, Evaluate, AddInput, KeepDone, Settle, SetExecutionRoute, FailExecution,
       MarkSummarizing, CompleteExecution,
       NothingToSummarize, StartExtracted, Schedule, Enter, ReadVersion
  <2> QED
    BY <1>1, <1>2, <1>3, <1>4, <1>5, <1>6, <2>1
<1>9. ASSUME \/ UNCHANGED summaryVars \/ Rest \/ Deadline
             \/ \E v \in Versions :
                  Recapture(v) \/ \E r \in Runs, kind \in {"permanent", "expiring"} : Accept(r, v, kind)
             \/ \E p \in Procs :
                  Poll(p) \/ Crash(p) \/ \E x \in Executions : Regenerate(p, x)
      PROVE  UNCHANGED src
  BY <1>9 DEF summaryVars, rows, Rest, Deadline, Recapture, Accept, Poll, Crash, Regenerate
<1> QED
  BY <1>1, <1>7, <1>8, <1>9 DEF SummaryNext

\* The tables keep their shape, and every task is one of a known execution.
LEMMA RecordsStep ==
  ASSUME TaskInv, [SummaryNext]_summaryVars
  PROVE  RecordsOK'
<1>1. ExecGrows /\ SrcGrows /\ RecordsOK
  BY ExecStep, SrcStep DEF TaskInv
<1>2. artifacts' \subseteq [run : Runs, url : Sources, version : Versions, text : Versions]
  <2> DEFINE Artifact == [run : Runs, url : Sources, version : Versions, text : Versions]
  <2>1. artifacts \subseteq Artifact
    BY <1>1 DEF RecordsOK
  <2>2. ASSUME NEW p \in Procs, ReuseMatchingArtifact(p) PROVE artifacts' \subseteq Artifact
    <3>1. PICK x : x = job[p].x
      OBVIOUS
    <3>2. exec[x].run \in Runs
      BY <2>2, <3>1 DEF ReuseMatchingArtifact, At, TaskInv, TaskOK, Known
    <3>3. PICK u \in Selected(x), v \in Versions, text \in Versions :
            artifacts' = IF Matching(u, v) # {} THEN artifacts ELSE artifacts \cup
              {[run |-> exec[x].run, url |-> u, version |-> v, text |-> text]}
      BY <2>2, <3>1, ReuseRow
    <3> QED
      BY <2>1, <3>2, <3>3 DEF Selected
  <2>3. ASSUME NEW p \in Procs, RecordSourceSummary(p) PROVE artifacts' \subseteq Artifact
    <3>1. PICK x : x = job[p].x
      OBVIOUS
    <3>2. exec[x].run \in Runs
      BY <2>3, <3>1 DEF RecordSourceSummary, At, TaskInv, TaskOK, Known
    <3>3. PICK u \in Selected(x) :
            /\ job[p].version \in Versions /\ job[p].held[u] \in Versions
            /\ artifacts' = Others(exec[x].run, u, job[p].held[u]) \cup
                {[run |-> exec[x].run, url |-> u, version |-> job[p].held[u],
                  text |-> job[p].version]}
      BY <2>3, <3>1, SummaryRow
    <3> QED
      BY <2>1, <3>2, <3>3 DEF Selected, Others
  <2>4. \/ UNCHANGED artifacts
        \/ \E p \in Procs : ReuseMatchingArtifact(p) \/ RecordSourceSummary(p)
    <3>1. ASSUME NEW p \in Procs, Proceed(p)
          PROVE  UNCHANGED artifacts \/ ReuseMatchingArtifact(p) \/ RecordSourceSummary(p)
      BY <3>1 DEF Proceed, rows, Load, SkipUnavailable, LookForEvaluation, RecordSourceExtracted,
         Summarize, Evaluate, RecordSourceFailure, AddInput, KeepDone, Settle, SetExecutionRoute,
         FailExecution, MarkSummarizing, CompleteExecution, BeginRegeneration,
         NothingToSummarize, StartExtracted, Schedule, Enter, ReadVersion
    <3> QED
      BY <3>1 DEF SummaryNext, summaryVars, rows, Rest, Deadline, Recapture, Accept, Poll, Crash,
         Regenerate, CreateExecution
  <2> QED
    BY <2>1, <2>2, <2>3, <2>4
<1>3. latest' \in [Sources -> Versions \cup {"none"}]
  <2>1. latest \in [Sources -> Versions \cup {"none"}]
    BY <1>1 DEF RecordsOK
  <2>2. ASSUME NEW v \in Versions, Recapture(v)
        PROVE  latest' \in [Sources -> Versions \cup {"none"}]
    BY <2>1, <2>2 DEF Recapture
  <2>3. UNCHANGED latest \/ \E v \in Versions : Recapture(v)
    <3>1. ASSUME NEW p \in Procs, Proceed(p) PROVE UNCHANGED latest
      BY <3>1 DEF Proceed, Load, SkipUnavailable, LookForEvaluation, RecordSourceExtracted,
         Summarize, Evaluate, RecordSourceFailure, ReuseMatchingArtifact, AddInput, KeepDone,
         NothingToSummarize, Settle, StartExtracted, SetExecutionRoute, FailExecution, Schedule,
         Enter, MarkSummarizing, ReadVersion, RecordSourceSummary, CompleteExecution,
         BeginRegeneration
    <3> QED
      BY <3>1 DEF SummaryNext, summaryVars, Rest, Deadline, Accept, Poll, Crash,
         Regenerate, CreateExecution
  <2> QED
    BY <2>1, <2>2, <2>3
<1>4. \A task \in tasks' : Known(task.x)'
  <2>1. \A task \in tasks : Known(task.x)
    BY <1>1 DEF RecordsOK
  <2>2. \A y : Known(y) => Known(y)'
    BY <1>1 DEF Known, ExecGrows
  <2>3. ASSUME NEW p \in Procs, Schedule(p)
        PROVE  \A task \in tasks' : task \in tasks \/ Known(task.x)
    <3>1. Known(job[p].x)
      BY <2>3 DEF Schedule, At, TaskInv, TaskOK
    <3> QED
      BY <2>3, <3>1 DEF Schedule
  <2>4. tasks' \subseteq tasks \/ \E p \in Procs : Schedule(p)
    <3>1. ASSUME NEW p \in Procs, Proceed(p) PROVE UNCHANGED tasks \/ Schedule(p)
      BY <3>1 DEF Proceed, Load, SkipUnavailable, LookForEvaluation, RecordSourceExtracted,
         Summarize, Evaluate, RecordSourceFailure, ReuseMatchingArtifact, AddInput, KeepDone,
         NothingToSummarize, Settle, StartExtracted, SetExecutionRoute, FailExecution,
         Enter, MarkSummarizing, ReadVersion, RecordSourceSummary, CompleteExecution,
         BeginRegeneration
    <3>2. ASSUME NEW p \in Procs, Poll(p) PROVE tasks' \subseteq tasks
      BY <3>2 DEF Poll
    <3> QED
      BY <3>1, <3>2 DEF SummaryNext, summaryVars, Rest, Deadline, Accept, Recapture, Crash,
         Regenerate, CreateExecution
  <2> QED
    BY <2>1, <2>2, <2>3, <2>4
<1> QED
  BY <1>1, <1>2, <1>3, <1>4 DEF RecordsOK, ExecGrows, SrcGrows

\* What a process may rely on of an execution it knows.
LEMMA Lasts ==
  ASSUME TaskInv, [SummaryNext]_summaryVars, NEW x, Known(x)
  PROVE  /\ Known(x)' /\ Selected(x)' = Selected(x) /\ exec'[x].run = exec[x].run
         /\ \A v \in Versions : Cleared(exec[x].run, v) => Cleared(exec[x].run, v)'
         /\ \A u \in Sources : src[x][u].version \in Versions => src'[x][u].version \in Versions
<1>1. ExecGrows /\ SrcGrows
  BY ExecStep, SrcStep
<1>2. Known(x)' /\ exec'[x].run = exec[x].run /\ x \in Executions
  BY <1>1 DEF Known, ExecGrows
<1>3. \A u \in Sources : RowGrows(src[x][u], src'[x][u])
  BY <1>1 DEF Known, SrcGrows
<1>4. PICK r \in Runs : r = exec[x].run
  BY DEF Known
<1>5. \A v \in Versions : Cleared(r, v) => Cleared(r, v)'
  BY StepRefines, ClearedStays DEF TaskInv
<1>6. ASSUME NEW v \in Versions, Cleared(exec[x].run, v)
      PROVE  Cleared(exec[x].run, v)'
  <2>1. Cleared(r, v)'
    BY <1>4, <1>5, <1>6
  <2> QED
    BY <1>2, <1>4, <2>1
<1> QED
  BY <1>2, <1>3, <1>6 DEF RowGrows, Selected

\* What it was given to summarize stays cleared.
LEMMA InputsLast ==
  ASSUME TaskInv, [SummaryNext]_summaryVars, NEW p \in Procs, Known(job[p].x), InputsOK(p),
         job'[p].x = job[p].x, job'[p].inputs = job[p].inputs
  PROVE  /\ InputsOK(p)' /\ InputUrls(p)' = InputUrls(p)
         /\ \A u : Input(p, u)' = Input(p, u)
<1>1. PICK x : x = job[p].x
  OBVIOUS
<1>2. /\ Selected(x)' = Selected(x)
      /\ \A v \in Versions : Cleared(exec[x].run, v) => Cleared(exec[x].run, v)'
  BY <1>1, Lasts
<1>3. /\ \A i \in job[p].inputs : i.version \in Versions
      /\ \A i \in job[p].inputs : i.url \in Selected(x) /\ Cleared(exec[x].run, i.version)
  BY <1>1 DEF InputsOK
<1>4. \A i \in job'[p].inputs : i.url \in Selected(x)' /\ Cleared(exec[x].run, i.version)'
  BY <1>2, <1>3
<1>5. InputsOK(p)'
  BY <1>1, <1>4 DEF InputsOK
<1> QED
  BY <1>5 DEF InputUrls, Input

-----------------------------------------------------------------------------
(* Every step keeps what a process relies on.                               *)

\* What stays of a process that goes on with the same execution and inputs.
GoesOn(p) ==
  /\ Known(job[p].x)' /\ Selected(job[p].x)' = Selected(job[p].x)
  /\ InputsOK(p)' /\ InputUrls(p)' = InputUrls(p) /\ InputUrls(p) \subseteq Selected(job[p].x)
  /\ \A u : Input(p, u)' = Input(p, u)
  /\ \A u \in Sources : src[job[p].x][u].version \in Versions =>
                          src'[job[p].x][u].version \in Versions
  /\ \A v \in Versions : Cleared(exec[job[p].x].run, v) => Cleared(exec[job[p].x].run, v)'

\* What a process knows of its execution survives the steps of every process.
LEMMA GoingOn ==
  ASSUME TaskInv, [SummaryNext]_summaryVars, NEW p \in Procs, job[p].at # "idle",
         job'[p].x = job[p].x, job'[p].inputs = job[p].inputs
  PROVE  GoesOn(p)
<1>1. Known(job[p].x) /\ InputsOK(p)
  BY DEF TaskInv, TaskOK
<1>2. PICK x : x = job[p].x
  OBVIOUS
<1>3. /\ Known(x)' /\ Selected(x)' = Selected(x)
      /\ \A v \in Versions : Cleared(exec[x].run, v) => Cleared(exec[x].run, v)'
      /\ \A u \in Sources : src[x][u].version \in Versions => src'[x][u].version \in Versions
  BY <1>1, <1>2, Lasts
<1>4. /\ InputsOK(p)' /\ InputUrls(p)' = InputUrls(p)
      /\ \A u : Input(p, u)' = Input(p, u)
  BY <1>1, InputsLast
<1>5. InputUrls(p) \subseteq Selected(job[p].x)
  BY <1>1 DEF InputsOK, InputUrls
<1>6. job'[p].x = x
  BY <1>2
<1> QED
  BY <1>2, <1>3, <1>4, <1>5, <1>6 DEF GoesOn

\* A process that does not move keeps what it relies on.
LEMMA OthersKeep ==
  ASSUME TaskInv, [SummaryNext]_summaryVars, NEW q \in Procs, job'[q] = job[q]
  PROVE  TaskOK(q)'
<1>1. TaskOK(q)
  BY DEF TaskInv
<1>2. CASE job[q].at = "idle"
  BY <1>1, <1>2 DEF TaskOK, ModeOK, Choosing, Calling
<1>3. CASE job[q].at # "idle"
  <2>1. GoesOn(q)
    BY <1>3, GoingOn
  <2>2. ModeOK(q)'
    BY <1>1 DEF TaskOK, ModeOK
  <2>3. job[q].at \in Choosing => ChoosingOK(q)'
    BY <1>1, <2>1 DEF TaskOK, ChoosingOK, GoesOn
  <2>4. job[q].at \in Calling \cup {"extracted", "summarizing"} => RecordedOK(q)'
    BY <1>1, <2>1 DEF TaskOK, RecordedOK, GoesOn, Selected
  <2>5. job[q].at \in Calling => CallingOK(q)'
    BY <1>1, <2>1 DEF TaskOK, CallingOK, GoesOn
  <2> QED
    BY <1>1, <1>3, <2>1, <2>2, <2>3, <2>4, <2>5 DEF TaskOK, GoesOn
<1> QED
  BY <1>2, <1>3

\* A process that stops relies on nothing.
LEMMA IdleTask ==
  ASSUME NEW p \in Procs, job'[p].at = "idle", job'[p].inputs = {}
  PROVE  TaskOK(p)'
BY DEF TaskOK, ModeOK, Choosing, Calling

\* Among the sources it prepares, a process keeps what it found of the others.
LEMMA ChoosingNext ==
  ASSUME TaskInv, [SummaryNext]_summaryVars, NEW p \in Procs, job[p].at \in Choosing,
         job'[p].at = "next", Keeps(p), job'[p].todo \subseteq job[p].todo,
         job'[p].inputs = job[p].inputs
  PROVE  TaskOK(p)'
<1>1. TaskOK(p) /\ job[p].at # "idle"
  BY DEF TaskInv, Choosing
<1>2. GoesOn(p)
  BY <1>1, GoingOn DEF Keeps
<1>3. ModeOK(p)'
  BY <1>1 DEF TaskOK, ModeOK, Choosing, Calling, Working, Keeps
<1>4. ChoosingOK(p)'
  BY <1>1 DEF TaskOK, ChoosingOK, Keeps
<1>5. Known(job[p].x)' /\ job'[p].todo \subseteq Selected(job[p].x)' /\ InputsOK(p)'
  BY <1>1, <1>2 DEF TaskOK, GoesOn
<1>6. DOMAIN job'[p].held = Selected(job[p].x)'
  BY <1>1, <1>2 DEF TaskOK, GoesOn, Keeps
<1> QED
  BY <1>3, <1>4, <1>5, <1>6 DEF TaskOK, Choosing, Calling

\* Loading: the evidence held is a version of a selected source, or none.
LEMMA LoadTask ==
  ASSUME TaskInv, [SummaryNext]_summaryVars, NEW p \in Procs, Load(p)
  PROVE  TaskOK(p)'
<1>1. PICK x : x = job[p].x
  OBVIOUS
<1>2. /\ job[p].at = "load" /\ job'[p].at = "next" /\ job'[p].mode = job[p].mode
      /\ job'[p].x = x /\ job'[p].inputs = job[p].inputs /\ job'[p].todo = Selected(x)
      /\ job'[p].held = [u \in Selected(x) |-> EvidenceFor(u)]
  BY <1>1, LoadMoves DEF TaskInv
<1>3. TaskOK(p) /\ GoesOn(p)
  BY <1>1, <1>2, GoingOn DEF TaskInv
<1>4. ModeOK(p)'
  BY <1>2, <1>3 DEF TaskOK, ModeOK, Working, Choosing, Calling
<1>5. \A u \in Selected(x) : EvidenceFor(u) \in Versions \cup {"none"}
  BY SummaryAssumption DEF EvidenceFor, Selected, TaskInv, RecordsOK
<1>6. ChoosingOK(p)'
  BY <1>2, <1>5 DEF ChoosingOK
<1> QED
  BY <1>1, <1>2, <1>3, <1>4, <1>6 DEF TaskOK, GoesOn, Choosing, Calling

\* Looking: only what is usable leads to an admission, since it was cleared.
LEMMA LookTask ==
  ASSUME TaskInv, [SummaryNext]_summaryVars, NEW p \in Procs, NEW u \in job[p].todo,
         LookForEvaluation(p, u)
  PROVE  TaskOK(p)'
<1>1. PICK x, r, v : x = job[p].x /\ r = exec[x].run /\ v = job[p].held[u]
  OBVIOUS
<1>2. /\ Keeps(p) /\ job[p].at = "next" /\ v # "none"
      /\ job'[p].at = IF Evaluated(r, v) THEN Admission(Effective(Latest(r, v))) ELSE "record"
      /\ job'[p].todo = job[p].todo /\ job'[p].inputs = job[p].inputs
      /\ job'[p].url = u /\ job'[p].version = v
  BY <1>1, LookMoves DEF TaskInv
<1>3. TaskOK(p) /\ GoesOn(p)
  BY <1>2, GoingOn DEF TaskInv, Keeps
<1>4. v \in Versions /\ r \in Runs
  BY <1>1, <1>2, <1>3 DEF TaskOK, ChoosingOK, Choosing, Known
<1>5. job'[p].at \in {"record", "refuse", "admit"}
  BY <1>2 DEF Admission
<1>6. job'[p].at = "admit" => Cleared(r, v)
  BY <1>2, <1>4, UsableIsCleared DEF Admission, TaskInv
<1>7. job'[p].at = "admit" => Cleared(exec[job[p].x].run, job[p].version)'
  <2>1. job'[p].at = "admit" => Cleared(exec[x].run, v)'
    BY <1>1, <1>2, <1>3, <1>4, <1>6 DEF GoesOn, Keeps
  <2> QED
    BY <1>1, <1>2, <2>1 DEF Keeps
<1>8. ModeOK(p)'
  BY <1>2, <1>3, <1>5 DEF TaskOK, ModeOK, Working, Choosing, Calling, Keeps
<1>9. ChoosingOK(p)'
  BY <1>2, <1>3, <1>4, <1>7 DEF ChoosingOK, TaskOK, Choosing, Keeps
<1> QED
  BY <1>1, <1>2, <1>3, <1>5, <1>8, <1>9 DEF TaskOK, GoesOn, Choosing, Calling, Keeps

\* Evaluating: what the rules find usable leads to an admission.
LEMMA EvaluateTask ==
  ASSUME TaskInv, [SummaryNext]_summaryVars, NEW p \in Procs, Evaluate(p)
  PROVE  TaskOK(p)'
<1>1. PICK x, r, v : x = job[p].x /\ r = exec[x].run /\ v = job[p].version
  OBVIOUS
<1>2. /\ Keeps(p) /\ job[p].at = "record" /\ job'[p].at = Admission(Disposition(v))
      /\ job'[p].todo = job[p].todo /\ job'[p].inputs = job[p].inputs
      /\ job'[p].url = job[p].url /\ job'[p].version = v /\ exec' = exec
  BY <1>1, Went DEF TaskInv, Evaluate, At, rows
<1>3. TaskOK(p) /\ GoesOn(p)
  BY <1>2, GoingOn DEF TaskInv, Keeps
<1>4. v \in Versions /\ r \in Runs
  BY <1>1, <1>2, <1>3 DEF TaskOK, ChoosingOK, Choosing, Known
<1>5. job'[p].at \in {"refuse", "admit"}
  BY <1>2 DEF Admission
<1>6. job'[p].at = "admit" => Cleared(r, v)'
  <2>1. evaluations'[r][v] = Append(evaluations[r][v], [base |-> Disposition(v), overrides |-> {}])
    BY <1>1, <1>4 DEF Evaluate, RecordEvaluation, TaskInv, TrustInv, TrustTypeOK
  <2>2. evaluations[r][v] \in Seq(Row)
    BY <1>4 DEF TaskInv, TrustInv, TrustTypeOK
  <2>3. evaluations'[r][v] # <<>>
    BY <2>1, <2>2
  <2> QED
    BY <1>2, <2>3 DEF Admission, Cleared, Evaluated, Disposition, Rules
<1>7. job'[p].at = "admit" => Cleared(exec[job[p].x].run, job[p].version)'
  BY <1>1, <1>2, <1>6 DEF Keeps
<1>8. ModeOK(p)'
  BY <1>2, <1>3, <1>5 DEF TaskOK, ModeOK, Working, Choosing, Calling, Keeps
<1>9. ChoosingOK(p)'
  BY <1>2, <1>3, <1>4, <1>7 DEF ChoosingOK, TaskOK, Choosing, Keeps
<1> QED
  BY <1>1, <1>2, <1>3, <1>5, <1>8, <1>9 DEF TaskOK, GoesOn, Choosing, Calling, Keeps

\* Admitting: the new input was cleared before, and stays so.
LEMMA AddTask ==
  ASSUME TaskInv, [SummaryNext]_summaryVars, NEW p \in Procs, AddInput(p)
  PROVE  TaskOK(p)'
<1>1. PICK x, r, u, v : x = job[p].x /\ r = exec[x].run /\ u = job[p].url /\ v = job[p].version
  OBVIOUS
<1>2. /\ Keeps(p) /\ job[p].at = "admit" /\ job'[p].at = "next"
      /\ job'[p].todo = job[p].todo \ {u}
      /\ job'[p].inputs = job[p].inputs \cup {[url |-> u, version |-> v]}
      /\ exec' = exec /\ src' = src /\ evaluations' = evaluations
  BY <1>1, AddMoves DEF TaskInv
<1>3. TaskOK(p)
  BY DEF TaskInv
<1>4. /\ Known(x) /\ job[p].todo \subseteq Selected(x) /\ InputsOK(p)
      /\ DOMAIN job[p].held = Selected(x)
      /\ u \in job[p].todo /\ v \in Versions /\ Cleared(r, v)
      /\ \A w \in job[p].todo : job[p].held[w] \in Versions \cup {"none"}
  BY <1>1, <1>2, <1>3 DEF TaskOK, Choosing, ChoosingOK
<1>5. ModeOK(p)'
  BY <1>2, <1>3 DEF TaskOK, ModeOK, Working, Choosing, Calling, Keeps
<1>6. ChoosingOK(p)'
  BY <1>2, <1>4 DEF ChoosingOK, Keeps
<1>7. Known(job[p].x)' /\ Selected(job[p].x)' = Selected(x)
  BY <1>1, <1>2, <1>4 DEF Known, Selected, Keeps
<1>8. InputsOK(p)'
  <2>1. \A i \in job'[p].inputs :
          /\ i \in [url : Sources, version : Versions]
          /\ i.url \in Selected(x) /\ Cleared(r, i.version)
    BY <1>1, <1>2, <1>4 DEF InputsOK, Selected
  <2>2. \A i \in job'[p].inputs : Cleared(r, i.version)'
    BY <1>2, <2>1 DEF Cleared, Evaluated, Disposition, Rules
  <2> QED
    BY <1>1, <1>2, <1>7, <2>1, <2>2 DEF InputsOK, Keeps
<1> QED
  BY <1>2, <1>4, <1>5, <1>6, <1>7, <1>8 DEF TaskOK, Choosing, Calling, Keeps

\* Ending without an input, or going on to complete with none.
LEMMA NothingTask ==
  ASSUME TaskInv, [SummaryNext]_summaryVars, NEW p \in Procs, NothingToSummarize(p)
  PROVE  TaskOK(p)'
<1>1. TaskOK(p) /\ job[p].at = "next" /\ job[p].inputs = {} /\ job[p].todo = {}
  BY DEF TaskInv, NothingToSummarize, At
<1>2. Goto(p, "settle") \/ (Goto(p, "fail") /\ job[p].mode = "create") \/ Stop(p)
  BY DEF NothingToSummarize
<1>3. CASE Stop(p)
  BY <1>3, Stopped, IdleTask DEF TaskInv
<1>4. CASE Goto(p, "settle") \/ (Goto(p, "fail") /\ job[p].mode = "create")
  <2>1. /\ Keeps(p) /\ job'[p].at \in {"settle", "fail"}
        /\ job'[p].todo = job[p].todo /\ job'[p].inputs = job[p].inputs
    BY <1>4, Went DEF TaskInv
  <2>2. GoesOn(p)
    BY <1>1, <2>1, GoingOn DEF Keeps
  <2>3. ModeOK(p)'
    BY <1>1, <2>1 DEF TaskOK, ModeOK, Working, Choosing, Calling, Keeps
  <2> QED
    BY <1>1, <2>1, <2>2, <2>3 DEF TaskOK, GoesOn, Choosing, Calling, Keeps
<1> QED
  BY <1>2, <1>3, <1>4

\* Completing with summaries that were there before.
LEMMA SettleTask ==
  ASSUME TaskInv, [SummaryNext]_summaryVars, NEW p \in Procs, Settle(p)
  PROVE  TaskOK(p)'
<1>1. /\ Keeps(p) /\ job[p].at = "settle" /\ job'[p].at = "call"
      /\ job'[p].todo = {} /\ job'[p].inputs = job[p].inputs
  BY SettleMoves DEF TaskInv
<1>2. TaskOK(p) /\ GoesOn(p) /\ job[p].inputs = {}
  BY <1>1, GoingOn DEF TaskInv, TaskOK, Keeps
<1>3. ModeOK(p)'
  BY <1>1, <1>2 DEF TaskOK, ModeOK, Working, Choosing, Calling, Keeps
<1>4. RecordedOK(p)' /\ CallingOK(p)'
  BY <1>1, <1>2 DEF RecordedOK, CallingOK, InputUrls
<1> QED
  BY <1>1, <1>2, <1>3, <1>4 DEF TaskOK, GoesOn, Choosing, Calling, Keeps

\* The inputs are those of selected sources.
LEMMA StartTask ==
  ASSUME TaskInv, [SummaryNext]_summaryVars, NEW p \in Procs, StartExtracted(p)
  PROVE  TaskOK(p)'
<1>1. /\ Keeps(p) /\ job[p].at = "next" /\ job'[p].at = "extracted"
      /\ job'[p].todo = InputUrls(p) /\ job'[p].inputs = job[p].inputs
  BY StartMoves DEF TaskInv
<1>2. TaskOK(p) /\ GoesOn(p)
  BY <1>1, GoingOn DEF TaskInv, Keeps
<1>3. ModeOK(p)'
  BY <1>1, <1>2 DEF TaskOK, ModeOK, Working, Choosing, Calling, Keeps
<1>4. RecordedOK(p)'
  BY <1>1, <1>2 DEF RecordedOK, GoesOn
<1> QED
  BY <1>1, <1>2, <1>3, <1>4 DEF TaskOK, GoesOn, Choosing, Calling, Keeps

\* A recorded version leaves the rest to record.
LEMMA ExtractedTask ==
  ASSUME TaskInv, [SummaryNext]_summaryVars, NEW p \in Procs, NEW u \in job[p].todo,
         RecordSourceExtracted(p, u)
  PROVE  TaskOK(p)'
<1>1. PICK x : x = job[p].x
  OBVIOUS
<1>2. /\ Keeps(p) /\ job[p].at = "extracted" /\ job'[p].at = "extracted"
      /\ job'[p].todo = job[p].todo \ {u} /\ job'[p].inputs = job[p].inputs
  BY ExtractedMoves DEF TaskInv
<1>3. TaskOK(p) /\ GoesOn(p)
  BY <1>2, GoingOn DEF TaskInv, Keeps
<1>4. ModeOK(p)'
  BY <1>2, <1>3 DEF TaskOK, ModeOK, Working, Choosing, Calling, Keeps
<1>5. src'[x][u].version \in Versions
  BY <1>1, ExtractedRow DEF OnlyRow
<1>6. \A w \in InputUrls(p) : src'[x][w].version \in Versions \/ w \in job'[p].todo
  BY <1>1, <1>2, <1>3, <1>5 DEF TaskOK, RecordedOK, GoesOn, Selected
<1>7. RecordedOK(p)'
  BY <1>1, <1>2, <1>3, <1>6 DEF TaskOK, RecordedOK, GoesOn, Keeps
<1> QED
  BY <1>2, <1>3, <1>4, <1>7 DEF TaskOK, GoesOn, Choosing, Calling, Keeps

\* With a route, every input has its version recorded.
LEMMA RouteTask ==
  ASSUME TaskInv, [SummaryNext]_summaryVars, NEW p \in Procs, SetExecutionRoute(p)
  PROVE  TaskOK(p)'
<1>1. /\ job[p].at = "extracted" /\ job[p].todo = {} /\ job'[p].x = job[p].x
      /\ \/ /\ Keeps(p) /\ job'[p].todo = job[p].todo /\ job'[p].inputs = job[p].inputs
            /\ \/ job[p].mode = "execute" /\ job'[p].at = "summarizing"
               \/ job[p].mode # "execute" /\ job'[p].at = "schedule"
         \/ /\ job'[p].mode = "execute" /\ job'[p].at = "enter"
            /\ job'[p].todo = {} /\ job'[p].inputs = {}
  BY RouteMoves DEF TaskInv
<1>2. TaskOK(p) /\ Known(job[p].x)
  BY <1>1 DEF TaskInv, TaskOK
<1>3. CASE job'[p].mode = "execute" /\ job'[p].at = "enter" /\ job'[p].todo = {} /\ job'[p].inputs = {}
  <2>1. Known(job[p].x)'
    <3>1. PICK x : x = job[p].x
      OBVIOUS
    <3>2. Known(x)'
      BY <1>2, <3>1, Lasts
    <3> QED
      BY <1>1, <3>1, <3>2
  <2>2. InputsOK(p)' /\ ModeOK(p)'
    BY <1>3 DEF InputsOK, ModeOK, Working
  <2> QED
    BY <1>3, <2>1, <2>2 DEF TaskOK, Choosing, Calling
<1>4. CASE /\ Keeps(p) /\ job'[p].todo = job[p].todo /\ job'[p].inputs = job[p].inputs
           /\ \/ job[p].mode = "execute" /\ job'[p].at = "summarizing"
              \/ job[p].mode # "execute" /\ job'[p].at = "schedule"
  <2>1. GoesOn(p)
    BY <1>1, <1>4, GoingOn
  <2>2. ModeOK(p)'
    BY <1>1, <1>2, <1>4 DEF TaskOK, ModeOK, Working, Choosing, Calling, Keeps
  <2>3. RecordedOK(p)'
    BY <1>1, <1>2, <1>4, <2>1 DEF TaskOK, RecordedOK, GoesOn, Keeps, Selected
  <2> QED
    BY <1>1, <1>2, <1>4, <2>1, <2>2, <2>3 DEF TaskOK, GoesOn, Choosing, Calling, Keeps
<1> QED
  BY <1>1, <1>3, <1>4

\* Handing over ends the process, whether or not Temporal answers.
LEMMA ScheduleTask ==
  ASSUME TaskInv, [SummaryNext]_summaryVars, NEW p \in Procs, Schedule(p)
  PROVE  TaskOK(p)'
<1>1. TaskOK(p) /\ job[p].at = "schedule" /\ (Goto(p, "fail") \/ Stop(p))
  BY DEF TaskInv, Schedule, Unscheduled, At
<1>2. CASE Stop(p)
  BY <1>2, Stopped, IdleTask DEF TaskInv
<1>3. CASE Goto(p, "fail")
  <2>1. /\ Keeps(p) /\ job'[p].at = "fail"
        /\ job'[p].todo = job[p].todo /\ job'[p].inputs = job[p].inputs
    BY <1>3, Went DEF TaskInv
  <2>2. GoesOn(p)
    BY <1>1, <2>1, GoingOn DEF Keeps
  <2>3. ModeOK(p)'
    BY <1>1, <2>1 DEF TaskOK, ModeOK, Working, Choosing, Calling, Keeps
  <2> QED
    BY <1>1, <2>1, <2>2, <2>3 DEF TaskOK, GoesOn, Choosing, Calling, Keeps
<1> QED
  BY <1>1, <1>2, <1>3

\* Entering: the execution is loaded anew.
LEMMA EnterTask ==
  ASSUME TaskInv, [SummaryNext]_summaryVars, NEW p \in Procs, Enter(p)
  PROVE  TaskOK(p)'
<1>1. TaskOK(p) /\ job[p].at = "enter" /\ (Goto(p, "load") \/ Stop(p))
  BY DEF TaskInv, Enter, At
<1>2. CASE Stop(p)
  BY <1>2, Stopped, IdleTask DEF TaskInv
<1>3. CASE Goto(p, "load")
  <2>1. /\ Keeps(p) /\ job'[p].at = "load"
        /\ job'[p].todo = job[p].todo /\ job'[p].inputs = job[p].inputs
    BY <1>3, Went DEF TaskInv
  <2>2. GoesOn(p)
    BY <1>1, <2>1, GoingOn DEF Keeps
  <2>3. ModeOK(p)'
    BY <1>1, <2>1 DEF TaskOK, ModeOK, Working, Choosing, Calling, Keeps
  <2> QED
    BY <1>1, <2>1, <2>2, <2>3 DEF TaskOK, GoesOn, Choosing, Calling, Keeps
<1> QED
  BY <1>1, <1>2, <1>3

\* Before the first model call every input is to be summarized.
LEMMA SummarizingTask ==
  ASSUME TaskInv, [SummaryNext]_summaryVars, NEW p \in Procs, MarkSummarizing(p)
  PROVE  TaskOK(p)'
<1>1. /\ Keeps(p) /\ job[p].at = "summarizing" /\ job'[p].at = "call"
      /\ job'[p].todo = InputUrls(p) /\ job'[p].inputs = job[p].inputs
  BY SummarizingMoves DEF TaskInv
<1>2. TaskOK(p) /\ GoesOn(p)
  BY <1>1, GoingOn DEF TaskInv, Keeps
<1>3. ModeOK(p)'
  BY <1>1, <1>2 DEF TaskOK, ModeOK, Working, Choosing, Calling, Keeps
<1>4. RecordedOK(p)' /\ CallingOK(p)'
  BY <1>1, <1>2 DEF TaskOK, RecordedOK, GoesOn, Keeps, Selected, CallingOK
<1> QED
  BY <1>1, <1>2, <1>3, <1>4 DEF TaskOK, GoesOn, Choosing, Calling, Keeps

\* An answer is the text of the input.
LEMMA SummarizeTask ==
  ASSUME TaskInv, [SummaryNext]_summaryVars, NEW p \in Procs, NEW u \in job[p].todo,
         Summarize(p, u)
  PROVE  TaskOK(p)'
<1>1. /\ job[p].at = "call"
      /\ \/ /\ Keeps(p) /\ job'[p].at = "hash" /\ job'[p].url = u
            /\ job'[p].version = Input(p, u)
            /\ job'[p].todo = job[p].todo /\ job'[p].inputs = job[p].inputs
         \/ /\ Keeps(p) /\ job'[p].at = "fail"
            /\ job'[p].todo = job[p].todo /\ job'[p].inputs = job[p].inputs
         \/ job'[p].at = "idle" /\ job'[p].inputs = {}
  BY SummarizeMoves DEF TaskInv
<1>2. CASE job'[p].at = "idle" /\ job'[p].inputs = {}
  BY <1>2, IdleTask
<1>3. CASE /\ Keeps(p) /\ job'[p].at \in {"hash", "fail"}
           /\ job'[p].todo = job[p].todo /\ job'[p].inputs = job[p].inputs
  <2>1. TaskOK(p) /\ GoesOn(p)
    BY <1>1, <1>3, GoingOn DEF TaskInv, Keeps
  <2>2. ModeOK(p)'
    BY <1>1, <1>3, <2>1 DEF TaskOK, ModeOK, Working, Choosing, Calling, Keeps
  <2>3. RecordedOK(p)'
    BY <1>1, <1>3, <2>1 DEF TaskOK, RecordedOK, GoesOn, Keeps, Selected, Calling
  <2>4. CallingOK(p)'
    BY <1>1, <1>3, <2>1 DEF TaskOK, CallingOK, GoesOn
  <2> QED
    BY <1>1, <1>3, <2>1, <2>2, <2>3, <2>4 DEF TaskOK, GoesOn, Choosing, Calling, Keeps
<1> QED
  BY <1>1, <1>2, <1>3

\* What was read is the version that was recorded before.
LEMMA ReadTask ==
  ASSUME TaskInv, [SummaryNext]_summaryVars, NEW p \in Procs, ReadVersion(p)
  PROVE  TaskOK(p)'
<1>1. PICK x, u : x = job[p].x /\ u = job[p].url
  OBVIOUS
<1>2. /\ job[p].at = "hash" /\ job'[p].at = "store" /\ job'[p].mode = job[p].mode
      /\ job'[p].x = x /\ job'[p].todo = job[p].todo /\ job'[p].inputs = job[p].inputs
      /\ job'[p].url = u /\ job'[p].version = job[p].version
      /\ job'[p].held = [job[p].held EXCEPT ![u] = src[x][u].version]
  BY <1>1, ReadMoves DEF TaskInv
<1>3. TaskOK(p) /\ GoesOn(p)
  BY <1>1, <1>2, GoingOn DEF TaskInv
<1>4. ModeOK(p)'
  BY <1>2, <1>3 DEF TaskOK, ModeOK, Working, Choosing, Calling
<1>5. /\ u \in job[p].todo /\ u \in InputUrls(p) /\ src[x][u].version \in Versions
      /\ DOMAIN job[p].held = Selected(x) /\ job[p].version = Input(p, u)
  BY <1>1, <1>2, <1>3 DEF TaskOK, RecordedOK, CallingOK, Calling
<1>6. /\ DOMAIN job'[p].held = Selected(x) /\ job'[p].held[u] = src[x][u].version
  BY <1>1, <1>2, <1>3, <1>5 DEF GoesOn
<1>7. RecordedOK(p)'
  BY <1>1, <1>2, <1>3 DEF TaskOK, RecordedOK, GoesOn, Selected, Calling
<1>8. CallingOK(p)'
  BY <1>2, <1>3, <1>5, <1>6 DEF CallingOK, GoesOn
<1> QED
  BY <1>1, <1>2, <1>3, <1>4, <1>6, <1>7, <1>8 DEF TaskOK, GoesOn, Choosing, Calling

\* A stored summary leaves the other inputs as they were.
LEMMA StoreTask ==
  ASSUME TaskInv, [SummaryNext]_summaryVars, NEW p \in Procs, RecordSourceSummary(p)
  PROVE  TaskOK(p)'
<1>1. /\ Keeps(p) /\ job[p].at = "store" /\ job'[p].at = "call"
      /\ job'[p].todo = job[p].todo \ {job[p].url} /\ job'[p].inputs = job[p].inputs
  BY StoreMoves DEF TaskInv
<1>2. TaskOK(p) /\ GoesOn(p)
  BY <1>1, GoingOn DEF TaskInv, Keeps
<1>3. ModeOK(p)'
  BY <1>1, <1>2 DEF TaskOK, ModeOK, Working, Choosing, Calling, Keeps
<1>4. RecordedOK(p)' /\ CallingOK(p)'
  BY <1>1, <1>2 DEF TaskOK, RecordedOK, GoesOn, Keeps, Selected, Calling, CallingOK
<1> QED
  BY <1>1, <1>2, <1>3, <1>4 DEF TaskOK, GoesOn, Choosing, Calling, Keeps

\* A regeneration prepares a known execution once more.
LEMMA BeginTask ==
  ASSUME TaskInv, [SummaryNext]_summaryVars, NEW p \in Procs, BeginRegeneration(p)
  PROVE  TaskOK(p)'
<1>1. /\ Keeps(p) /\ job[p].at = "begin" /\ job'[p].at = "load"
      /\ job'[p].todo = job[p].todo /\ job'[p].inputs = job[p].inputs
  BY Went DEF TaskInv, BeginRegeneration, At
<1>2. TaskOK(p) /\ GoesOn(p)
  BY <1>1, GoingOn DEF TaskInv, Keeps
<1>3. ModeOK(p)'
  BY <1>1, <1>2 DEF TaskOK, ModeOK, Working, Choosing, Calling, Keeps
<1> QED
  BY <1>1, <1>2, <1>3 DEF TaskOK, GoesOn, Choosing, Calling, Keeps

\* A process that begins to work on an execution that is known by then.
LEMMA NewTask ==
  ASSUME NEW p \in Procs, Known(job[p].x)', job'[p].todo = {}, job'[p].inputs = {},
         \/ job'[p].at = "enter" /\ job'[p].mode = "execute"
         \/ job'[p].at = "begin" /\ job'[p].mode = "regenerate"
         \/ job'[p].at = "load" /\ job'[p].mode = "create"
  PROVE  TaskOK(p)'
BY DEF TaskOK, ModeOK, InputsOK, Working, Choosing, Calling

\* A process that goes on is the only one that moves, and does not begin anew.
Proceeds(p) ==
  /\ OnlyMoves(p) /\ TaskOK(p)' /\ job'[p].at # "begin"
  /\ job'[p].x = job[p].x \/ job'[p].at = "idle"

\* Every step of a process at work leaves it in order.
LEMMA ProceedTask ==
  ASSUME TaskInv, [SummaryNext]_summaryVars, NEW p \in Procs, Proceed(p)
  PROVE  Proceeds(p)
<1>0. JobShape
  BY DEF TaskInv
<1> USE DEF Proceeds, Keeps
<1>1. CASE Load(p)
  BY <1>0, <1>1, LoadMoves, LoadTask
<1>2. ASSUME NEW u \in job[p].todo, SkipUnavailable(p, u) PROVE Proceeds(p)
  <2>1. /\ OnlyMoves(p) /\ Keeps(p) /\ job[p].at = "next" /\ job'[p].at = "next"
        /\ job'[p].todo = job[p].todo \ {u} /\ job'[p].inputs = job[p].inputs
    BY <1>0, <1>2, SkipMoves
  <2> QED
    BY <2>1, ChoosingNext DEF Choosing
<1>3. ASSUME NEW u \in job[p].todo, LookForEvaluation(p, u) PROVE Proceeds(p)
  BY <1>0, <1>3, LookMoves, LookTask DEF Admission
<1>4. ASSUME NEW u \in job[p].todo, RecordSourceExtracted(p, u) PROVE Proceeds(p)
  BY <1>0, <1>4, ExtractedMoves, ExtractedTask
<1>5. ASSUME NEW u \in job[p].todo, Summarize(p, u) PROVE Proceeds(p)
  BY <1>0, <1>5, SummarizeMoves, SummarizeTask
<1>6. CASE Evaluate(p)
  BY <1>0, <1>6, Went, EvaluateTask DEF Evaluate, Admission
<1>7. CASE RecordSourceFailure(p) \/ ReuseMatchingArtifact(p) \/ KeepDone(p)
  <2>1. NextSource(p) /\ job[p].at \in {"refuse", "admit"}
    BY <1>7 DEF RecordSourceFailure, ReuseMatchingArtifact, KeepDone, At
  <2> QED
    BY <1>0, <2>1, WentNext, ChoosingNext DEF Choosing
<1>8. CASE AddInput(p)
  BY <1>0, <1>8, AddMoves, AddTask
<1>9. CASE NothingToSummarize(p)
  BY <1>0, <1>9, Went, Stopped, NothingTask DEF NothingToSummarize
<1>10. CASE Settle(p)
  BY <1>0, <1>10, SettleMoves, SettleTask
<1>11. CASE StartExtracted(p)
  BY <1>0, <1>11, StartMoves, StartTask
<1>12. CASE SetExecutionRoute(p)
  BY <1>0, <1>12, RouteMoves, RouteTask
<1>13. CASE FailExecution(p) \/ CompleteExecution(p)
  BY <1>0, <1>13, Stopped, IdleTask DEF FailExecution, CompleteExecution
<1>14. CASE Schedule(p)
  BY <1>0, <1>14, Went, Stopped, ScheduleTask DEF Schedule, Unscheduled
<1>15. CASE Enter(p)
  BY <1>0, <1>15, Went, Stopped, EnterTask DEF Enter
<1>16. CASE MarkSummarizing(p)
  BY <1>0, <1>16, SummarizingMoves, SummarizingTask
<1>17. CASE ReadVersion(p)
  BY <1>0, <1>17, ReadMoves, ReadTask
<1>18. CASE RecordSourceSummary(p)
  BY <1>0, <1>18, StoreMoves, StoreTask
<1>19. CASE BeginRegeneration(p)
  <2>1. Goto(p, "load")
    BY <1>19 DEF BeginRegeneration
  <2>2. OnlyMoves(p) /\ job'[p].at = "load" /\ job'[p].x = job[p].x
    BY <1>0, <2>1, Went
  <2> QED
    BY <1>19, <2>2, BeginTask
<1> HIDE DEF Proceeds, Keeps
<1>20. CASE \E u \in job[p].todo : SkipUnavailable(p, u) \/ LookForEvaluation(p, u)
                                   \/ RecordSourceExtracted(p, u) \/ Summarize(p, u)
  BY <1>2, <1>3, <1>4, <1>5, <1>20
<1> QED
  BY <1>1, <1>6, <1>7, <1>8, <1>9, <1>10, <1>11, <1>12, <1>13, <1>14,
     <1>15, <1>16, <1>17, <1>18, <1>19, <1>20 DEF Proceed

\* So is one that begins or dies.
LEMMA BeginsTask ==
  ASSUME TaskInv, [SummaryNext]_summaryVars, NEW p \in Procs,
         \/ Poll(p) \/ Crash(p) \/ \E x \in Executions : Regenerate(p, x)
         \/ \E x \in Executions, r \in Runs, urls \in SUBSET Sources : CreateExecution(p, x, r, urls)
  PROVE  OnlyMoves(p) /\ TaskOK(p)'
<1>0. JobShape
  BY DEF TaskInv
<1>1. CASE Poll(p)
  <2>1. PICK task \in tasks :
           /\ OnlyMoves(p) /\ job'[p].at = "enter"
           /\ job'[p].mode = "execute" /\ job'[p].x = task.x
           /\ job'[p].todo = {} /\ job'[p].inputs = {}
    BY <1>0, <1>1, PollMoves
  <2>2. PICK x : x = task.x
    OBVIOUS
  <2>3. Known(x)
    BY <2>2 DEF TaskInv, RecordsOK
  <2>4. Known(x)'
    BY <2>3, Lasts
  <2>5. job'[p].x = x
    BY <2>1, <2>2
  <2>6. Known(job[p].x)'
    BY <2>4, <2>5
  <2> QED
    BY <2>1, <2>6, NewTask
<1>2. CASE Crash(p)
  BY <1>0, <1>2, Stopped, IdleTask DEF Crash
<1>3. ASSUME NEW x \in Executions, Regenerate(p, x) PROVE OnlyMoves(p) /\ TaskOK(p)'
  <2>1. /\ OnlyMoves(p) /\ job'[p].at = "begin"
        /\ job'[p].mode = "regenerate" /\ job'[p].x = x
        /\ job'[p].todo = {} /\ job'[p].inputs = {}
        /\ exec[x].status = "completed"
    BY <1>0, <1>3, RegenerateMoves
  <2>2. Known(x)
    BY <2>1 DEF TaskInv, RecordsOK, Known
  <2>3. Known(x)'
    BY <2>2, Lasts
  <2>4. Known(job[p].x)'
    BY <2>1, <2>3
  <2> QED
    BY <2>1, <2>4, NewTask
<1>4. ASSUME NEW x \in Executions, NEW r \in Runs, NEW urls \in SUBSET Sources,
             CreateExecution(p, x, r, urls)
      PROVE  OnlyMoves(p) /\ TaskOK(p)'
  <2>1. /\ OnlyMoves(p) /\ job'[p].at = "load"
        /\ job'[p].mode = "create" /\ job'[p].x = x
        /\ job'[p].todo = {} /\ job'[p].inputs = {}
    BY <1>0, <1>4, CreateMoves
  <2>2. Created(x, r)
    BY <1>4, CreateRows
  <2>3. Known(x)'
    BY <2>2 DEF Created, Known
  <2>4. Known(job[p].x)'
    BY <2>1, <2>3
  <2> QED
    BY <2>1, <2>4, NewTask
<1> QED
  BY <1>1, <1>2, <1>3, <1>4

\* Whichever step is taken, at most one process moves.
OneMoves == (\E p \in Procs : OnlyMoves(p) /\ TaskOK(p)') \/ UNCHANGED job

\* Whatever happens, one process moves at most, and is left in order.
LEMMA OneProcessMoves ==
  ASSUME TaskInv, [SummaryNext]_summaryVars
  PROVE  OneMoves
<1>1. ASSUME \/ UNCHANGED summaryVars \/ Rest \/ Deadline
             \/ \E v \in Versions :
                  Recapture(v) \/ \E r \in Runs, kind \in {"permanent", "expiring"} : Accept(r, v, kind)
      PROVE  UNCHANGED job
  BY <1>1 DEF summaryVars, Rest, Deadline, Recapture, Accept
<1>2. ASSUME NEW p \in Procs,
             \/ Proceed(p) \/ Poll(p) \/ Crash(p)
             \/ \E x \in Executions :
                  \/ Regenerate(p, x)
                  \/ \E r \in Runs, urls \in SUBSET Sources \ {{}} : CreateExecution(p, x, r, urls)
      PROVE  OnlyMoves(p) /\ TaskOK(p)'
  BY <1>2, ProceedTask, BeginsTask DEF Proceeds
<1> QED
  BY <1>1, <1>2 DEF SummaryNext, OneMoves

\* TaskInv is inductive: tables, trust records and each process.
LEMMA TaskStep == TaskInv /\ [SummaryNext]_summaryVars => TaskInv'
<1> SUFFICES ASSUME TaskInv, [SummaryNext]_summaryVars PROVE TaskInv'
  OBVIOUS
<1>1. TrustInv' /\ RecordsOK'
  BY StepRefines, TrustInvStep, RecordsStep DEF TaskInv
<1>2. OneMoves
  BY OneProcessMoves
<1>3. JobShape'
  BY <1>2 DEF OneMoves, OnlyMoves, TaskInv, JobShape
<1>4. \A q \in Procs : TaskOK(q)'
  <2>1. ASSUME NEW q \in Procs, job'[q] = job[q] PROVE TaskOK(q)'
    BY <2>1, OthersKeep
  <2> QED
    BY <1>2, <2>1 DEF OneMoves, OnlyMoves
<1> QED
  BY <1>1, <1>3, <1>4 DEF TaskInv

\* Nothing was asked for yet, or one source was summarized in the request.
StartsFresh ==
  /\ exec = [x \in Executions |-> NoExecution]
  /\ src = [x \in Executions |-> [u \in Sources |-> NoSource]]
  /\ artifacts = {}

StartsDone(old, r, done, v, route) ==
  /\ exec = [x \in Executions |-> IF x # old THEN NoExecution
       ELSE [NoExecution EXCEPT !.status = "completed", !.run = r, !.route = route]]
  /\ src = [x \in Executions |-> [u \in Sources |->
       IF x = old /\ u = done
       THEN [status |-> "completed", version |-> v, summary |-> v] ELSE NoSource]]
  /\ artifacts = {[run |-> r, url |-> done, version |-> v, text |-> v]}

\* A project starts fresh, or with one completed execution.
LEMMA Starts ==
  ASSUME SummaryInit, ~StartsFresh
  PROVE  \E old \in Executions, r \in Runs, done \in Sources, v \in Versions,
            route \in {"direct", "durable"} :
           Ready(done) /\ v = Preflighted[done] /\ StartsDone(old, r, done, v, route)
<1>1. PICK old \in Executions, r \in Runs, done \in {u \in Sources : Ready(u)} :
        LET v == Preflighted[done]
        IN /\ exec = [x \in Executions |-> IF x # old THEN NoExecution
                ELSE [NoExecution EXCEPT !.status = "completed", !.run = r,
                                         !.route = Route(1, Len(ChunkText(Length[v])))]]
           /\ src = [x \in Executions |-> [u \in Sources |->
                IF x = old /\ u = done
                THEN [status |-> "completed", version |-> v, summary |-> v] ELSE NoSource]]
           /\ artifacts = {[run |-> r, url |-> done, version |-> v, text |-> v]}
  BY DEF SummaryInit, StartsFresh
<1>2. PICK v : v = Preflighted[done]
  OBVIOUS
<1>3. PICK route \in {"direct", "durable"} : route = Route(1, Len(ChunkText(Length[v])))
  BY DEF Route
<1>4. Ready(done) /\ done \in Sources
  OBVIOUS
<1>5. v \in Versions
  BY <1>2, <1>4, SummaryAssumption DEF Ready
<1>6. StartsDone(old, r, done, v, route)
  BY <1>1, <1>2, <1>3 DEF StartsDone
<1> QED
  BY <1>2, <1>4, <1>5, <1>6

\* What preflight recorded, and a completed execution, are fit to start from.
LEMMA TaskInit == SummaryInit => TaskInv
<1> SUFFICES ASSUME SummaryInit PROVE TaskInv
  OBVIOUS
<1>0. \A v \in Versions : v # "none"
  BY NoneAssumption
<1>1. TrustInv
  <2> DEFINE first(v) == [base |-> Disposition(v), overrides |-> {}]
             rows0(v) == IF \E u \in Sources : Preflighted[u] = v THEN <<first(v)>> ELSE <<>>
  <2>1. evaluations = [r \in Runs |-> [v \in Versions |-> rows0(v)]]
    BY DEF SummaryInit
  <2>2. \A v \in Versions : rows0(v) \in Seq(Row)
    <3>1. \A v \in Versions : first(v) \in Row
      BY DispositionType DEF Row
    <3> HIDE DEF first
    <3> QED
      BY <3>1
  <2>3. \A v \in Versions : \A i \in DOMAIN rows0(v) : rows0(v)[i] = first(v)
    <3> HIDE DEF first
    <3> QED
      OBVIOUS
  <2>4. \A r \in Runs, v \in Versions : evaluations[r][v] = rows0(v)
    BY <2>1
  <2> HIDE DEF rows0
  <2>5. TrustTypeOK
    BY <2>1, <2>2 DEF TrustTypeOK
  <2>6. RowsFollowPolicy
    BY <2>3, <2>4 DEF RowsFollowPolicy
  <2> QED
    BY <2>5, <2>6 DEF TrustInv
<1>2. job = [p \in Procs |-> IdleJob]
  BY DEF SummaryInit
<1>3. JobShape
  BY <1>2 DEF JobShape, Fields
<1>4. \A p \in Procs : TaskOK(p)
  BY <1>2, IdleShape DEF TaskOK, ModeOK, Choosing, Calling
<1>5. latest \in [Sources -> Versions \cup {"none"}]
  <2> DEFINE holds(u, w) == Preflighted[w] # "none" /\ Page[Preflighted[w]] = u
             pick(u) == CHOOSE w \in Sources : holds(u, w)
  <2>1. latest = [u \in Sources |-> IF \E w \in Sources : holds(u, w)
                                    THEN Preflighted[pick(u)] ELSE "none"]
    BY DEF SummaryInit
  <2>2. \A u \in Sources : (\E w \in Sources : holds(u, w)) => pick(u) \in Sources
    OBVIOUS
  <2>3. \A w \in Sources : Preflighted[w] \in Versions \cup {"none"}
    BY SummaryAssumption
  <2> HIDE DEF holds, pick
  <2> QED
    BY <2>1, <2>2, <2>3
<1>6. tasks = {}
  BY DEF SummaryInit
<1>7. NoExecution \in ExecRow /\ NoExecution.status = "absent"
  BY DEF NoExecution, ExecRow
<1>8. NoSource \in SourceRow /\ RowOK(NoSource)
  BY DEF NoSource, SourceRow, RowOK
<1>9. CASE StartsFresh
  <2>1. exec \in [Executions -> ExecRow] /\ src \in [Executions -> [Sources -> SourceRow]]
    BY <1>7, <1>8, <1>9 DEF StartsFresh
  <2>2. \A x \in Executions : exec[x].status = "absent" /\ \A u \in Sources : RowOK(src[x][u])
    BY <1>7, <1>8, <1>9 DEF StartsFresh
  <2>3. RecordsOK
    BY <1>5, <1>6, <1>9, <2>1, <2>2 DEF RecordsOK, StartsFresh
  <2> QED
    BY <1>1, <1>3, <1>4, <2>3 DEF TaskInv
<1>10. ASSUME NEW old \in Executions, NEW r \in Runs, NEW done \in Sources,
              NEW v \in Versions, NEW route \in {"direct", "durable"},
              StartsDone(old, r, done, v, route)
       PROVE  TaskInv
  <2> DEFINE row == [NoExecution EXCEPT !.status = "completed", !.run = r, !.route = route]
             full == [status |-> "completed", version |-> v, summary |-> v]
  <2>2. row \in ExecRow /\ row.run \in Runs
    BY DEF NoExecution, ExecRow
  <2>3. full \in SourceRow /\ RowOK(full)
    BY DEF SourceRow, RowOK
  <2> HIDE DEF row, full
  <2>4. exec = [x \in Executions |-> IF x # old THEN NoExecution ELSE row]
    BY <1>10 DEF row, StartsDone
  <2>5. src = [x \in Executions |-> [u \in Sources |-> IF x = old /\ u = done THEN full
                                                       ELSE NoSource]]
    BY <1>10 DEF full, StartsDone
  <2>6. /\ exec \in [Executions -> ExecRow]
        /\ \A x \in Executions : exec[x].status # "absent" => exec[x].run \in Runs
    BY <1>7, <2>2, <2>4
  <2>7. /\ src \in [Executions -> [Sources -> SourceRow]]
        /\ \A x \in Executions, u \in Sources : RowOK(src[x][u])
    BY <1>8, <2>3, <2>5
  <2>8. artifacts \subseteq [run : Runs, url : Sources, version : Versions, text : Versions]
    BY <1>10 DEF StartsDone
  <2>9. RecordsOK
    BY <1>5, <1>6, <2>6, <2>7, <2>8 DEF RecordsOK
  <2> QED
    BY <1>1, <1>3, <1>4, <2>9 DEF TaskInv
<1> QED
  BY <1>9, <1>10, Starts

\* What a process may rely on holds in every state.
LEMMA TaskInvariance == SummarySpec => []TaskInv
BY TaskInit, TaskStep, PTL DEF SummarySpec

\* At every moment, what a process hands to the model was cleared in its run.
LEMMA InputsCleared ==
  ASSUME TaskInv, NEW p \in Procs, NEW i \in job[p].inputs
  PROVE  Cleared(exec[job[p].x].run, i.version)
<1>1. TaskOK(p)
  BY DEF TaskInv
<1> QED
  BY <1>1 DEF TaskOK, InputsOK

-----------------------------------------------------------------------------
(* Every regeneration was asked for.                                        *)

\* A step that begins nothing and counts nothing.
LEMMA AttemptKept ==
  ASSUME AttemptInv, TaskInv, Beginning' \subseteq Beginning, asked' \in 0 .. MaxAsked,
         asked <= asked', \A x \in Executions : exec'[x].attempt = exec[x].attempt
  PROVE  AttemptInv'
<1>1. IsFiniteSet(Beginning) /\ asked \in Nat
  BY SummaryAssumption DEF AttemptInv
<1>2. /\ IsFiniteSet(Beginning') /\ Cardinality(Beginning') <= Cardinality(Beginning)
      /\ Cardinality(Beginning) \in Nat /\ Cardinality(Beginning') \in Nat
  BY <1>1, FS_Subset, FS_CardinalityType
<1>3. \A x \in Executions : exec[x].attempt \in Nat
  BY DEF TaskInv, RecordsOK, ExecRow
<1>4. \A x \in Executions : exec'[x].attempt + Cardinality(Beginning') <= asked'
  BY <1>1, <1>2, <1>3, SummaryAssumption DEF AttemptInv
<1> QED
  BY <1>2, <1>4 DEF AttemptInv

\* The set of regenerations under way changes with one process only.
LEMMA BeginningMoves ==
  ASSUME NEW p \in Procs, OnlyMoves(p)
  PROVE  Beginning' = IF job'[p].at = "begin" THEN Beginning \cup {p} ELSE Beginning \ {p}
BY DEF OnlyMoves, Beginning, At

\* A regeneration that begins has been asked for and is counted once.
LEMMA AttemptStep == TaskInv /\ AttemptInv /\ [SummaryNext]_summaryVars => AttemptInv'
<1> SUFFICES ASSUME TaskInv, AttemptInv, [SummaryNext]_summaryVars PROVE AttemptInv'
  OBVIOUS
<1>0. asked \in Nat /\ asked <= MaxAsked /\ MaxAsked \in Nat
  BY SummaryAssumption DEF AttemptInv
<1>1. ASSUME \/ UNCHANGED summaryVars \/ Rest \/ Deadline
             \/ \E v \in Versions :
                  Recapture(v) \/ \E r \in Runs, kind \in {"permanent", "expiring"} : Accept(r, v, kind)
      PROVE  AttemptInv'
  <2>1. UNCHANGED <<exec, job>>
    BY <1>1 DEF summaryVars, rows, Rest, Deadline, Recapture, Accept
  <2>2. asked' = asked \/ (asked < MaxAsked /\ asked' = asked + 1)
    BY <1>1 DEF summaryVars, Rest, Deadline, Recapture, Accept, Ask
  <2>3. Beginning' = Beginning
    BY <2>1 DEF Beginning, At
  <2> QED
    BY <1>0, <2>1, <2>2, <2>3, AttemptKept
<1>2. ASSUME NEW p \in Procs, Proceed(p), ~BeginRegeneration(p) PROVE AttemptInv'
  <2>1. OnlyMoves(p) /\ job'[p].at # "begin"
    BY <1>2, ProceedTask DEF Proceeds
  <2>2. asked' = asked
    BY <1>2 DEF Proceed, Load, SkipUnavailable, LookForEvaluation, RecordSourceExtracted,
         Summarize, Evaluate, RecordSourceFailure, ReuseMatchingArtifact, AddInput, KeepDone,
         NothingToSummarize, Settle, StartExtracted, SetExecutionRoute, FailExecution, Schedule,
         Enter, MarkSummarizing, ReadVersion, RecordSourceSummary, CompleteExecution
  <2>3. \A x \in Executions : exec'[x].attempt = exec[x].attempt
    <3>1. PICK y : y = job[p].x
      OBVIOUS
    <3>2. \/ UNCHANGED exec
          \/ Settle(p) \/ SetExecutionRoute(p) \/ FailExecution(p)
          \/ MarkSummarizing(p) \/ CompleteExecution(p)
      BY <1>2 DEF Proceed, rows, Load, SkipUnavailable, LookForEvaluation, RecordSourceExtracted,
         Summarize, Evaluate, RecordSourceFailure, ReuseMatchingArtifact, AddInput, KeepDone,
         NothingToSummarize, StartExtracted, Schedule, Enter, ReadVersion, RecordSourceSummary
    <3>3. \/ UNCHANGED exec
          \/ /\ exec'[y].attempt = exec[y].attempt
             /\ \A z \in Executions : z # y => exec'[z] = exec[z]
      BY <3>1, <3>2, ExecMoves DEF TurnsTo
    <3> QED
      BY <3>3
  <2>4. Beginning' \subseteq Beginning
    BY <2>1, BeginningMoves
  <2> QED
    BY <1>0, <2>2, <2>3, <2>4, AttemptKept
<1>3. ASSUME NEW p \in Procs, BeginRegeneration(p) PROVE AttemptInv'
  <2>1. PICK y : y = job[p].x
    OBVIOUS
  <2>2. OnlyMoves(p) /\ job'[p].at = "load" /\ job[p].at = "begin" /\ asked' = asked
    <3>1. Goto(p, "load") /\ job[p].at = "begin" /\ asked' = asked
      BY <1>3 DEF BeginRegeneration, At
    <3> QED
      BY <3>1, Went DEF TaskInv
  <2>3. Beginning' = Beginning \ {p} /\ p \in Beginning
    BY <2>2, BeginningMoves DEF Beginning, At
  <2>4. IsFiniteSet(Beginning) /\ Cardinality(Beginning) \in Nat
    BY FS_CardinalityType DEF AttemptInv
  <2>5. IsFiniteSet(Beginning') /\ Cardinality(Beginning') = Cardinality(Beginning) - 1
    BY <2>3, <2>4, FS_RemoveElement
  <2>6. \A x \in Executions : exec[x].attempt \in Nat
    BY DEF TaskInv, RecordsOK, ExecRow
  <2>7. \A x \in Executions : exec'[x].attempt = exec[x].attempt
                              \/ exec'[x].attempt = exec[x].attempt + 1
    BY <1>3, <2>1, ExecMoves DEF TurnsTo
  <2>8. \A x \in Executions : exec'[x].attempt + Cardinality(Beginning') <= asked'
    BY <1>0, <2>2, <2>4, <2>5, <2>6, <2>7 DEF AttemptInv
  <2> QED
    BY <1>0, <2>2, <2>5, <2>8 DEF AttemptInv
<1>4. ASSUME NEW p \in Procs, Poll(p) \/ Crash(p) PROVE AttemptInv'
  <2>1. OnlyMoves(p) /\ job'[p].at # "begin" /\ exec' = exec
    <3>1. CASE Crash(p)
      BY <3>1, Stopped DEF Crash, TaskInv, rows
    <3>2. CASE Poll(p)
      BY <3>2, PollMoves DEF TaskInv
    <3> QED
      BY <1>4, <3>1, <3>2
  <2>2. asked' = asked \/ (asked < MaxAsked /\ asked' = asked + 1)
    BY <1>4 DEF Poll, Crash, Ask
  <2>3. Beginning' \subseteq Beginning
    BY <2>1, BeginningMoves
  <2> QED
    BY <1>0, <2>1, <2>2, <2>3, AttemptKept
<1>5. ASSUME NEW p \in Procs, NEW x \in Executions, NEW r \in Runs,
             NEW urls \in SUBSET Sources, CreateExecution(p, x, r, urls)
      PROVE  AttemptInv'
  <2>1. OnlyMoves(p) /\ job'[p].at = "load"
    BY <1>5, CreateMoves DEF TaskInv
  <2>2. asked < MaxAsked /\ asked' = asked + 1
    BY <1>5 DEF CreateExecution, Ask
  <2>3. Beginning' \subseteq Beginning
    BY <2>1, BeginningMoves
  <2>4. IsFiniteSet(Beginning)
    BY DEF AttemptInv
  <2>5. /\ IsFiniteSet(Beginning') /\ Cardinality(Beginning') <= Cardinality(Beginning)
        /\ Cardinality(Beginning) \in Nat /\ Cardinality(Beginning') \in Nat
    BY <2>3, <2>4, FS_Subset, FS_CardinalityType
  <2>6. Created(x, r)
    BY <1>5, CreateRows
  <2>7. \A y \in Executions : exec[y].attempt \in Nat
    BY DEF TaskInv, RecordsOK, ExecRow
  <2>8. \A y \in Executions : exec'[y].attempt <= exec[y].attempt /\ exec'[y].attempt \in Nat
    BY <2>6, <2>7 DEF Created
  <2>9. \A y \in Executions : exec'[y].attempt + Cardinality(Beginning') <= asked'
    BY <1>0, <2>2, <2>5, <2>7, <2>8 DEF AttemptInv
  <2> QED
    BY <1>0, <2>2, <2>5, <2>9 DEF AttemptInv
<1>6. ASSUME NEW p \in Procs, NEW x \in Executions, Regenerate(p, x) PROVE AttemptInv'
  <2>1. OnlyMoves(p) /\ job'[p].at = "begin" /\ job[p].at = "idle" /\ exec' = exec
    BY <1>6, RegenerateMoves DEF TaskInv
  <2>2. asked < MaxAsked /\ asked' = asked + 1
    BY <1>6 DEF Regenerate, Ask
  <2>3. Beginning' = Beginning \cup {p} /\ p \notin Beginning
    BY <2>1, BeginningMoves DEF Beginning, At
  <2>4. IsFiniteSet(Beginning) /\ Cardinality(Beginning) \in Nat
    BY FS_CardinalityType DEF AttemptInv
  <2>5. IsFiniteSet(Beginning') /\ Cardinality(Beginning') = Cardinality(Beginning) + 1
    BY <2>3, <2>4, FS_AddElement
  <2>6. \A y \in Executions : exec[y].attempt \in Nat
    BY DEF TaskInv, RecordsOK, ExecRow
  <2>7. \A y \in Executions : exec'[y].attempt + Cardinality(Beginning') <= asked'
    BY <1>0, <2>1, <2>2, <2>4, <2>5, <2>6 DEF AttemptInv
  <2> QED
    BY <1>0, <2>2, <2>5, <2>7 DEF AttemptInv
<1> QED
  BY <1>1, <1>2, <1>3, <1>4, <1>5, <1>6 DEF SummaryNext

\* Nothing has been regenerated at the start.
LEMMA AttemptInit == SummaryInit => AttemptInv
<1> SUFFICES ASSUME SummaryInit PROVE AttemptInv
  OBVIOUS
<1>1. asked = 0 /\ Beginning = {}
  BY IdleShape DEF SummaryInit, Beginning, At
<1>2. IsFiniteSet({}) /\ Cardinality({}) = 0
  BY FS_EmptySet
<1>3. \A x \in Executions : exec[x].attempt = 0
  <2>1. CASE StartsFresh
    BY <2>1 DEF StartsFresh, NoExecution
  <2>2. ASSUME NEW old, NEW r, NEW done, NEW v, NEW route, StartsDone(old, r, done, v, route)
        PROVE  \A x \in Executions : exec[x].attempt = 0
    BY <2>2 DEF StartsDone, NoExecution
  <2> QED
    BY <2>1, <2>2, Starts
<1> QED
  BY <1>1, <1>2, <1>3, SummaryAssumption DEF AttemptInv

\* The tables have their types: an execution is regenerated no more often than
\* was asked for, and no row of the workspace takes a shape its readers do not
\* know (the CHECK constraints of evidence_summaries/store.py:19-33).
THEOREM SummaryTyped == SummarySpec => []SummaryTypeOK
<1>1. TaskInv /\ AttemptInv => SummaryTypeOK
  <2> SUFFICES ASSUME TaskInv, AttemptInv PROVE SummaryTypeOK
    OBVIOUS
  <2>1. RecordsOK /\ TrustTypeOK
    BY DEF TaskInv, TrustInv
  <2>2. \A x \in Executions : exec[x].attempt \in 0 .. MaxAsked
    <3>1. IsFiniteSet(Beginning) /\ Cardinality(Beginning) \in Nat
      BY FS_CardinalityType DEF AttemptInv
    <3>2. \A x \in Executions : exec[x].attempt \in Nat
      BY <2>1 DEF RecordsOK, ExecRow
    <3> QED
      BY <3>1, <3>2, SummaryAssumption DEF AttemptInv
  <2>3. \A x \in Executions : exec[x] \in
          [status : {"absent", "extracting", "awaiting_execution", "summarizing", "completed",
                     "failed"},
           run : Runs \cup {"none"}, route : {"undetermined", "direct", "durable"},
           attempt : 0 .. MaxAsked, requested : BOOLEAN]
    BY <2>1, <2>2 DEF RecordsOK, ExecRow
  <2> QED
    BY <2>1, <2>3 DEF SummaryTypeOK, RecordsOK, SourceRow
<1> QED
  BY <1>1, TaskInit, TaskStep, AttemptInit, AttemptStep, PTL DEF SummarySpec

-----------------------------------------------------------------------------
(* An execution that is not regenerated while at work.                      *)

\* A step that is none of x's business.
Foreign(x) ==
  /\ exec'[x] = exec[x] /\ src'[x] = src[x]
  /\ \A t : t.x = x => (t \in tasks' <=> t \in tasks)
  /\ x \in lost => x \in lost'
  /\ \A u : <<x, u>> \in skipped => <<x, u>> \in skipped'
  /\ \A p \in Procs : Works(p, x) \/ Works(p, x)' => job'[p] = job[p]

\* What process p leaves of the execution x it works on: it goes on, or it
\* ends, or it hands it over to Temporal.
OwnMove(p, x) ==
  \/ /\ Works(p, x)' /\ Phase(p, x)' /\ \A t \in tasks' : t.x # x
     /\ exec'[x].status \in InProgress
     /\ job'[p].at \in {"schedule", "enter"} => exec'[x].status = "awaiting_execution"
  \/ /\ ~Works(p, x)' /\ \A t \in tasks' : t.x # x
     /\ exec'[x].status \notin InProgress \/ x \in lost'
     /\ DoneAt(x)'
  \/ /\ ~Works(p, x)' /\ \E t \in tasks' : t.x = x
     /\ \A s, t \in tasks' : s.x = x /\ t.x = x => s = t
     /\ exec'[x].status = "awaiting_execution" /\ Prepared(x)'

\* A step that is none of x's business keeps what is known of x.
LEMMA ForeignKeeps ==
  ASSUME NEW x \in Executions, InOrder(x), Foreign(x)
  PROVE  InOrder(x)'
<1>0. \A p \in Procs : (Works(p, x)' <=> Works(p, x)) /\ (Works(p, x) => job'[p] = job[p])
  BY DEF Foreign, Works
<1>1. AloneAt(x)'
  BY <1>0 DEF InOrder, AloneAt, Foreign
<1>2. StatusAt(x)'
  BY <1>0 DEF InOrder, StatusAt, Foreign
<1>3. Selected(x)' = Selected(x) /\ Summarized(x)' = Summarized(x)
  BY DEF Foreign, Selected, Summarized
<1>4. \A u : Accounted(x, u) => Accounted(x, u)'
  BY <1>3 DEF Foreign, Accounted
<1>5. DoneAt(x)'
  BY <1>3, <1>4 DEF InOrder, DoneAt, Foreign
<1>6. Bare(x)' = Bare(x) /\ Prepared(x)' = Prepared(x)
  BY DEF Foreign, Bare, Prepared
<1>7. ASSUME NEW p \in Procs, Works(p, x)' PROVE Phase(p, x)'
  <2>1. Works(p, x) /\ job'[p] = job[p] /\ job[p].x = x /\ job'[p].x = x
    BY <1>0, <1>7 DEF Works
  <2>2. Phase(p, x)
    BY <2>1 DEF InOrder, PhaseAt
  <2>3. InputUrls(p)' = InputUrls(p) /\ \A u : Input(p, u)' = Input(p, u)
    BY <2>1 DEF InputUrls, Input
  <2>4. VersionsHeld(p) => VersionsHeld(p)'
    BY <2>1, <2>3 DEF VersionsHeld, Foreign
  <2>5. PhaseChoosing(p, x) => PhaseChoosing(p, x)'
    BY <2>1, <2>3, <1>3, <1>4 DEF PhaseChoosing, Foreign
  <2> QED
    BY <2>1, <2>2, <2>3, <2>4, <2>5, <1>3, <1>4, <1>6 DEF Phase, Foreign
<1>8. PhaseAt(x)'
  BY <1>6, <1>7 DEF InOrder, PhaseAt, Foreign
<1> QED
  BY <1>1, <1>2, <1>5, <1>8 DEF InOrder

\* A step of the only process at work on x keeps it too.
LEMMA OwnKeeps ==
  ASSUME NEW x \in Executions, NEW p \in Procs, OnlyMoves(p), OwnMove(p, x),
         \A q \in Procs : q # p => ~Works(q, x)
  PROVE  InOrder(x)'
<1>0. \A q \in Procs : q # p => ~Works(q, x)'
  BY DEF OnlyMoves, Works
<1>1. AloneAt(x)'
  BY <1>0 DEF AloneAt, OwnMove
<1>2. StatusAt(x)'
  BY <1>0 DEF StatusAt, OwnMove, InProgress
<1>3. DoneAt(x)'
  BY DEF OwnMove, DoneAt, InProgress
<1>4. PhaseAt(x)'
  BY <1>0 DEF PhaseAt, OwnMove
<1> QED
  BY <1>1, <1>2, <1>3, <1>4 DEF InOrder

\* What is known of an execution by the process that works on it.
LEMMA Owned ==
  ASSUME NEW x \in Executions, InOrder(x), NEW p \in Procs, Works(p, x)
  PROVE  /\ Phase(p, x) /\ exec[x].status \in InProgress /\ \A t \in tasks : t.x # x
         /\ job[p].at \in {"schedule", "enter"} => exec[x].status = "awaiting_execution"
         /\ \A q \in Procs : q # p => ~Works(q, x)
BY DEF InOrder, AloneAt, StatusAt, PhaseAt

\* A step that leaves the sources of x as they are.
LEMMA SameRows ==
  ASSUME NEW x, src'[x] = src[x], exec'[x].requested = exec[x].requested,
         \A u : <<x, u>> \in skipped => <<x, u>> \in skipped'
  PROVE  /\ Selected(x)' = Selected(x) /\ Summarized(x)' = Summarized(x)
         /\ Bare(x)' = Bare(x) /\ Prepared(x)' = Prepared(x)
         /\ \A u : Accounted(x, u) => Accounted(x, u)'
<1>1. Selected(x)' = Selected(x) /\ Summarized(x)' = Summarized(x)
  BY DEF Selected, Summarized
<1>2. Bare(x)' = Bare(x) /\ Prepared(x)' = Prepared(x)
  BY DEF Bare, Prepared
<1> QED
  BY <1>1, <1>2 DEF Accounted

\* Its inputs are what they were.
LEMMA SameInputs ==
  ASSUME NEW p, job'[p].inputs = job[p].inputs
  PROVE  InputUrls(p)' = InputUrls(p) /\ \A u : Input(p, u)' = Input(p, u)
BY DEF InputUrls, Input

\* Loading x: its completed sources are those with a summary.
LEMMA LoadOwn ==
  ASSUME TaskInv, NEW p \in Procs, NEW x \in Executions, x = job[p].x, InOrder(x), Load(p)
  PROVE  OwnMove(p, x)
<1>1. /\ job[p].at = "load" /\ job'[p].at = "next"
      /\ job'[p].mode = job[p].mode /\ job'[p].x = x
      /\ job'[p].inputs = job[p].inputs /\ job'[p].todo = Selected(x)
      /\ job'[p].done = Summarized(x) /\ job'[p].again = exec[x].requested
      /\ exec' = exec /\ src' = src /\ tasks' = tasks /\ skipped' = skipped
  BY LoadMoves DEF TaskInv, marks
<1>2. Works(p, x) /\ Works(p, x)'
  BY <1>1 DEF Works, Working, Choosing
<1>3. Phase(p, x) /\ exec[x].status \in InProgress /\ \A t \in tasks : t.x # x
  BY <1>2, Owned
<1>4. /\ Selected(x)' = Selected(x) /\ Summarized(x)' = Summarized(x)
      /\ Bare(x)' = Bare(x) /\ Prepared(x)' = Prepared(x)
  BY <1>1, SameRows
<1>5. job[p].inputs = {} /\ InputUrls(p)' = {}
  BY <1>1 DEF TaskInv, TaskOK, InputUrls
<1>6. Prepared(x) /\ (job[p].mode # "execute" => Bare(x))
  BY <1>1, <1>3 DEF Phase
<1>7. PhaseChoosing(p, x)'
  <2>1. \A u \in Selected(x) : /\ u \in Summarized(x) <=> src[x][u].summary # "none"
                               /\ src[x][u].summary # "none" =>
                                    src[x][u].status = "completed" /\ job[p].mode = "execute"
    BY <1>6 DEF Selected, Summarized, Prepared, Bare
  <2> QED
    BY <1>1, <1>4, <1>5, <2>1 DEF PhaseChoosing
<1>8. Phase(p, x)'
  BY <1>1, <1>4, <1>5, <1>6, <1>7 DEF Phase, Prepared, Choosing, Calling
<1> QED
  BY <1>1, <1>2, <1>3, <1>8 DEF OwnMove

\* A step within the choice of sources that changes no row of them.
LEMMA ChoosingOwn ==
  ASSUME TaskInv, NEW p \in Procs, NEW x \in Executions, x = job[p].x, InOrder(x),
         job[p].at \in Choosing, job'[p].at \in Choosing, Keeps(p),
         job'[p].inputs = job[p].inputs, job'[p].todo \subseteq job[p].todo,
         exec' = exec, src' = src, tasks' = tasks,
         \A u : <<x, u>> \in skipped => <<x, u>> \in skipped',
         \A u \in job[p].todo \ job'[p].todo : Accounted(x, u)'
  PROVE  OwnMove(p, x)
<1>1. Works(p, x) /\ Works(p, x)'
  BY DEF Works, Working, Keeps
<1>2. Phase(p, x) /\ exec[x].status \in InProgress /\ \A t \in tasks : t.x # x
  BY <1>1, Owned
<1>3. /\ Selected(x)' = Selected(x) /\ Summarized(x)' = Summarized(x)
      /\ Bare(x)' = Bare(x) /\ Prepared(x)' = Prepared(x)
      /\ \A u : Accounted(x, u) => Accounted(x, u)'
  BY SameRows
<1>4. InputUrls(p)' = InputUrls(p)
  BY SameInputs
<1>5. PhaseChoosing(p, x)
  BY <1>2 DEF Phase
<1>6. PhaseChoosing(p, x)'
  <2>1. \A u \in Selected(x) \ job'[p].todo : Accounted(x, u)' \/ u \in InputUrls(p)
    BY <1>3, <1>5 DEF PhaseChoosing
  <2> QED
    BY <1>3, <1>4, <1>5, <2>1 DEF PhaseChoosing, Keeps
<1>7. Phase(p, x)'
  BY <1>2, <1>3, <1>4, <1>6 DEF Phase, Choosing, Calling, Keeps
<1> QED
  BY <1>1, <1>2, <1>7 DEF OwnMove, Choosing

\* A skipped source is accounted for.
LEMMA SkipOwn ==
  ASSUME TaskInv, NEW p \in Procs, NEW x \in Executions, x = job[p].x, InOrder(x),
         NEW u \in job[p].todo, SkipUnavailable(p, u)
  PROVE  OwnMove(p, x)
<1>1. /\ Keeps(p) /\ job[p].at = "next" /\ job'[p].at = "next"
      /\ job'[p].todo = job[p].todo \ {u} /\ job'[p].inputs = job[p].inputs
      /\ skipped' = skipped \cup {<<x, u>>}
      /\ exec' = exec /\ src' = src /\ tasks' = tasks
  BY SkipMoves DEF TaskInv
<1>2. Accounted(x, u)'
  BY <1>1 DEF Accounted
<1> QED
  BY <1>1, <1>2, ChoosingOwn DEF Choosing

\* Looking at an evaluation changes no row of x.
LEMMA LookOwn ==
  ASSUME TaskInv, NEW p \in Procs, NEW x \in Executions, x = job[p].x, InOrder(x),
         NEW u \in job[p].todo, LookForEvaluation(p, u)
  PROVE  OwnMove(p, x)
<1>1. /\ Keeps(p) /\ job[p].at = "next" /\ job'[p].at \in {"refuse", "admit", "record"}
      /\ job'[p].todo = job[p].todo /\ job'[p].inputs = job[p].inputs
      /\ exec' = exec /\ src' = src /\ tasks' = tasks /\ skipped' = skipped
  BY LookMoves DEF TaskInv, Admission, marks
<1> QED
  BY <1>1, ChoosingOwn DEF Choosing

\* Evaluating changes no row of x.
LEMMA EvaluateOwn ==
  ASSUME TaskInv, NEW p \in Procs, NEW x \in Executions, x = job[p].x, InOrder(x), Evaluate(p)
  PROVE  OwnMove(p, x)
<1>1. /\ Goto(p, Admission(Disposition(job[p].version))) /\ job[p].at = "record"
      /\ exec' = exec /\ src' = src /\ tasks' = tasks /\ skipped' = skipped
  BY DEF Evaluate, At, rows, marks
<1>2. /\ Keeps(p) /\ job'[p].at \in {"refuse", "admit"}
      /\ job'[p].todo = job[p].todo /\ job'[p].inputs = job[p].inputs
  BY <1>1, Went DEF TaskInv, Admission
<1> QED
  BY <1>1, <1>2, ChoosingOwn DEF Choosing

\* A source summarized before keeps its summary.
LEMMA KeepOwn ==
  ASSUME TaskInv, NEW p \in Procs, NEW x \in Executions, x = job[p].x, InOrder(x), KeepDone(p)
  PROVE  OwnMove(p, x)
<1>1. PICK u : u = job[p].url
  OBVIOUS
<1>2. /\ NextSource(p) /\ job[p].at = "admit" /\ u \in job[p].done
      /\ exec' = exec /\ src' = src /\ tasks' = tasks /\ skipped' = skipped
  BY <1>1 DEF KeepDone, At, rows, marks
<1>3. /\ Keeps(p) /\ job'[p].at = "next"
      /\ job'[p].todo = job[p].todo \ {u} /\ job'[p].inputs = job[p].inputs
  BY <1>1, <1>2, WentNext DEF TaskInv
<1>4. u \in job[p].todo /\ u \in Selected(x)
  BY <1>1, <1>2 DEF TaskInv, TaskOK, ChoosingOK, Choosing
<1>5. Works(p, x)
  BY <1>2 DEF Works, Working, Choosing
<1>6. PhaseChoosing(p, x)
  BY <1>2, <1>5, Owned DEF Phase, Choosing
<1>7. u \in Summarized(x)
  BY <1>2, <1>4, <1>6 DEF PhaseChoosing, Summarized, Selected
<1>8. Accounted(x, u)'
  BY <1>2, <1>7 DEF Accounted, Summarized
<1> QED
  BY <1>2, <1>3, <1>8, ChoosingOwn DEF Choosing

\* A step that writes one row of the sources of x.
LEMMA OneRow ==
  ASSUME NEW x \in Executions, NEW u \in Selected(x), NEW new \in SourceRow, OnlyRow(x, u, new),
         new.status # "absent", skipped' = skipped
  PROVE  /\ src'[x][u] = new /\ Selected(x)' = Selected(x)
         /\ \A w \in Sources : w # u => src'[x][w] = src[x][w]
         /\ \A w \in Sources : w # u /\ Accounted(x, w) => Accounted(x, w)'
         /\ new.status = "failed" => Accounted(x, u)'
         /\ new.status = "completed" /\ new.summary # "none" => Accounted(x, u)'
<1>1. /\ src'[x][u] = new /\ u \in Sources
      /\ \A w \in Sources : w # u => src'[x][w] = src[x][w]
  BY DEF OnlyRow
<1>2. Selected(x)' = Selected(x)
  BY <1>1 DEF Selected
<1>3. \A w \in Sources : w # u /\ Accounted(x, w) => Accounted(x, w)'
  BY <1>1 DEF Accounted, Summarized
<1> QED
  BY <1>1, <1>2, <1>3 DEF Accounted, Summarized

\* One source is decided, and its row says so.
LEMMA DecidedOwn ==
  ASSUME TaskInv, NEW p \in Procs, NEW x \in Executions, x = job[p].x, InOrder(x),
         NEW u \in Selected(x), u \in job[p].todo, NEW new \in SourceRow, OnlyRow(x, u, new),
         new.status = "failed" \/ (new.status = "completed" /\ new.summary # "none"),
         exec[x].requested => new.summary = "none",
         job[p].mode # "execute" /\ new.summary # "none" => new.status = "completed",
         job[p].at \in Choosing, job'[p].at = "next", Keeps(p),
         job'[p].inputs = job[p].inputs, job'[p].todo = job[p].todo \ {u},
         exec' = exec, tasks' = tasks, skipped' = skipped
  PROVE  OwnMove(p, x)
<1>1. Works(p, x) /\ Works(p, x)'
  BY DEF Works, Working, Keeps, Choosing
<1>2. Phase(p, x) /\ exec[x].status \in InProgress /\ \A t \in tasks : t.x # x
  BY <1>1, Owned
<1>3. /\ src'[x][u] = new /\ Selected(x)' = Selected(x)
      /\ \A w \in Sources : w # u => src'[x][w] = src[x][w]
      /\ \A w \in Sources : w # u /\ Accounted(x, w) => Accounted(x, w)'
      /\ Accounted(x, u)'
  BY OneRow
<1>4. InputUrls(p)' = InputUrls(p)
  BY SameInputs
<1>5. /\ PhaseChoosing(p, x)
      /\ job[p].mode # "execute" => Prepared(x)
      /\ exec[x].requested => Bare(x)
      /\ \A w \in InputUrls(p) : src[x][w].summary = "none"
  BY <1>2 DEF Phase
<1>6. job[p].todo \subseteq Sources /\ Selected(x) \subseteq Sources /\ u \notin InputUrls(p)
      /\ InputUrls(p) \subseteq Sources
  BY <1>5 DEF TaskInv, TaskOK, InputsOK, InputUrls, Selected, Choosing, PhaseChoosing
<1>7. PhaseChoosing(p, x)'
  <2>1. \A w \in Selected(x) \ job'[p].todo : Accounted(x, w)' \/ w \in InputUrls(p)
    BY <1>3, <1>5, <1>6 DEF PhaseChoosing
  <2>2. \A w \in job'[p].todo : w \in job[p].todo /\ src'[x][w] = src[x][w]
    BY <1>3, <1>6
  <2> QED
    BY <1>3, <1>4, <1>5, <2>1, <2>2 DEF PhaseChoosing, Keeps
<1>8. exec'[x].requested => Bare(x)'
  BY <1>3, <1>5 DEF Bare
<1>9. job'[p].mode # "execute" => Prepared(x)'
  BY <1>3, <1>5, <1>8 DEF Prepared, Keeps
<1>10. \A w \in InputUrls(p) : src'[x][w].summary = "none"
  BY <1>3, <1>5, <1>6
<1>11. Phase(p, x)'
  BY <1>4, <1>7, <1>8, <1>9, <1>10 DEF Phase, Choosing, Calling
<1> QED
  BY <1>1, <1>2, <1>11 DEF OwnMove

\* A refused source is accounted for.
LEMMA FailureOwn ==
  ASSUME TaskInv, NEW p \in Procs, NEW x \in Executions, x = job[p].x, InOrder(x),
         RecordSourceFailure(p)
  PROVE  OwnMove(p, x)
<1>1. PICK u \in Selected(x), new \in SourceRow :
        /\ u = job[p].url /\ u \in job[p].todo /\ OnlyRow(x, u, new)
        /\ new.status = "failed" /\ new.summary = src[x][u].summary
  BY FailureRow
<1>2. /\ NextSource(p) /\ job[p].at = "refuse"
      /\ exec' = exec /\ tasks' = tasks /\ skipped' = skipped
  BY DEF RecordSourceFailure, At, marks
<1>3. /\ Keeps(p) /\ job'[p].at = "next"
      /\ job'[p].todo = job[p].todo \ {u} /\ job'[p].inputs = job[p].inputs
  BY <1>1, <1>2, WentNext DEF TaskInv
<1>4. Works(p, x)
  BY <1>2 DEF Works, Working, Choosing
<1>5. PhaseChoosing(p, x) /\ (exec[x].requested => Bare(x))
  BY <1>2, <1>4, Owned DEF Phase, Choosing
<1>6. /\ exec[x].requested => new.summary = "none"
      /\ job[p].mode # "execute" => new.summary = "none"
  BY <1>1, <1>5 DEF PhaseChoosing, Bare, Selected
<1> QED
  BY <1>1, <1>2, <1>3, <1>6, DecidedOwn DEF Choosing

\* A source taken over has a summary.
LEMMA ReuseOwn ==
  ASSUME TaskInv, NEW p \in Procs, NEW x \in Executions, x = job[p].x, InOrder(x),
         ReuseMatchingArtifact(p)
  PROVE  OwnMove(p, x)
<1>1. PICK u \in Selected(x), v \in Versions, text \in Versions, new \in SourceRow :
        /\ u = job[p].url /\ u \in job[p].todo /\ OnlyRow(x, u, new)
        /\ new.status = "completed" /\ new.summary = text
  BY ReuseRow
<1>2. /\ NextSource(p) /\ job[p].at = "admit" /\ ~job[p].again
      /\ exec' = exec /\ tasks' = tasks /\ skipped' = skipped
  BY DEF ReuseMatchingArtifact, At, marks
<1>3. /\ Keeps(p) /\ job'[p].at = "next"
      /\ job'[p].todo = job[p].todo \ {u} /\ job'[p].inputs = job[p].inputs
  BY <1>1, <1>2, WentNext DEF TaskInv
<1>4. Works(p, x)
  BY <1>2 DEF Works, Working, Choosing
<1>5. PhaseChoosing(p, x)
  BY <1>2, <1>4, Owned DEF Phase, Choosing
<1>6. ~exec[x].requested /\ new.summary # "none"
  BY <1>1, <1>2, <1>5, NoneAssumption DEF PhaseChoosing
<1> QED
  BY <1>1, <1>2, <1>3, <1>6, DecidedOwn DEF Choosing

\* An admitted source waits for its summary.
LEMMA AddOwn ==
  ASSUME TaskInv, NEW p \in Procs, NEW x \in Executions, x = job[p].x, InOrder(x), AddInput(p)
  PROVE  OwnMove(p, x)
<1>1. PICK u, v : u = job[p].url /\ v = job[p].version
  OBVIOUS
<1>2. /\ Keeps(p) /\ job[p].at = "admit" /\ job'[p].at = "next"
      /\ job'[p].todo = job[p].todo \ {u}
      /\ job'[p].inputs = job[p].inputs \cup {[url |-> u, version |-> v]}
      /\ exec' = exec /\ src' = src /\ tasks' = tasks /\ skipped' = skipped
  BY <1>1, AddMoves DEF TaskInv, marks
<1>3. job[p].again \/ u \notin job[p].done
  BY <1>1 DEF AddInput
<1>4. Works(p, x) /\ Works(p, x)'
  BY <1>2 DEF Works, Working, Choosing, Keeps
<1>5. Phase(p, x) /\ exec[x].status \in InProgress /\ \A t \in tasks : t.x # x
  BY <1>4, Owned
<1>6. /\ PhaseChoosing(p, x)
      /\ job[p].mode # "execute" => Prepared(x)
      /\ exec[x].requested => Bare(x)
      /\ \A w \in InputUrls(p) : src[x][w].summary = "none"
  BY <1>2, <1>5 DEF Phase, Choosing
<1>7. u \in job[p].todo /\ u \in Selected(x) /\ u \in Sources
  BY <1>1, <1>2 DEF TaskInv, TaskOK, ChoosingOK, Choosing, Selected
<1>8. src[x][u].summary = "none"
  BY <1>3, <1>6, <1>7 DEF PhaseChoosing, Bare
<1>9. InputUrls(p)' = InputUrls(p) \cup {u}
  <2> DEFINE i == [url |-> u, version |-> v]
  <2>1. i.url = u /\ job'[p].inputs = job[p].inputs \cup {i}
    BY <1>2
  <2> HIDE DEF i
  <2> QED
    BY <2>1 DEF InputUrls
<1>10. /\ Selected(x)' = Selected(x) /\ Bare(x)' = Bare(x) /\ Prepared(x)' = Prepared(x)
       /\ \A w : Accounted(x, w) => Accounted(x, w)'
  BY <1>2, SameRows
<1>11. PhaseChoosing(p, x)'
  <2>1. \A w \in Selected(x) \ job'[p].todo : Accounted(x, w)' \/ w \in InputUrls(p)'
    BY <1>2, <1>6, <1>9, <1>10 DEF PhaseChoosing
  <2> QED
    BY <1>2, <1>6, <1>9, <1>10, <2>1 DEF PhaseChoosing, Keeps
<1>12. Phase(p, x)'
  BY <1>2, <1>6, <1>8, <1>9, <1>10, <1>11 DEF Phase, Choosing, Calling, Keeps
<1> QED
  BY <1>2, <1>4, <1>5, <1>12 DEF OwnMove

\* An execution in progress is not done.
LEMMA NotDone ==
  ASSUME NEW x, exec'[x].status # "completed"
  PROVE  DoneAt(x)'
BY DEF DoneAt

\* A process that ends with an execution that stays in progress is lost.
LEMMA LostOwn ==
  ASSUME NEW p \in Procs, NEW x \in Executions, InOrder(x), Works(p, x),
         job'[p].at = "idle", exec' = exec, tasks' = tasks, x \in lost'
  PROVE  OwnMove(p, x)
<1>1. exec[x].status \in InProgress /\ \A t \in tasks : t.x # x
  BY Owned
<1>2. ~Works(p, x)'
  BY DEF Works, Working, Choosing, Calling
<1> QED
  BY <1>1, <1>2, NotDone DEF OwnMove, InProgress

\* Without an input and a summary x fails, or is lost where the code raises.
LEMMA NothingOwn ==
  ASSUME TaskInv, NEW p \in Procs, NEW x \in Executions, x = job[p].x, InOrder(x),
         NothingToSummarize(p)
  PROVE  OwnMove(p, x)
<1>1. /\ job[p].at = "next" /\ job[p].inputs = {} /\ job[p].todo = {}
      /\ exec' = exec /\ src' = src /\ tasks' = tasks /\ skipped' = skipped
  BY DEF NothingToSummarize, At, rows
<1>2. \/ Goto(p, "settle") /\ \E u \in Sources : src[x][u].status = "completed"
      \/ Goto(p, "fail")
      \/ Stop(p) /\ lost' = lost \cup {x}
  BY DEF NothingToSummarize
<1>3. Works(p, x)
  BY <1>1 DEF Works, Working, Choosing
<1>4. Phase(p, x) /\ exec[x].status \in InProgress /\ \A t \in tasks : t.x # x
  BY <1>3, Owned
<1>5. CASE Stop(p) /\ lost' = lost \cup {x}
  BY <1>1, <1>3, <1>5, Stopped, LostOwn DEF TaskInv
<1>6. CASE Goto(p, "fail")
  <2>1. job'[p].at = "fail" /\ job'[p].x = x
    BY <1>6, Went DEF TaskInv, Keeps
  <2>2. Works(p, x)' /\ Phase(p, x)'
    BY <2>1 DEF Works, Working, Phase, Choosing, Calling
  <2> QED
    BY <1>1, <1>4, <2>1, <2>2 DEF OwnMove
<1>7. CASE Goto(p, "settle") /\ \E u \in Sources : src[x][u].status = "completed"
  <2>1. job'[p].at = "settle" /\ job'[p].x = x
    BY <1>7, Went DEF TaskInv, Keeps
  <2>2. Summarized(x) # {}
    BY <1>7, NoneAssumption DEF TaskInv, RecordsOK, RowOK, Summarized
  <2>3. \A u \in Selected(x) : Accounted(x, u)
    BY <1>1, <1>4 DEF Phase, PhaseChoosing, Choosing, InputUrls
  <2>4. /\ Selected(x)' = Selected(x) /\ Summarized(x)' = Summarized(x)
        /\ \A u : Accounted(x, u) => Accounted(x, u)'
    BY <1>1, SameRows
  <2>5. Works(p, x)' /\ Phase(p, x)'
    BY <2>1, <2>2, <2>3, <2>4 DEF Works, Working, Phase, Choosing, Calling
  <2> QED
    BY <1>1, <1>4, <2>1, <2>5 DEF OwnMove
<1> QED
  BY <1>2, <1>5, <1>6, <1>7

\* With summaries and no input x is to be completed.
LEMMA SettleOwn ==
  ASSUME TaskInv, NEW p \in Procs, NEW x \in Executions, x = job[p].x, InOrder(x), Settle(p)
  PROVE  OwnMove(p, x)
<1>1. /\ Keeps(p) /\ job[p].at = "settle" /\ job'[p].at = "call"
      /\ job'[p].todo = {} /\ job'[p].inputs = job[p].inputs
      /\ src' = src /\ tasks' = tasks /\ skipped' = skipped
  BY SettleMoves DEF TaskInv, marks
<1>2. exec'[x].status = "awaiting_execution" /\ exec'[x].requested = exec[x].requested
  BY ExecMoves DEF TurnsTo
<1>3. Works(p, x) /\ Works(p, x)'
  BY <1>1 DEF Works, Working, Calling, Keeps
<1>4. Phase(p, x) /\ \A t \in tasks : t.x # x
  BY <1>3, Owned
<1>5. /\ Selected(x)' = Selected(x) /\ Summarized(x)' = Summarized(x)
      /\ \A u : Accounted(x, u) => Accounted(x, u)'
  BY <1>1, <1>2, SameRows
<1>6. InputUrls(p)' = {}
  BY <1>1 DEF TaskInv, TaskOK, InputUrls
<1>7. VersionsHeld(p)'
  BY <1>1, <1>6 DEF VersionsHeld
<1>8. Phase(p, x)'
  BY <1>1, <1>4, <1>5, <1>7 DEF Phase, Choosing, Calling
<1> QED
  BY <1>1, <1>2, <1>3, <1>4, <1>8 DEF OwnMove, InProgress

\* Every selected source is an input or accounted for.
LEMMA StartOwn ==
  ASSUME TaskInv, NEW p \in Procs, NEW x \in Executions, x = job[p].x, InOrder(x),
         StartExtracted(p)
  PROVE  OwnMove(p, x)
<1>1. /\ Keeps(p) /\ job[p].at = "next" /\ job'[p].at = "extracted"
      /\ job[p].todo = {} /\ job[p].inputs # {}
      /\ job'[p].todo = InputUrls(p) /\ job'[p].inputs = job[p].inputs
      /\ exec' = exec /\ src' = src /\ tasks' = tasks /\ skipped' = skipped
  BY StartMoves DEF TaskInv, marks
<1>2. Works(p, x) /\ Works(p, x)'
  BY <1>1 DEF Works, Working, Choosing, Keeps
<1>3. Phase(p, x) /\ exec[x].status \in InProgress /\ \A t \in tasks : t.x # x
  BY <1>2, Owned
<1>4. /\ Selected(x)' = Selected(x) /\ Bare(x)' = Bare(x) /\ Prepared(x)' = Prepared(x)
      /\ \A u : Accounted(x, u) => Accounted(x, u)'
  BY <1>1, SameRows
<1>5. InputUrls(p)' = InputUrls(p)
  BY <1>1, SameInputs
<1>6. VersionsHeld(p)'
  BY <1>1, <1>5 DEF VersionsHeld
<1>7. \A u \in Selected(x) : Accounted(x, u)' \/ u \in InputUrls(p)
  BY <1>1, <1>3, <1>4 DEF Phase, PhaseChoosing, Choosing
<1>8. Phase(p, x)'
  BY <1>1, <1>3, <1>4, <1>5, <1>6, <1>7 DEF Phase, Choosing, Calling, Keeps
<1> QED
  BY <1>1, <1>2, <1>3, <1>8 DEF OwnMove

\* A recorded version is the one of the input.
LEMMA ExtractedOwn ==
  ASSUME TaskInv, NEW p \in Procs, NEW x \in Executions, x = job[p].x, InOrder(x),
         NEW u \in job[p].todo, RecordSourceExtracted(p, u)
  PROVE  OwnMove(p, x)
<1>1. /\ Keeps(p) /\ job[p].at = "extracted" /\ job'[p].at = "extracted"
      /\ job'[p].todo = job[p].todo \ {u} /\ job'[p].inputs = job[p].inputs
      /\ exec' = exec /\ tasks' = tasks /\ skipped' = skipped
  BY ExtractedMoves DEF TaskInv, marks
<1>2. PICK new \in SourceRow :
        /\ u \in Selected(x) /\ u \in InputUrls(p) /\ OnlyRow(x, u, new)
        /\ new.status = "extracted" /\ new.version = Input(p, u)
        /\ new.summary = src[x][u].summary
  BY ExtractedRow
<1>3. Works(p, x) /\ Works(p, x)'
  BY <1>1 DEF Works, Working, Keeps
<1>4. Phase(p, x) /\ exec[x].status \in InProgress /\ \A t \in tasks : t.x # x
  BY <1>3, Owned
<1>5. /\ src'[x][u] = new /\ Selected(x)' = Selected(x)
      /\ \A w \in Sources : w # u => src'[x][w] = src[x][w]
      /\ \A w \in Sources : w # u /\ Accounted(x, w) => Accounted(x, w)'
  BY <1>1, <1>2, OneRow
<1>6. InputUrls(p)' = InputUrls(p) /\ \A w : Input(p, w)' = Input(p, w)
  BY <1>1, SameInputs
<1>7. /\ job[p].mode # "execute" => Prepared(x)
      /\ exec[x].requested => Bare(x)
      /\ \A w \in InputUrls(p) : src[x][w].summary = "none"
      /\ job[p].inputs # {} /\ VersionsHeld(p)
      /\ \A w \in Selected(x) : Accounted(x, w) \/ w \in InputUrls(p)
  BY <1>1, <1>4 DEF Phase
<1>8. InputUrls(p) \subseteq Sources /\ Selected(x) \subseteq Sources
  BY <1>1 DEF TaskInv, TaskOK, InputsOK, InputUrls, Selected
<1>9. \A w \in Sources : src'[x][w].summary = src[x][w].summary
  BY <1>2, <1>5
<1>10. Bare(x)' <=> Bare(x)
  BY <1>9 DEF Bare
<1>11. job[p].mode # "execute" => Prepared(x)'
  BY <1>1, <1>2, <1>5, <1>7, <1>9, <1>10 DEF Prepared
<1>12. VersionsHeld(p)'
  <2>1. \A w \in InputUrls(p) : src'[x][w].version = Input(p, w) \/ w \in job'[p].todo
    BY <1>1, <1>2, <1>5, <1>7, <1>8 DEF VersionsHeld
  <2> QED
    BY <1>1, <1>6, <2>1 DEF VersionsHeld, Keeps
<1>13. \A w \in Selected(x) : Accounted(x, w)' \/ w \in InputUrls(p)
  BY <1>2, <1>5, <1>7, <1>8
<1>14. Phase(p, x)'
  BY <1>1, <1>5, <1>6, <1>7, <1>8, <1>9, <1>10, <1>11, <1>12, <1>13 DEF Phase, Choosing, Calling, Keeps
<1> QED
  BY <1>1, <1>3, <1>4, <1>14 DEF OwnMove

\* With its route x waits for its execution.
LEMMA RouteOwn ==
  ASSUME TaskInv, NEW p \in Procs, NEW x \in Executions, x = job[p].x, InOrder(x),
         SetExecutionRoute(p)
  PROVE  OwnMove(p, x)
<1>1. /\ job[p].at = "extracted" /\ job[p].todo = {} /\ job'[p].x = x
      /\ \/ /\ Keeps(p) /\ job'[p].todo = job[p].todo /\ job'[p].inputs = job[p].inputs
            /\ \/ job[p].mode = "execute" /\ job'[p].at = "summarizing"
               \/ job[p].mode # "execute" /\ job'[p].at = "schedule"
         \/ /\ job'[p].mode = "execute" /\ job'[p].at = "enter" /\ job[p].mode # "execute"
            /\ job'[p].todo = {} /\ job'[p].inputs = {}
      /\ src' = src /\ tasks' = tasks /\ skipped' = skipped
  BY RouteMoves DEF TaskInv, marks
<1>2. exec'[x].status = "awaiting_execution" /\ exec'[x].requested = exec[x].requested
  BY ExecMoves DEF TurnsTo
<1>3. Works(p, x) /\ Works(p, x)'
  BY <1>1 DEF Works, Working
<1>4. Phase(p, x) /\ \A t \in tasks : t.x # x
  BY <1>3, Owned
<1>5. /\ Selected(x)' = Selected(x) /\ Bare(x)' = Bare(x) /\ Prepared(x)' = Prepared(x)
      /\ \A u : Accounted(x, u) => Accounted(x, u)'
  BY <1>1, <1>2, SameRows
<1>6. CASE job[p].mode # "execute" /\ job'[p].at \in {"schedule", "enter"}
  <2>1. Prepared(x)'
    BY <1>1, <1>4, <1>5, <1>6 DEF Phase
  <2>2. Phase(p, x)'
    BY <1>6, <2>1 DEF Phase, Choosing, Calling
  <2> QED
    BY <1>1, <1>2, <1>3, <1>4, <2>2 DEF OwnMove, InProgress
<1>7. CASE Keeps(p) /\ job'[p].at = "summarizing" /\ job'[p].inputs = job[p].inputs
  <2>1. InputUrls(p)' = InputUrls(p) /\ \A w : Input(p, w)' = Input(p, w)
    BY <1>7, SameInputs
  <2>2. VersionsHeld(p)'
    BY <1>1, <1>4, <1>7, <2>1 DEF Phase, VersionsHeld
  <2>3. Phase(p, x)'
    BY <1>1, <1>2, <1>4, <1>5, <1>7, <2>1, <2>2 DEF Phase, Choosing, Calling
  <2> QED
    BY <1>1, <1>2, <1>3, <1>4, <1>7, <2>3 DEF OwnMove, InProgress
<1> QED
  BY <1>1, <1>6, <1>7

\* x has failed, or completed with every selected source accounted for.
LEMMA EndOwn ==
  ASSUME TaskInv, NEW p \in Procs, NEW x \in Executions, x = job[p].x, InOrder(x),
         FailExecution(p) \/ CompleteExecution(p)
  PROVE  OwnMove(p, x)
<1>1. /\ job[p].at \in {"fail", "call"} /\ Stop(p)
      /\ src' = src /\ tasks' = tasks /\ skipped' = skipped
  BY DEF FailExecution, CompleteExecution, At, marks
<1>2. Works(p, x)
  BY <1>1 DEF Works, Working, Calling
<1>3. Phase(p, x) /\ \A t \in tasks : t.x # x
  BY <1>2, Owned
<1>4. ~Works(p, x)'
  BY <1>1, Stopped DEF TaskInv, Works, Working, Choosing, Calling
<1>5. CASE FailExecution(p)
  <2>1. exec'[x].status = "failed"
    BY <1>5, ExecMoves DEF TurnsTo
  <2> QED
    BY <1>1, <1>3, <1>4, <2>1, NotDone DEF OwnMove, InProgress
<1>6. CASE CompleteExecution(p)
  <2>1. exec'[x].status = "completed" /\ job[p].at = "call" /\ job[p].todo = {}
    BY <1>6, ExecMoves DEF TurnsTo, CompleteExecution, At
  <2>2. Summarized(x) # {} /\ \A u \in Selected(x) : Accounted(x, u)
    BY <1>3, <2>1 DEF Phase, Calling
  <2>3. /\ Selected(x)' = Selected(x) /\ Summarized(x)' = Summarized(x)
    BY <1>1 DEF Selected, Summarized
  <2>4. \A u \in Selected(x) : Accounted(x, u)'
    BY <1>1, <2>2, <2>3 DEF Accounted
  <2>5. DoneAt(x)'
    BY <2>2, <2>3, <2>4 DEF DoneAt
  <2> QED
    BY <1>1, <1>3, <1>4, <2>1, <2>5 DEF OwnMove, InProgress
<1> QED
  BY <1>5, <1>6

\* x is handed to one task, or is to fail, or is lost.
LEMMA ScheduleOwn ==
  ASSUME TaskInv, NEW p \in Procs, NEW x \in Executions, x = job[p].x, InOrder(x), Schedule(p)
  PROVE  OwnMove(p, x)
<1>1. job[p].at = "schedule" /\ exec' = exec /\ src' = src
  BY DEF Schedule, At, rows
<1>2. Works(p, x)
  BY <1>1 DEF Works, Working
<1>3. /\ Phase(p, x) /\ \A t \in tasks : t.x # x
      /\ exec[x].status \in InProgress /\ exec[x].status = "awaiting_execution"
  BY <1>1, <1>2, Owned
<1>4. CASE tasks' = tasks \cup {[x |-> x, attempt |-> exec[x].attempt]} /\ Stop(p)
  <2> DEFINE t0 == [x |-> x, attempt |-> exec[x].attempt]
  <2>1. t0.x = x /\ tasks' = tasks \cup {t0}
    BY <1>4
  <2> HIDE DEF t0
  <2>2. /\ \E t \in tasks' : t.x = x
        /\ \A s, t \in tasks' : s.x = x /\ t.x = x => s = t
    BY <1>3, <2>1
  <2>3. ~Works(p, x)'
    BY <1>4, Stopped DEF TaskInv, Works, Working, Choosing, Calling
  <2>4. Prepared(x)'
    BY <1>1, <1>3 DEF Phase, Prepared, Bare
  <2> QED
    BY <1>1, <1>3, <2>2, <2>3, <2>4 DEF OwnMove
<1>5. CASE Goto(p, "fail") /\ UNCHANGED <<tasks, marks>>
  <2>1. job'[p].at = "fail" /\ job'[p].x = x
    BY <1>5, Went DEF TaskInv, Keeps
  <2>2. Works(p, x)' /\ Phase(p, x)'
    BY <2>1 DEF Works, Working, Phase, Choosing, Calling
  <2> QED
    BY <1>1, <1>3, <1>5, <2>1, <2>2 DEF OwnMove
<1>6. CASE Stop(p) /\ lost' = lost \cup {x} /\ tasks' = tasks
  BY <1>1, <1>2, <1>6, Stopped, LostOwn DEF TaskInv
<1> QED
  BY <1>4, <1>5, <1>6 DEF Schedule, Unscheduled

\* The one process that enters x finds it awaiting its execution.
LEMMA EnterOwn ==
  ASSUME TaskInv, NEW p \in Procs, NEW x \in Executions, x = job[p].x, InOrder(x), Enter(p)
  PROVE  OwnMove(p, x)
<1>1. /\ job[p].at = "enter" /\ exec' = exec /\ src' = src /\ tasks' = tasks
      /\ exec[x].status = "awaiting_execution" => Goto(p, "load")
  BY DEF Enter, At, rows
<1>2. Works(p, x)
  BY <1>1 DEF Works, Working
<1>3. /\ Phase(p, x) /\ \A t \in tasks : t.x # x
      /\ exec[x].status \in InProgress /\ exec[x].status = "awaiting_execution"
  BY <1>1, <1>2, Owned
<1>4. job'[p].at = "load" /\ job'[p].x = x /\ job'[p].mode = "execute"
  <2>1. job[p].mode = "execute"
    BY <1>1 DEF TaskInv, TaskOK, ModeOK
  <2> QED
    BY <1>1, <1>3, <2>1, Went DEF TaskInv, Keeps
<1>5. Prepared(x)'
  BY <1>1, <1>3 DEF Phase, Prepared, Bare
<1>6. Works(p, x)' /\ Phase(p, x)'
  BY <1>4, <1>5 DEF Works, Working, Phase, Choosing, Calling
<1> QED
  BY <1>1, <1>3, <1>4, <1>6 DEF OwnMove

\* Nothing else works on x while it is being summarized.
LEMMA SummarizingOwn ==
  ASSUME TaskInv, NEW p \in Procs, NEW x \in Executions, x = job[p].x, InOrder(x),
         MarkSummarizing(p)
  PROVE  OwnMove(p, x)
<1>1. /\ Keeps(p) /\ job[p].at = "summarizing" /\ job'[p].at = "call"
      /\ job'[p].todo = InputUrls(p) /\ job'[p].inputs = job[p].inputs
      /\ src' = src /\ tasks' = tasks /\ skipped' = skipped
  BY SummarizingMoves DEF TaskInv, marks
<1>2. exec'[x].status = "summarizing" /\ exec'[x].requested = exec[x].requested
  BY ExecMoves DEF TurnsTo
<1>3. Works(p, x) /\ Works(p, x)'
  BY <1>1 DEF Works, Working, Calling, Keeps
<1>4. Phase(p, x) /\ \A t \in tasks : t.x # x
  BY <1>3, Owned
<1>5. /\ Selected(x)' = Selected(x)
      /\ \A u : Accounted(x, u) => Accounted(x, u)'
  BY <1>1, <1>2, SameRows
<1>6. InputUrls(p)' = InputUrls(p) /\ \A w : Input(p, w)' = Input(p, w)
  BY <1>1, SameInputs
<1>7. VersionsHeld(p)'
  BY <1>1, <1>4, <1>6 DEF Phase, VersionsHeld, Keeps
<1>8. InputUrls(p) # {}
  BY <1>1, <1>4 DEF Phase, InputUrls
<1>9. Phase(p, x)'
  BY <1>1, <1>4, <1>5, <1>7, <1>8 DEF Phase, Choosing, Calling
<1> QED
  BY <1>1, <1>2, <1>3, <1>4, <1>9 DEF OwnMove, InProgress

\* The text summarized is that of the recorded version.
LEMMA SummarizeOwn ==
  ASSUME TaskInv, NEW p \in Procs, NEW x \in Executions, x = job[p].x, InOrder(x),
         NEW u \in job[p].todo, Summarize(p, u)
  PROVE  OwnMove(p, x)
<1>1. /\ job[p].at = "call"
      /\ \/ /\ Keeps(p) /\ job'[p].at = "hash"
            /\ job'[p].todo = job[p].todo /\ job'[p].inputs = job[p].inputs
         \/ Keeps(p) /\ job'[p].at = "fail"
         \/ job'[p].at = "idle" /\ lost' = lost \cup {x}
      /\ exec' = exec /\ src' = src /\ tasks' = tasks /\ skipped' = skipped
  BY SummarizeMoves DEF TaskInv
<1>2. Works(p, x)
  BY <1>1 DEF Works, Working, Calling
<1>3. Phase(p, x) /\ exec[x].status \in InProgress /\ \A t \in tasks : t.x # x
  BY <1>2, Owned
<1>4. CASE job'[p].at = "idle" /\ lost' = lost \cup {x}
  BY <1>1, <1>2, <1>4, LostOwn
<1>5. CASE Keeps(p) /\ job'[p].at = "fail"
  <2>1. Works(p, x)' /\ Phase(p, x)'
    BY <1>5 DEF Works, Working, Phase, Choosing, Calling, Keeps
  <2> QED
    BY <1>1, <1>3, <1>5, <2>1 DEF OwnMove
<1>6. CASE /\ Keeps(p) /\ job'[p].at = "hash"
           /\ job'[p].todo = job[p].todo /\ job'[p].inputs = job[p].inputs
  <2>1. /\ Selected(x)' = Selected(x) /\ Summarized(x)' = Summarized(x)
        /\ \A w : Accounted(x, w) => Accounted(x, w)'
    BY <1>1, SameRows
  <2>2. InputUrls(p)' = InputUrls(p) /\ \A w : Input(p, w)' = Input(p, w)
    BY <1>6, SameInputs
  <2>3. VersionsHeld(p)'
    BY <1>1, <1>3, <1>6, <2>2 DEF Phase, VersionsHeld, Calling, Keeps
  <2>4. Works(p, x)' /\ Phase(p, x)'
    BY <1>1, <1>3, <1>6, <2>1, <2>3 DEF Works, Working, Phase, Choosing, Calling, Keeps
  <2> QED
    BY <1>1, <1>3, <1>6, <2>4 DEF OwnMove
<1> QED
  BY <1>1, <1>4, <1>5, <1>6

\* The version read again is the recorded one.
LEMMA ReadOwn ==
  ASSUME TaskInv, NEW p \in Procs, NEW x \in Executions, x = job[p].x, InOrder(x), ReadVersion(p)
  PROVE  OwnMove(p, x)
<1>1. PICK u : u = job[p].url
  OBVIOUS
<1>2. /\ job[p].at = "hash" /\ job'[p].at = "store" /\ job'[p].x = x
      /\ job'[p].todo = job[p].todo /\ job'[p].inputs = job[p].inputs
      /\ job'[p].url = u /\ job'[p].version = job[p].version
      /\ job'[p].held = [job[p].held EXCEPT ![u] = src[x][u].version]
      /\ exec' = exec /\ src' = src /\ tasks' = tasks /\ skipped' = skipped
  BY <1>1, ReadMoves DEF TaskInv, marks
<1>3. Works(p, x) /\ Works(p, x)'
  BY <1>2 DEF Works, Working, Calling
<1>4. Phase(p, x) /\ exec[x].status \in InProgress /\ \A t \in tasks : t.x # x
  BY <1>3, Owned
<1>5. /\ Selected(x)' = Selected(x) /\ Summarized(x)' = Summarized(x)
      /\ \A w : Accounted(x, w) => Accounted(x, w)'
  BY <1>2, SameRows
<1>6. InputUrls(p)' = InputUrls(p) /\ \A w : Input(p, w)' = Input(p, w)
  BY <1>2, SameInputs
<1>7. /\ u \in InputUrls(p) /\ u \in Selected(x) /\ DOMAIN job[p].held = Selected(x)
      /\ job[p].version = Input(p, u)
  BY <1>1, <1>2 DEF TaskInv, TaskOK, RecordedOK, CallingOK, Calling
<1>8. VersionsHeld(p)
  BY <1>2, <1>4 DEF Phase, Calling
<1>9. job'[p].held[u] = job[p].version
  BY <1>1, <1>2, <1>7, <1>8 DEF VersionsHeld
<1>10. VersionsHeld(p)'
  BY <1>2, <1>6, <1>8, <1>9 DEF VersionsHeld
<1>11. Phase(p, x)'
  BY <1>2, <1>4, <1>5, <1>10 DEF Phase, Choosing, Calling
<1> QED
  BY <1>2, <1>3, <1>4, <1>11 DEF OwnMove

\* The stored summary is that of its version.
LEMMA StoreOwn ==
  ASSUME TaskInv, NEW p \in Procs, NEW x \in Executions, x = job[p].x, InOrder(x),
         RecordSourceSummary(p)
  PROVE  OwnMove(p, x)
<1>1. PICK u \in Selected(x), new \in SourceRow :
        /\ u = job[p].url /\ u \in job[p].todo /\ u \in InputUrls(p) /\ OnlyRow(x, u, new)
        /\ new.status = "completed" /\ new.version = src[x][u].version
        /\ new.summary \in Versions
  BY SummaryRow
<1>2. /\ Keeps(p) /\ job[p].at = "store" /\ job'[p].at = "call"
      /\ job'[p].todo = job[p].todo \ {u} /\ job'[p].inputs = job[p].inputs
      /\ exec' = exec /\ tasks' = tasks /\ skipped' = skipped
  BY <1>1, StoreMoves DEF TaskInv, marks
<1>3. Works(p, x) /\ Works(p, x)'
  BY <1>2 DEF Works, Working, Calling, Keeps
<1>4. Phase(p, x) /\ exec[x].status \in InProgress /\ \A t \in tasks : t.x # x
  BY <1>3, Owned
<1>5. new.summary # "none"
  BY <1>1, NoneAssumption
<1>6. /\ src'[x][u] = new /\ Selected(x)' = Selected(x)
      /\ \A w \in Sources : w # u => src'[x][w] = src[x][w]
      /\ \A w \in Sources : w # u /\ Accounted(x, w) => Accounted(x, w)'
      /\ Accounted(x, u)'
  BY <1>1, <1>2, <1>5, OneRow
<1>7. InputUrls(p)' = InputUrls(p) /\ \A w : Input(p, w)' = Input(p, w)
  BY <1>2, SameInputs
<1>8. InputUrls(p) \subseteq Sources /\ Selected(x) \subseteq Sources
  BY <1>2 DEF TaskInv, TaskOK, InputsOK, InputUrls, Selected
<1>9. Summarized(x)' # {}
  BY <1>1, <1>5, <1>6, <1>8 DEF Summarized
<1>10. VersionsHeld(p)'
  <2>1. \A w \in InputUrls(p) : src'[x][w].version = src[x][w].version
    BY <1>1, <1>6, <1>8
  <2> QED
    BY <1>2, <1>4, <1>7, <2>1 DEF Phase, VersionsHeld, Calling, Keeps
<1>11. \A w \in Selected(x) : Accounted(x, w)' \/ w \in job'[p].todo
  BY <1>2, <1>4, <1>6, <1>8 DEF Phase, Calling
<1>12. Phase(p, x)'
  BY <1>2, <1>6, <1>9, <1>10, <1>11 DEF Phase, Choosing, Calling
<1> QED
  BY <1>2, <1>3, <1>4, <1>12 DEF OwnMove

\* Regenerated while nothing works on it, an execution starts bare.
LEMMA BeginOwn ==
  ASSUME TaskInv, NEW p \in Procs, NEW x \in Executions, x = job[p].x, BeginRegeneration(p),
         x \notin overlapped'
  PROVE  OwnMove(p, x) /\ \A q \in Procs : ~Works(q, x)
<1>1. /\ BeginsAgain(x) /\ Goto(p, "load") /\ tasks' = tasks /\ ~Busy(x)
  BY BeginRows DEF BeginRegeneration
<1>2. /\ \A q \in Procs : ~Works(q, x)
      /\ \A t \in tasks : t.x # x
  BY <1>1 DEF Busy, Works, Working, Choosing, Calling
<1>3. job'[p].at = "load" /\ job'[p].x = x
  BY <1>1, Went DEF TaskInv, Keeps
<1>4. exec'[x].status = "extracting"
  BY ExecMoves DEF TurnsTo
<1>5. Bare(x)'
  <2>1. \A u \in Sources \ Selected(x) : src[x][u].summary = "none"
    BY DEF TaskInv, RecordsOK, RowOK, Selected
  <2> QED
    BY <1>1, <2>1 DEF BeginsAgain, Bare
<1>6. Prepared(x)'
  BY <1>5 DEF Prepared, Bare
<1>7. Works(p, x)' /\ Phase(p, x)'
  BY <1>3, <1>5, <1>6 DEF Works, Working, Phase, Choosing, Calling
<1> QED
  BY <1>1, <1>2, <1>3, <1>4, <1>7 DEF OwnMove, InProgress

\* The worker that takes the task of x is alone with it.
LEMMA PollOwn ==
  ASSUME TaskInv, NEW p \in Procs, NEW x \in Executions, InOrder(x), NEW task \in tasks,
         task.x = x, tasks' = tasks \ {task},
         job'[p].at = "enter", job'[p].mode = "execute", job'[p].x = x,
         exec' = exec, src' = src
  PROVE  OwnMove(p, x) /\ \A q \in Procs : ~Works(q, x)
<1>1. /\ \A q \in Procs : ~Works(q, x)
      /\ \A t \in tasks' : t.x # x
      /\ exec[x].status = "awaiting_execution" /\ Prepared(x)
  BY DEF InOrder, AloneAt, StatusAt, PhaseAt
<1>2. Prepared(x)'
  BY <1>1 DEF Prepared, Bare
<1>3. Works(p, x)' /\ Phase(p, x)'
  BY <1>2 DEF Works, Working, Phase, Choosing, Calling
<1> QED
  BY <1>1, <1>3 DEF OwnMove, InProgress

\* A new execution is worked on by its creator alone.
LEMMA CreateOwn ==
  ASSUME TaskInv, NEW p \in Procs, NEW x \in Executions, NEW r \in Runs,
         NEW urls \in SUBSET Sources, CreateExecution(p, x, r, urls)
  PROVE  OwnMove(p, x) /\ \A q \in Procs : ~Works(q, x)
<1>1. /\ job'[p].at = "load" /\ job'[p].x = x /\ exec[x].status = "absent" /\ tasks' = tasks
  BY CreateMoves DEF TaskInv
<1>2. Created(x, r)
  BY CreateRows
<1>3. /\ \A q \in Procs : ~Works(q, x)
      /\ \A t \in tasks : t.x # x
  BY <1>1 DEF TaskInv, TaskOK, RecordsOK, Known, Works, Working, Choosing, Calling
<1>4. Bare(x)'
  BY <1>2 DEF Created, Bare
<1>5. Prepared(x)'
  BY <1>4 DEF Prepared, Bare
<1>6. Works(p, x)' /\ Phase(p, x)'
  BY <1>1, <1>4, <1>5 DEF Works, Working, Phase, Choosing, Calling
<1> QED
  BY <1>1, <1>2, <1>3, <1>6 DEF OwnMove, InProgress, Created

\* A step of the process that works on x.
LEMMA ProceedOwn ==
  ASSUME TaskInv, NEW p \in Procs, NEW x \in Executions, x = job[p].x, InOrder(x),
         Proceed(p), ~BeginRegeneration(p)
  PROVE  OwnMove(p, x)
<1>1. CASE Load(p)
  BY <1>1, LoadOwn
<1>2. CASE \E u \in job[p].todo : SkipUnavailable(p, u) \/ LookForEvaluation(p, u)
                                  \/ RecordSourceExtracted(p, u) \/ Summarize(p, u)
  BY <1>2, SkipOwn, LookOwn, ExtractedOwn, SummarizeOwn
<1>3. CASE Evaluate(p) \/ RecordSourceFailure(p) \/ ReuseMatchingArtifact(p) \/ AddInput(p)
           \/ KeepDone(p)
  BY <1>3, EvaluateOwn, FailureOwn, ReuseOwn, AddOwn, KeepOwn
<1>4. CASE NothingToSummarize(p) \/ Settle(p) \/ StartExtracted(p) \/ SetExecutionRoute(p)
           \/ FailExecution(p) \/ CompleteExecution(p)
  BY <1>4, NothingOwn, SettleOwn, StartOwn, RouteOwn, EndOwn
<1>5. CASE Schedule(p) \/ Enter(p) \/ MarkSummarizing(p) \/ ReadVersion(p)
           \/ RecordSourceSummary(p)
  BY <1>5, ScheduleOwn, EnterOwn, SummarizingOwn, ReadOwn, StoreOwn
<1> QED
  BY <1>1, <1>2, <1>3, <1>4, <1>5 DEF Proceed

\* A step of a process that works on another execution.
LEMMA ProceedForeign ==
  ASSUME TaskInv, [SummaryNext]_summaryVars, NEW p \in Procs, NEW x \in Executions,
         x # job[p].x, Proceed(p)
  PROVE  Foreign(x)
<1>1. PICK y : y = job[p].x
  OBVIOUS
<1>2. y # x /\ Proceeds(p)
  BY <1>1, ProceedTask
<1>3. exec'[x] = exec[x]
  <2>1. \/ UNCHANGED exec
        \/ Settle(p) \/ SetExecutionRoute(p) \/ FailExecution(p)
        \/ MarkSummarizing(p) \/ CompleteExecution(p) \/ BeginRegeneration(p)
    BY DEF Proceed, rows, Load, SkipUnavailable, LookForEvaluation, RecordSourceExtracted,
       Summarize, Evaluate, RecordSourceFailure, ReuseMatchingArtifact, AddInput, KeepDone,
       NothingToSummarize, StartExtracted, Schedule, Enter, ReadVersion, RecordSourceSummary
  <2>2. UNCHANGED exec \/ \A z \in Executions : z # y => exec'[z] = exec[z]
    BY <1>1, <2>1, ExecMoves DEF TurnsTo
  <2> QED
    BY <1>2, <2>2
<1>4. src'[x] = src[x]
  <2>1. \/ UNCHANGED src \/ \E new, u : src' = [src EXCEPT ![y][u] = new]
        \/ RecordSourceSummary(p) \/ BeginRegeneration(p)
    <3>1. ASSUME NEW u \in job[p].todo, RecordSourceExtracted(p, u)
          PROVE  \E new : src' = [src EXCEPT ![y][u] = new]
      BY <1>1, <3>1 DEF RecordSourceExtracted, SetSource
    <3>2. CASE RecordSourceFailure(p)
      <4>1. PICK u : u = job[p].url
        OBVIOUS
      <4>2. src' = [src EXCEPT ![y][u] = [src[y][u] EXCEPT !.status = "failed"]]
        BY <1>1, <3>2, <4>1 DEF RecordSourceFailure
      <4> QED
        BY <4>2
    <3>3. CASE ReuseMatchingArtifact(p)
      BY <1>1, <3>3 DEF ReuseMatchingArtifact, SetSource
    <3>4. \/ UNCHANGED src
          \/ \E u \in job[p].todo : RecordSourceExtracted(p, u)
          \/ RecordSourceFailure(p) \/ ReuseMatchingArtifact(p) \/ RecordSourceSummary(p)
          \/ BeginRegeneration(p)
      BY DEF Proceed, rows, Load, SkipUnavailable, LookForEvaluation,
         Summarize, Evaluate, AddInput, KeepDone, Settle, SetExecutionRoute, FailExecution,
         MarkSummarizing, CompleteExecution,
         NothingToSummarize, StartExtracted, Schedule, Enter, ReadVersion
    <3> QED
      BY <3>1, <3>2, <3>3, <3>4
  <2>2. ASSUME NEW new, NEW u, src' = [src EXCEPT ![y][u] = new] PROVE src'[x] = src[x]
    BY <1>2, <2>2 DEF TaskInv, RecordsOK
  <2>3. CASE BeginRegeneration(p)
    BY <1>1, <1>2, <2>3, BeginRows DEF BeginsAgain
  <2>4. CASE RecordSourceSummary(p)
    <3>1. PICK u, v : src' = [src EXCEPT ![y][u].status = "completed", ![y][u].summary = v]
      BY <1>1, <2>4 DEF RecordSourceSummary
    <3> QED
      BY <1>2, <3>1 DEF TaskInv, RecordsOK
  <2> QED
    BY <2>1, <2>2, <2>3, <2>4
<1>5. \A t : t.x = x => (t \in tasks' <=> t \in tasks)
  <2>1. UNCHANGED tasks \/ Schedule(p)
    BY DEF Proceed, Load, SkipUnavailable, LookForEvaluation, RecordSourceExtracted,
         Summarize, Evaluate, RecordSourceFailure, ReuseMatchingArtifact, AddInput, KeepDone,
         NothingToSummarize, Settle, StartExtracted, SetExecutionRoute, FailExecution,
         Enter, MarkSummarizing, ReadVersion, RecordSourceSummary, CompleteExecution,
         BeginRegeneration
  <2>2. CASE Schedule(p)
    <3> DEFINE t0 == [x |-> y, attempt |-> exec[y].attempt]
    <3>1. tasks' = tasks \/ tasks' = tasks \cup {t0}
      BY <1>1, <2>2 DEF Schedule
    <3>2. t0.x = y
      OBVIOUS
    <3> HIDE DEF t0
    <3> QED
      BY <1>2, <3>1, <3>2
  <2> QED
    BY <2>1, <2>2
<1>6. /\ x \in lost => x \in lost'
      /\ \A u : <<x, u>> \in skipped => <<x, u>> \in skipped'
  <2>1. \/ UNCHANGED <<lost, skipped>> \/ \E u \in job[p].todo : SkipUnavailable(p, u)
        \/ BeginRegeneration(p)
        \/ UNCHANGED skipped /\ lost' = lost \cup {y}
    BY <1>1 DEF Proceed, marks, Load, LookForEvaluation, RecordSourceExtracted,
         Summarize, Evaluate, RecordSourceFailure, ReuseMatchingArtifact, AddInput, KeepDone,
         NothingToSummarize, Settle, StartExtracted, SetExecutionRoute, FailExecution, Schedule,
         Enter, MarkSummarizing, ReadVersion, RecordSourceSummary, CompleteExecution
  <2>2. ASSUME NEW u \in job[p].todo, SkipUnavailable(p, u)
        PROVE  lost' = lost /\ skipped \subseteq skipped'
    BY <2>2 DEF SkipUnavailable
  <2>3. CASE BeginRegeneration(p)
    BY <1>1, <1>2, <2>3 DEF BeginRegeneration
  <2> QED
    BY <2>1, <2>2, <2>3
<1>7. \A q \in Procs : Works(q, x) \/ Works(q, x)' => job'[q] = job[q]
  BY <1>1, <1>2 DEF Proceeds, OnlyMoves, Works, Working, Choosing, Calling
<1> QED
  BY <1>3, <1>4, <1>5, <1>6, <1>7 DEF Foreign

\* An execution regenerated while at work remains marked.
LEMMA OverlappedStays ==
  ASSUME [SummaryNext]_summaryVars
  PROVE  overlapped \subseteq overlapped'
<1>1. ASSUME NEW p \in Procs, Proceed(p) PROVE overlapped \subseteq overlapped'
  <2>1. UNCHANGED overlapped \/ BeginRegeneration(p)
    BY <1>1 DEF Proceed, marks, Load, SkipUnavailable, LookForEvaluation, RecordSourceExtracted,
         Summarize, Evaluate, RecordSourceFailure, ReuseMatchingArtifact, AddInput, KeepDone,
         NothingToSummarize, Settle, StartExtracted, SetExecutionRoute, FailExecution, Schedule,
         Enter, MarkSummarizing, ReadVersion, RecordSourceSummary, CompleteExecution
  <2> QED
    BY <2>1 DEF BeginRegeneration
<1>2. ASSUME ~\E p \in Procs : Proceed(p) PROVE overlapped' = overlapped
  BY <1>2 DEF SummaryNext, summaryVars, marks, Rest, Deadline, Accept, Recapture, Poll, Crash,
     Regenerate, CreateExecution
<1> QED
  BY <1>1, <1>2

\* OrderInv is inductive: each step is x's own, or foreign to it.
LEMMA OrderStep == TaskInv /\ OrderInv /\ [SummaryNext]_summaryVars => OrderInv'
<1> SUFFICES ASSUME TaskInv, OrderInv, [SummaryNext]_summaryVars,
                    NEW x \in Executions, x \notin overlapped'
             PROVE  InOrder(x)'
  BY DEF OrderInv
<1>0. InOrder(x) /\ JobShape
  BY OverlappedStays DEF OrderInv, TaskInv
<1>1. ASSUME NEW p \in Procs, Proceed(p) PROVE InOrder(x)'
  <2>1. CASE x # job[p].x
    BY <1>0, <1>1, <2>1, ProceedForeign, ForeignKeeps
  <2>2. CASE x = job[p].x /\ BeginRegeneration(p)
    <3>1. OwnMove(p, x) /\ \A q \in Procs : ~Works(q, x)
      BY <2>2, BeginOwn
    <3>2. OnlyMoves(p)
      BY <1>1, ProceedTask DEF Proceeds
    <3> QED
      BY <3>1, <3>2, OwnKeeps
  <2>3. CASE x = job[p].x /\ ~BeginRegeneration(p)
    <3>1. OwnMove(p, x)
      BY <1>0, <1>1, <2>3, ProceedOwn
    <3>2. job[p].at \notin {"idle", "begin"}
      BY <1>1, <2>3 DEF Proceed, At, Load, SkipUnavailable, LookForEvaluation,
         RecordSourceExtracted, Summarize, Evaluate, RecordSourceFailure, ReuseMatchingArtifact,
         AddInput, KeepDone, NothingToSummarize, Settle, StartExtracted, SetExecutionRoute,
         FailExecution, Schedule, Enter, MarkSummarizing, ReadVersion, RecordSourceSummary,
         CompleteExecution
    <3>3. Works(p, x)
      BY <2>3, <3>2 DEF TaskInv, TaskOK, ModeOK, Works
    <3>4. \A q \in Procs : q # p => ~Works(q, x)
      BY <1>0, <3>3, Owned
    <3>5. OnlyMoves(p)
      BY <1>1, ProceedTask DEF Proceeds
    <3> QED
      BY <3>1, <3>4, <3>5, OwnKeeps
  <2> QED
    BY <2>1, <2>2, <2>3
<1>2. ASSUME NEW p \in Procs, Poll(p) PROVE InOrder(x)'
  <2>1. PICK task \in tasks :
           /\ tasks' = tasks \ {task}
           /\ OnlyMoves(p) /\ job[p].at = "idle" /\ job'[p].at = "enter"
           /\ job'[p].mode = "execute" /\ job'[p].x = task.x
           /\ exec' = exec /\ src' = src /\ lost' = lost /\ skipped' = skipped
    BY <1>0, <1>2, PollMoves DEF marks
  <2>2. CASE task.x = x
    BY <1>0, <2>1, <2>2, PollOwn, OwnKeeps
  <2>3. CASE task.x # x
    <3>1. \A q \in Procs : Works(q, x) \/ Works(q, x)' => job'[q] = job[q]
      BY <2>1, <2>3 DEF OnlyMoves, Works, Working, Choosing, Calling
    <3>2. Foreign(x)
      BY <2>1, <2>3, <3>1 DEF Foreign
    <3> QED
      BY <1>0, <3>2, ForeignKeeps
  <2> QED
    BY <2>2, <2>3
<1>3. ASSUME NEW p \in Procs, Crash(p) PROVE InOrder(x)'
  <2>1. /\ OnlyMoves(p) /\ job'[p].at = "idle" /\ lost' = lost \cup {job[p].x}
        /\ exec' = exec /\ src' = src /\ tasks' = tasks /\ skipped' = skipped
    BY <1>0, <1>3, Stopped DEF Crash, rows
  <2>2. CASE Works(p, x)
    <3>1. OwnMove(p, x)
      BY <1>0, <2>1, <2>2, LostOwn DEF Works
    <3>2. \A q \in Procs : q # p => ~Works(q, x)
      BY <1>0, <2>2, Owned
    <3> QED
      BY <2>1, <3>1, <3>2, OwnKeeps
  <2>3. CASE ~Works(p, x)
    <3>1. \A q \in Procs : Works(q, x) \/ Works(q, x)' => job'[q] = job[q]
      BY <2>1, <2>3 DEF OnlyMoves, Works, Working, Choosing, Calling
    <3>2. Foreign(x)
      BY <2>1, <3>1 DEF Foreign
    <3> QED
      BY <1>0, <3>2, ForeignKeeps
  <2> QED
    BY <2>2, <2>3
<1>4. ASSUME NEW p \in Procs, NEW y \in Executions, Regenerate(p, y) PROVE InOrder(x)'
  <2>1. /\ OnlyMoves(p) /\ job[p].at = "idle" /\ job'[p].at = "begin"
        /\ exec' = exec /\ src' = src /\ tasks' = tasks
        /\ lost' = lost /\ skipped' = skipped
    BY <1>0, <1>4, RegenerateMoves DEF marks
  <2>2. \A q \in Procs : Works(q, x) \/ Works(q, x)' => job'[q] = job[q]
    BY <2>1 DEF OnlyMoves, Works, Working, Choosing, Calling
  <2>3. Foreign(x)
    BY <2>1, <2>2 DEF Foreign
  <2> QED
    BY <1>0, <2>3, ForeignKeeps
<1>5. ASSUME NEW p \in Procs, NEW y \in Executions, NEW r \in Runs,
             NEW urls \in SUBSET Sources, CreateExecution(p, y, r, urls)
      PROVE  InOrder(x)'
  <2>1. /\ OnlyMoves(p) /\ job[p].at = "idle" /\ job'[p].x = y
        /\ tasks' = tasks /\ lost' = lost /\ skipped' = skipped
    BY <1>0, <1>5, CreateMoves DEF marks
  <2>2. CASE x = y
    BY <1>5, <2>1, <2>2, CreateOwn, OwnKeeps
  <2>3. CASE x # y
    <3>1. \A q \in Procs : Works(q, x) \/ Works(q, x)' => job'[q] = job[q]
      BY <2>1, <2>3 DEF OnlyMoves, Works, Working, Choosing, Calling
    <3>2. exec'[x] = exec[x] /\ src'[x] = src[x]
      <4>1. Created(y, r)
        BY <1>5, CreateRows
      <4> QED
        BY <2>3, <4>1 DEF Created
    <3>3. Foreign(x)
      BY <2>1, <3>1, <3>2 DEF Foreign
    <3> QED
      BY <1>0, <3>3, ForeignKeeps
  <2> QED
    BY <2>2, <2>3
<1>6. ASSUME \/ UNCHANGED summaryVars \/ Rest \/ Deadline
             \/ \E v \in Versions :
                  Recapture(v) \/ \E r \in Runs, kind \in {"permanent", "expiring"} : Accept(r, v, kind)
      PROVE  InOrder(x)'
  <2>1. UNCHANGED <<exec, src, job, tasks, lost, skipped>>
    BY <1>6 DEF summaryVars, rows, marks, Rest, Deadline, Recapture, Accept
  <2>2. Foreign(x)
    BY <2>1 DEF Foreign
  <2> QED
    BY <1>0, <2>2, ForeignKeeps
<1> QED
  BY <1>1, <1>2, <1>3, <1>4, <1>5, <1>6 DEF SummaryNext

\* At the start nothing works on an execution.
LEMMA OrderInit == SummaryInit => OrderInv
<1> SUFFICES ASSUME SummaryInit, NEW x \in Executions PROVE InOrder(x)
  BY DEF OrderInv
<1>1. tasks = {} /\ \A p \in Procs : ~Works(p, x)
  BY IdleShape DEF SummaryInit, Works, Working, Choosing, Calling
<1>2. exec[x].status \notin InProgress /\ DoneAt(x)
  <2>1. CASE StartsFresh
    BY <2>1 DEF StartsFresh, NoExecution, DoneAt, InProgress
  <2>2. ASSUME NEW old \in Executions, NEW r, NEW done \in Sources, NEW v \in Versions, NEW route,
               StartsDone(old, r, done, v, route)
        PROVE  exec[x].status \notin InProgress /\ DoneAt(x)
    <3>1. exec[x].status = IF x = old THEN "completed" ELSE "absent"
      BY <2>2 DEF StartsDone, NoExecution
    <3>2. x = old => Selected(x) = {done} /\ done \in Summarized(x)
      BY <2>2, NoneAssumption DEF StartsDone, NoSource, Selected, Summarized
    <3> QED
      BY <3>1, <3>2 DEF DoneAt, Accounted, InProgress
  <2> QED
    BY <2>1, <2>2, Starts
<1> QED
  BY <1>1, <1>2 DEF InOrder, AloneAt, StatusAt, PhaseAt

\* An execution nothing works on has an outcome, whatever happens beside it,
\* unless it was lost or regenerated while at work.
THEOREM QuietExecutionsSettled == SummarySpec => []QuietExecutionIsSettled
<1>1. TaskInv /\ OrderInv => QuietExecutionIsSettled
  <2> SUFFICES ASSUME TaskInv, OrderInv, NEW x \in Executions, x \notin lost, x \notin overlapped,
                      exec[x].status # "absent", ~Busy(x)
               PROVE  exec[x].status \in {"completed", "failed"}
    BY DEF QuietExecutionIsSettled
  <2>1. exec[x].status \notin InProgress
    BY DEF OrderInv, InOrder, StatusAt, Busy, Works, Working, Choosing, Calling
  <2>2. exec[x] \in ExecRow
    BY DEF TaskInv, RecordsOK
  <2> QED
    BY <2>1, <2>2 DEF ExecRow, InProgress
<1> QED
  BY <1>1, TaskInit, TaskStep, OrderInit, OrderStep, PTL DEF SummarySpec

\* A completed execution has a result, and for every source it selected a
\* summary, a refusal, or the fact that its evidence was not found.
THEOREM CompletedAreSummarized == SummarySpec => []CompletedIsSummarized
<1>1. OrderInv => CompletedIsSummarized
  BY DEF OrderInv, InOrder, DoneAt, Accounted, CompletedIsSummarized
<1> QED
  BY <1>1, TaskInit, TaskStep, OrderInit, OrderStep, PTL DEF SummarySpec

-----------------------------------------------------------------------------
(* Stored summaries, where no execution was regenerated while at work.      *)

\* A row that is left alone, or emptied, stays sound.
LEMMA SoundLasts ==
  ASSUME TaskInv, [SummaryNext]_summaryVars, NEW x \in Executions, NEW u \in Sources,
         RowSound(x, u),
         \/ src'[x][u].summary = "none"
         \/ /\ src'[x][u].summary = src[x][u].summary
            /\ src'[x][u].version = src[x][u].version
  PROVE  RowSound(x, u)'
<1>1. CASE src'[x][u].summary = "none"
  BY <1>1 DEF RowSound
<1>2. CASE src'[x][u].summary # "none"
  <2>1. PICK v : v = src[x][u].summary
    OBVIOUS
  <2>2. /\ v # "none" /\ Known(x) /\ Cleared(exec[x].run, v)
        /\ src'[x][u].summary = v /\ src'[x][u].version = v
    BY <1>2, <2>1 DEF RowSound
  <2>3. v \in Versions
    <3>1. src[x][u] \in SourceRow
      BY DEF TaskInv, RecordsOK
    <3> QED
      BY <2>1, <2>2, <3>1 DEF SourceRow
  <2>4. Known(x)' /\ Cleared(exec[x].run, v)'
    BY <2>2, <2>3, Lasts
  <2>5. Cleared(exec[x].run, src[x][u].summary)'
    BY <2>2, <2>4
  <2> QED
    BY <2>2, <2>4, <2>5 DEF RowSound
<1> QED
  BY <1>1, <1>2

\* A row that is written with the version its text has, cleared in the run.
LEMMA SoundWritten ==
  ASSUME TaskInv, [SummaryNext]_summaryVars, NEW x \in Executions, NEW u \in Sources,
         NEW v \in Versions, Known(x), Cleared(exec[x].run, v),
         src'[x][u].summary = v, src'[x][u].version = v
  PROVE  RowSound(x, u)'
<1>1. Known(x)' /\ Cleared(exec[x].run, v)'
  BY Lasts
<1>2. Cleared(exec[x].run, src[x][u].summary)'
  BY <1>1
<1> QED
  BY <1>1, <1>2 DEF RowSound

\* What is taken over has the text it is filed under.
LEMMA ReusedText ==
  ASSUME TaskInv, \A x \in Executions, u \in Sources : RowSound(x, u),
         \A a \in artifacts : a.text = a.version,
         NEW u \in Sources, NEW v, NEW text \in Reusable(u, v)
  PROVE  text = v
<1>1. CASE Matching(u, v) # {}
  BY <1>1 DEF Reusable, Matching
<1>2. CASE Matching(u, v) = {}
  BY <1>2 DEF Reusable, Prior, RowSound
<1> QED
  BY <1>1, <1>2

\* StoredInv is inductive: four steps write a version or a text, the others none.
LEMMA StoredStep == TaskInv /\ OrderInv /\ StoredInv /\ [SummaryNext]_summaryVars => StoredInv'
<1> SUFFICES ASSUME TaskInv, OrderInv, StoredInv, [SummaryNext]_summaryVars, overlapped' = {}
             PROVE  /\ \A x \in Executions, u \in Sources : RowSound(x, u)'
                    /\ \A a \in artifacts' : a.text = a.version
  BY DEF StoredInv
<1> DEFINE Sound == /\ \A x \in Executions, u \in Sources : RowSound(x, u)'
                    /\ \A a \in artifacts' : a.text = a.version
<1>1. /\ overlapped = {} /\ \A x \in Executions : InOrder(x)
      /\ \A x \in Executions, u \in Sources : RowSound(x, u)
      /\ \A a \in artifacts : a.text = a.version
  BY OverlappedStays DEF OrderInv, StoredInv
<1>2. ASSUME NEW x \in Executions, NEW u \in Sources,
             \/ src'[x][u].summary = "none"
             \/ /\ src'[x][u].summary = src[x][u].summary
                /\ src'[x][u].version = src[x][u].version
      PROVE  RowSound(x, u)'
  BY <1>1, <1>2, SoundLasts
<1>3. ASSUME UNCHANGED <<src, artifacts>> PROVE Sound
  BY <1>1, <1>2, <1>3
<1>4. ASSUME NEW p \in Procs, NEW u \in job[p].todo, RecordSourceExtracted(p, u) PROVE Sound
  <2>1. PICK x : x = job[p].x
    OBVIOUS
  <2>2. PICK new \in SourceRow :
          /\ u \in Selected(x) /\ u \in InputUrls(p) /\ OnlyRow(x, u, new)
          /\ new.summary = src[x][u].summary
    BY <1>4, <2>1, ExtractedRow
  <2>3. job[p].at = "extracted" /\ x \in Executions /\ artifacts' = artifacts
    BY <1>4, <2>1 DEF RecordSourceExtracted, At, TaskInv, TaskOK, Known
  <2>4. Works(p, x)
    BY <2>1, <2>3 DEF Works, Working
  <2>5. src[x][u].summary = "none"
    BY <1>1, <2>2, <2>3, <2>4, Owned DEF Phase
  <2>6. ASSUME NEW y \in Executions, NEW w \in Sources
        PROVE  src'[y][w].summary = "none" \/ src'[y][w] = src[y][w]
    BY <2>2, <2>5 DEF OnlyRow
  <2> QED
    BY <1>1, <1>2, <2>3, <2>6
<1>5. ASSUME NEW p \in Procs, RecordSourceFailure(p) PROVE Sound
  <2>1. PICK x : x = job[p].x
    OBVIOUS
  <2>2. PICK u \in Selected(x), new \in SourceRow :
          /\ OnlyRow(x, u, new) /\ new.version = src[x][u].version
          /\ new.summary = src[x][u].summary
    BY <1>5, <2>1, FailureRow
  <2>3. artifacts' = artifacts
    BY <1>5 DEF RecordSourceFailure
  <2>4. ASSUME NEW y \in Executions, NEW w \in Sources
        PROVE  src'[y][w].summary = src[y][w].summary /\ src'[y][w].version = src[y][w].version
    BY <2>2 DEF OnlyRow
  <2> QED
    BY <1>1, <1>2, <2>3, <2>4
<1>6. ASSUME NEW p \in Procs, ReuseMatchingArtifact(p) PROVE Sound
  <2>1. PICK x : x = job[p].x
    OBVIOUS
  <2>2. PICK u \in Selected(x), v \in Versions, text \in Versions, new \in SourceRow :
          /\ v = job[p].version /\ text \in Reusable(u, v) /\ OnlyRow(x, u, new)
          /\ new.version = v /\ new.summary = text
          /\ artifacts' = IF Matching(u, v) # {} THEN artifacts ELSE artifacts \cup
               {[run |-> exec[x].run, url |-> u, version |-> v, text |-> text]}
    BY <1>6, <2>1, ReuseRow
  <2>3. Known(x) /\ Cleared(exec[x].run, v) /\ u \in Sources
    BY <1>6, <2>1, <2>2 DEF ReuseMatchingArtifact, At, TaskInv, TaskOK, ChoosingOK, Choosing,
       Selected
  <2>4. text = v
    BY <1>1, <2>2, <2>3, ReusedText
  <2>5. RowSound(x, u)'
    <3>1. x \in Executions /\ src'[x][u].summary = v /\ src'[x][u].version = v
      BY <2>2, <2>3, <2>4 DEF OnlyRow
    <3> QED
      BY <2>3, <3>1, SoundWritten
  <2>6. ASSUME NEW y \in Executions, NEW w \in Sources, y # x \/ w # u
        PROVE  src'[y][w] = src[y][w]
    BY <2>2, <2>6 DEF OnlyRow
  <2>7. \A y \in Executions, w \in Sources : RowSound(y, w)'
    BY <1>2, <2>5, <2>6
  <2> QED
    BY <1>1, <2>2, <2>4, <2>7
<1>7. ASSUME NEW p \in Procs, RecordSourceSummary(p) PROVE Sound
  <2>1. PICK x : x = job[p].x
    OBVIOUS
  <2>2. PICK u \in Selected(x), new \in SourceRow :
          /\ u = job[p].url /\ u \in InputUrls(p) /\ OnlyRow(x, u, new)
          /\ new.version = src[x][u].version
          /\ new.summary = job[p].version /\ job[p].version = Input(p, u)
          /\ job[p].version \in Versions
          /\ artifacts' = Others(exec[x].run, u, job[p].held[u]) \cup
               {[run |-> exec[x].run, url |-> u, version |-> job[p].held[u],
                 text |-> job[p].version]}
    BY <1>7, <2>1, SummaryRow
  <2>3. job[p].at = "store" /\ Known(x) /\ InputsOK(p) /\ u \in Sources
    BY <1>7, <2>1 DEF RecordSourceSummary, At, TaskInv, TaskOK, Selected
  <2>4. PICK v \in Versions : v = job[p].version
    BY <2>2
  <2>5. VersionsHeld(p)
    <3>1. Works(p, x) /\ x \in Executions
      BY <2>1, <2>3 DEF Works, Working, Calling, Known
    <3> QED
      BY <1>1, <2>3, <3>1, Owned DEF Phase, Calling
  <2>6. src[x][u].version = v /\ job[p].held[u] = v
    BY <2>1, <2>2, <2>3, <2>4, <2>5 DEF VersionsHeld
  <2>7. Cleared(exec[x].run, v)
    BY <2>1, <2>2, <2>3, <2>4, InputType
  <2>8. RowSound(x, u)'
    <3>1. x \in Executions /\ src'[x][u].summary = v /\ src'[x][u].version = v
      BY <2>2, <2>3, <2>4, <2>6 DEF OnlyRow
    <3> QED
      BY <2>3, <2>7, <3>1, SoundWritten
  <2>9. ASSUME NEW y \in Executions, NEW w \in Sources, y # x \/ w # u
        PROVE  src'[y][w] = src[y][w]
    BY <2>2, <2>9 DEF OnlyRow
  <2>10. \A y \in Executions, w \in Sources : RowSound(y, w)'
    BY <1>2, <2>8, <2>9
  <2>11. \A a \in artifacts' : a.text = a.version
    BY <1>1, <2>2, <2>4, <2>6 DEF Others
  <2> QED
    BY <2>10, <2>11
<1>8. ASSUME NEW p \in Procs, BeginRegeneration(p) PROVE Sound
  <2>1. PICK x : x = job[p].x
    OBVIOUS
  <2>2. BeginsAgain(x) /\ artifacts' = artifacts
    BY <1>8, <2>1, BeginRows DEF BeginRegeneration
  <2>3. ASSUME NEW y \in Executions, NEW w \in Sources
        PROVE  src'[y][w].summary = "none" \/ src'[y][w] = src[y][w]
    BY <2>2 DEF BeginsAgain
  <2> QED
    BY <1>1, <1>2, <2>2, <2>3
<1>9. ASSUME NEW p \in Procs, NEW x \in Executions, NEW r \in Runs,
             NEW urls \in SUBSET Sources, CreateExecution(p, x, r, urls)
      PROVE  Sound
  <2>1. Created(x, r) /\ artifacts' = artifacts
    BY <1>9, CreateRows DEF CreateExecution
  <2>2. ASSUME NEW y \in Executions, NEW w \in Sources
        PROVE  src'[y][w].summary = "none" \/ src'[y][w] = src[y][w]
    BY <2>1 DEF Created
  <2> QED
    BY <1>1, <1>2, <2>1, <2>2
<1>10. ASSUME NEW p \in Procs, Proceed(p) PROVE Sound
  <2>1. \/ UNCHANGED <<src, artifacts>>
        \/ \E u \in job[p].todo : RecordSourceExtracted(p, u)
        \/ RecordSourceFailure(p) \/ ReuseMatchingArtifact(p) \/ RecordSourceSummary(p)
        \/ BeginRegeneration(p)
    BY <1>10 DEF Proceed, rows, Load, SkipUnavailable, LookForEvaluation,
       Summarize, Evaluate, AddInput, KeepDone, Settle, SetExecutionRoute, FailExecution,
       MarkSummarizing, CompleteExecution,
       NothingToSummarize, StartExtracted, Schedule, Enter, ReadVersion
  <2> QED
    BY <1>3, <1>4, <1>5, <1>6, <1>7, <1>8, <2>1
<1>11. ASSUME \/ UNCHANGED summaryVars \/ Rest \/ Deadline
             \/ \E v \in Versions :
                  Recapture(v) \/ \E r \in Runs, kind \in {"permanent", "expiring"} : Accept(r, v, kind)
             \/ \E p \in Procs :
                  Poll(p) \/ Crash(p) \/ \E x \in Executions : Regenerate(p, x)
      PROVE  UNCHANGED <<src, artifacts>>
  BY <1>11 DEF summaryVars, rows, Rest, Deadline, Recapture, Accept, Poll, Crash, Regenerate
<1> HIDE DEF Sound
<1>12. ASSUME UNCHANGED <<src, artifacts>> PROVE Sound
  BY <1>3, <1>12
<1>13. Sound
  <2>1. CASE \E p \in Procs : Proceed(p)
    BY <1>10, <2>1
  <2>2. CASE \E p \in Procs, x \in Executions, r \in Runs, urls \in SUBSET Sources :
               CreateExecution(p, x, r, urls)
    BY <1>9, <2>2
  <2>3. CASE UNCHANGED summaryVars
    BY <1>11, <1>12, <2>3
  <2>4. CASE Rest \/ Deadline
    BY <1>11, <1>12, <2>4
  <2>5. CASE \E w \in Versions :
               Recapture(w) \/ \E r \in Runs, kind \in {"permanent", "expiring"} : Accept(r, w, kind)
    BY <1>11, <1>12, <2>5
  <2>6. CASE \E p \in Procs :
               Poll(p) \/ Crash(p) \/ \E x \in Executions : Regenerate(p, x)
    <3>1. UNCHANGED <<src, artifacts>>
      BY <2>6 DEF rows, Poll, Crash, Regenerate
    <3> QED
      BY <1>12, <3>1
  <2>7. \/ \E p \in Procs : Proceed(p)
        \/ \E p \in Procs, x \in Executions, r \in Runs, urls \in SUBSET Sources :
             CreateExecution(p, x, r, urls)
        \/ Rest \/ Deadline
        \/ \E w \in Versions :
             Recapture(w) \/ \E r \in Runs, kind \in {"permanent", "expiring"} : Accept(r, w, kind)
        \/ \E p \in Procs :
             Poll(p) \/ Crash(p) \/ \E x \in Executions : Regenerate(p, x)
        \/ UNCHANGED summaryVars
    BY DEF SummaryNext
  <2> QED
    BY <2>1, <2>2, <2>3, <2>4, <2>5, <2>6, <2>7
<1> QED
  BY <1>13 DEF Sound

\* The summary a project starts with was made of what preflight found usable.
LEMMA StoredInit == SummaryInit => StoredInv
<1> SUFFICES ASSUME SummaryInit PROVE StoredInv
  OBVIOUS
<1>1. CASE StartsFresh
  BY <1>1 DEF StartsFresh, NoSource, StoredInv, RowSound
<1>2. ASSUME NEW old \in Executions, NEW r \in Runs, NEW done \in Sources, NEW v \in Versions,
             NEW route, Ready(done), v = Preflighted[done], StartsDone(old, r, done, v, route)
      PROVE  StoredInv
  <2>1. \A a \in artifacts : a.text = a.version
    BY <1>2 DEF StartsDone
  <2>2. Cleared(r, v)
    <3>1. evaluations[r][v] = <<[base |-> Disposition(v), overrides |-> {}]>>
      BY <1>2 DEF SummaryInit
    <3>2. evaluations[r][v] # <<>>
      BY <3>1
    <3> QED
      BY <1>2, <3>2 DEF Cleared, Evaluated, Ready
  <2>3. exec[old].run = r /\ exec[old].status = "completed"
    BY <1>2 DEF StartsDone, NoExecution
  <2>4. \A x \in Executions, u \in Sources :
          /\ x = old /\ u = done => src[x][u].summary = v /\ src[x][u].version = v
          /\ x # old \/ u # done => src[x][u].summary = "none"
    BY <1>2 DEF StartsDone, NoSource
  <2>5. ASSUME NEW x \in Executions, NEW u \in Sources PROVE RowSound(x, u)
    <3>1. CASE x = old /\ u = done
      BY <2>2, <2>3, <2>4, <3>1 DEF RowSound, Known
    <3>2. CASE x # old \/ u # done
      BY <2>4, <3>2 DEF RowSound
    <3> QED
      BY <3>1, <3>2
  <2> QED
    BY <2>1, <2>5 DEF StoredInv
<1> QED
  BY <1>1, <1>2, Starts

\* No text reaches the model, and none is kept as a summary, that was not
\* cleared in the run it is summarized for.
THEOREM OnlyClearedSummarized == SummarySpec => []OnlyClearedTextIsSummarized
<1>1. TaskInv /\ StoredInv => OnlyClearedTextIsSummarized
  BY InputsCleared DEF StoredInv, RowSound, OnlyClearedTextIsSummarized
<1> QED
  BY <1>1, TaskInit, TaskStep, OrderInit, OrderStep, StoredInit, StoredStep, PTL DEF SummarySpec

\* A summary is filed under the version whose text it was made from, and taken
\* over for that version only.
THEOREM SummariesOfTheirVersion == SummarySpec => []SummaryIsOfItsVersion
<1>1. StoredInv => SummaryIsOfItsVersion
  BY DEF StoredInv, RowSound, SummaryIsOfItsVersion
<1> QED
  BY <1>1, TaskInit, TaskStep, OrderInit, OrderStep, StoredInit, StoredStep, PTL DEF SummarySpec

\* Preparations, by whichever request or worker, and the acceptances beside them
\* change the trust records as WebTrust allows (evidence_summaries/service.py:142-156).
THEOREM SummariesKeepTrust == SummarySpec => [][TrustNext]_evaluations
<1>1. TaskInv /\ [SummaryNext]_summaryVars => [TrustNext]_evaluations
  BY StepRefines
<1> QED
  BY <1>1, TaskInit, TaskStep, PTL DEF SummarySpec

\* So no version that the policy blocks becomes usable here either, whatever
\* was accepted before and meanwhile.
THEOREM BlockedInSummaries == SummarySpec => []BlockedNeverUsable
<1>1. TaskInv => BlockedNeverUsable
  BY BlockedByInv DEF TaskInv
<1> QED
  BY <1>1, TaskInit, TaskStep, PTL DEF SummarySpec

-----------------------------------------------------------------------------
(* The functions the summaries are computed with.                           *)

\* The model reads every text from end to end, in bounded overlapping chunks
\* (evidence_intelligence/chunking.py:17-30).
THEOREM ChunksCoverEveryText == SummarySpec => []ChunksCoverText
<1>1. \A n \in 1 .. MaxLength : n \in Nat \ {0}
  BY PolicyAssumption
<1>2. ChunksCoverText
  BY <1>1, EveryTextIsCovered, Zenon DEF ChunksCoverText
<1> QED
  BY <1>2, PTL

\* Consolidation loses no summary and never exceeds the budget of a model call
\* (evidence_intelligence/consolidation.py:12-34).
THEOREM GroupsFitEveryBudget == SummarySpec => []GroupsFitBudget
<1>1. \A count \in 1 .. MaxItems : count \in Nat
  BY PolicyAssumption
<1>2. \A count : Summaries(count) = [1 .. count -> 1 .. Budget - 2]
  BY DEF Summaries
<1>3. GroupsFitBudget
  BY <1>1, <1>2, EveryGroupingFits, Zenon DEF GroupsFitBudget
<1> QED
  BY <1>3, PTL
=============================================================================
