# A TLA+ development of agentic-web-intelligence

The platform lets a person ask for web research that agents carry out under
human control. A *run* of the agent runtime is planned, waits for an operator's
approval, is executed by a researcher with two governed tools, is judged by a
reviewer, and ends or waits for an operator. Around it, research runs collect
candidate pages, check them before use and keep captures of them; a local
policy and operators decide which captures may be used; a local model
summarizes what they cleared; and identities, a tool endpoint and a connector
to one GitHub Project connect the platform with the outside. This directory
holds specifications of that code, TLC configurations that check them, and
TLAPS proofs.

Paths such as `web_trust/service.py:28` and `main.py:341` are under
`src/apps/api/app/`, and `docs/` under `src/`; `service.py`, `store.py`, `workflow.py` and `policy.py`
without a directory are those of `agent_runtime/`.

## Files

| file | content |
|---|---|
| `GovernedRun.tla` | what a run promises: an abstract specification |
| `RuntimeStore.tla` | the persisted run and the transactions of `store.py` |
| `RuntimeStoreProofs.tla` | its theorems |
| `DurableRuntime.tla` | operators, scheduler, Temporal workflow, worker activities and planner acting on one run |
| `DurableRuntimeProofs.tla` | that the runtime implements its store; approval, ownership of steps |
| `RunEndProofs.tla` | that the end of a run agrees with its steps and its sources, one failure leaves no run hanging, and a workflow runs out of steps |
| `WebTrust.tla` | the trust policy and its records: an abstract specification |
| `WebTrustProofs.tla` | its theorems |
| `ResearchRuns.tla` | discovery, preflight, retrieval and acceptance on the runs of a workspace |
| `ResearchRunsProofs.tla` | that `ResearchRuns` implements `WebTrust`; verdicts, ready candidates, settled runs, duplicates |
| `EvidenceIntelligence.tla` | chunking, grouping and routing as functions |
| `EvidenceIntelligenceProofs.tla` | what these functions compute for every text and any summaries |
| `EvidenceSummaries.tla` | summary executions: preparation, both routes, regeneration |
| `EvidenceSummariesProofs.tla` | its theorems |
| `Identity.tla` | users, sessions, service identities and the security audit |
| `ApiBoundary.tla` | `Identity` composed with the MCP endpoint and the GitHub Project |
| `ApiBoundaryProofs.tla` | its theorems |
| `MC*.tla` | instances for TLC: definitions of constants, symmetry sets |
| `*.cfg` | one per run, listed below |
| `PROJECT.json` | components, runs, mutants, source map, findings, hazards, theorems |

`DurableRuntime` EXTENDS `RuntimeStore` and calls its transactions as actions;
`RuntimeStore` instantiates `GovernedRun` under a refinement mapping.
`ResearchRuns` and `EvidenceSummaries` both EXTEND `WebTrust` and call its
operations; for `ResearchRuns` the refinement of `TrustSpec` is stated and
proved; the steps of `EvidenceSummaries` are proved to refine its next-state
relation. `EvidenceSummaries` also EXTENDS `EvidenceIntelligence`, and
`ApiBoundary` EXTENDS `Identity`.

## Inventory

### Components modelled

**Agent runtime store** (`store.py`, `contracts.py`, `policy.py`). State: the
run's status, its steps with status and attempt count, handoffs, an append-only
event stream, memories that expire after 24 hours. Operations: create a run,
transition its status, store the plan, record a handoff, activate, complete and
fail a step, request a revision, grant an exception revision, append an event,
record a memory. Every operation is one transaction, and those that decide on
the status lock the run's row first. It is correct when no order of calls
starts a researcher beyond its budget, opens the gate without a plan, or
restarts a run that has ended.

**Runtime service and agents** (`service.py`, `workflow.py`). No state of their
own: each method reads the run *without a lock*, decides, and calls store
transactions one after another. This is where interleavings bite. Correct when
nothing is executed without a recorded approval, a step is worked on by one
executor at a time, and how a run ended agrees with its steps.

**Durable execution** (`durable_execution/`). The Temporal workflow alternates
execute and review activities for at most three rounds; an activity that fails,
times out or is cancelled leads to a third activity, which hands the run to an
operator. Every activity has one attempt. Correct when a started workflow ends
and an uncertain outcome reaches an operator.

**Web research** (`web_research/store.py`, routes in `main.py`). State: one
research run per normalized question of a workspace (searching, preflighting,
ready, failed), its candidate pages with their preflight status, captures of
pages with a retrieval time. A search saves what the workspace does not know
yet; several searches, batches and retrievals write the same tables. Correct
when a candidate gets one verdict that its evidence supports, and when the
status of a run nothing works on tells what became of it.

**Candidate preflight and web trust** (`web_trust/`). State: evaluations of
captured versions per run and operators' overrides with an optional deadline.
A small batch is preflighted in the request, a larger one by a worker.
Evaluation and acceptance look first and insert afterwards. Correct when a
version the policy blocks never becomes usable, and an acceptance is consulted
by every later decision.

**Evidence summaries** (`evidence_summaries/`, `evidence_intelligence/`).
State: executions with the sources they select, artifacts per page version.
Preparation decides which evidence may reach the model and by which route;
one chunk of one source is summarized in the request, anything else by a
Temporal workflow; a completed summary may be regenerated. Correct when only
cleared text reaches the model, a summary is stored under the version it was
made from, a completed execution has a result, and every execution settles.

**Identity** (`identity/`, auth and service-identity routes). State: the
bootstrap administrator and workspace, sessions that end by revocation or
expiry, service identities with permissions, security events. Correct when
there is one administrator, an ended credential authorizes nothing, and the
audit is true and does not change answers.

**MCP host** (`web_research/mcp_host.py`). No state but its audit. Correct when
no outcome is returned that the audit does not hold.

**GitHub Projects** (`github_projects/`). Remote drafts; creating one and
setting its priority are separate calls. Correct when what an operator is told
of a draft is true.

**Routes** (`main.py`). The handlers that change state are part of the
component they call.

### How they interact

Operators' requests and workers' activities meet in PostgreSQL only; a request
that hands work to a worker writes its record first and then calls Temporal.
The runtime's executor uses the two tools whose calls the MCP host governs.
Retrieval, preflight, acceptance and summaries share the trust records; the
captures that research retains are the evidence that summaries read. Preflight
that finds candidates ready, and an operator's acceptance, start summaries.
Every route authenticates by one read and acts afterwards.

### Hazards

`PROJECT.json` lists every hazard at its line. They come from five patterns:

1. *check, then act on an old read*: approval (`service.py:113`), scheduling
   (`:87`), start of execution (`:68`), exception (`:232`), close (`:257`),
   known URLs (`web_research/store.py:280`), evaluation and acceptance
   (`web_trust/service.py:28`, `:53`), regeneration (`main.py:1496`), the
   version of a summary (`evidence_summaries/store.py:283`), bootstrap
   (`identity/store.py:110`), the Project's options
   (`github_projects/service.py:155`);
2. *several transactions or calls that a crash, a cancellation or an error
   separates*: `service.py:100-105`, `:154-155`, `:187-188`, `:214-220`, record
   and start of a workflow, preflight between two candidates, effect and audit,
   draft and priority;
3. *activities that outlive their timeout* and go on beside the escalation;
4. *budgets written in several places*: the reviewer's limit
   (`workflow.py:142`), the policy's (`policy.py:29`), the store's two checks
   (`store.py:379`, `:441-448`), the workflow's rounds;
5. *errors of a kind the caller does not handle*: an unreachable Temporal, a
   failed audit connection, a preparation outside the `try`.

## The modules and the code

### RuntimeStore

One run. `status` is its row; `step` and `attempts` map the planner, the
reviewer and the possible researchers to their rows (`"absent"` until the plan
is stored); `events` counts the events of the types the code reads back, and of
`runtime.attention.closed`; `sources` says whether a source reference was
recorded and whether an unexpired one is left (the code asks only for the
latter, a property for the former); `handoffs` holds the role pairs recorded. Other events
(`transitioned`, `activated`, `tool.succeeded`, `review.decided`, ...) are
written and never read by the program, so they are left out, as are goals,
titles, reasons and identifiers.

Each transaction is an action. `TransitionRun`, `ActivateStep`, `CompleteStep`
and so on carry the conditions the code checks under its lock; the `Can...`
predicates name those conditions, because `DurableRuntime` must also model the
refusal. `CompleteStep` and `FailStep` do not look at the run's status, and
`FailStep` succeeds when the step is no longer active: so does the code.
`Next` contains every call `RuntimeService` makes, in any order. The service's
own checks are left out on purpose: they are made on unlocked reads, so the
store has to hold without them.

### GovernedRun

Five phases, an attempt count per researcher, and the number of grants. Work
happens in the working phase only, each attempt is paid for by the routine
budget or by a grant, grants are bounded, and nothing leaves `"ended"`.
The mapping sends a status to its phase and forgets steps, handoffs, memories
and the other events.

### DurableRuntime

`job[w]` is the activity a worker slot executes: the next read or transaction,
the researcher it picked and the verdict it formed. `wf` is the workflow:
the activity awaited, the round, and whether its task is queued, run by a
worker, or lost. `req[c]` is an operator's or the scheduler's request: which,
and how far. `faults` counts faults.

* An activity is a chain of steps, one per unlocked read on which it decides
  and one per transaction, in the order of the code: execute = validate, begin
  (status, then approval event, then transition), pick, activate, search,
  extract, remember, complete or fail, transition, report; review = validate,
  look, take the seat, then accept, revise or hand over; escalate = validate,
  flag, halt, report. A refused transaction raises out of the activity.
* `Stages` gives the reads and writes of each request in order. A gate that
  fails is the 409 answer; a refused transaction is the error answer. `Abandon`
  ends a request between any two stages: the API process dies, or Temporal
  cannot be reached.
* Temporal is external. It runs one activity at a time for a workflow, delivers
  a result only to a workflow that awaits it, fires the start-to-close timeout
  of a lost or slow activity, never retries (`maximum_attempts=1`), turns a
  cancellation into a failure of the awaited activity while the activity itself
  goes on (it does not heartbeat), and refuses to start a second workflow with
  the identifier of an open one.
* `get_run` reads five tables in five statements. Status and events are
  separate reads where a method decides on both. The reviewer's snapshot of
  steps and memories is one read (`Look`). The reads `activate_reviewer` and
  `request_research_revision` make before a transaction with the same
  conditions are merged with it.
* The delivery of a result and the workflow's reaction are one step: nothing
  else reads the workflow in between.
* No production code schedules a run yet; the tests do. The model's scheduler
  records the event and then starts the workflow.
* Tool calls are a choice between results, no results and failure.

### WebTrust

`evaluations[r][v]` is the sequence of evaluations of version `v` in run `r`,
each with the disposition the rules gave and the overrides attached to it.
Versions stand for content hashes. A rule's outcome depends on four facts of a
version (`Facts`): served over HTTPS, of a supported content type, unchanged
against its hash, of an expected size; the redirect rule always gives a
notice. `Latest` is what `latest_evaluation` selects; an override counts until
its deadline, which may pass at any time.

`TrustNext` is the abstract specification: anyone may add an evaluation, and an
override may be attached to any evaluation by someone who has seen, at any
time, a latest evaluation that requires review. `SeenForReview` says that
without naming callers: the row seen is still there, since rows are never
removed, and it was the latest when it was seen, so the row overridden is not
before it.

### ResearchRuns

`run`, `source` and `evidence` are the tables; a run is named by its normalized
question. `job[p]` is a request or a worker's activity, with its place in the
code and the values it has read; `queue` holds the batches given to Temporal.
`fetches` counts captures per page, so that the latest is defined. `lost` marks
runs that had a batch fail to start or a process die.

* `Request` is `get_or_create_run`, one step because of its advisory lock. The
  search is external: it finds any set of pages or fails.
* `save_new_sources` is two steps, `LockRun` and `SaveNewSources`. It holds its
  own run's row in between, which `Unlocked` expresses for every other
  transaction that updates the run or inserts a row referring to it; another
  run's search goes on.
* Preflight is a chain of steps: `Load` (one read of the run and the captures),
  then for each candidate the mark, the fetch, the look for an equal capture,
  the insert, the look for an evaluation, the insert, the verdict. The order of
  the candidates is any. `Load` merges the statements of `get_run`.
* `Extract` is an operator's retrieval of one page, the same chain without
  verdict; a batch retrieval is several of them. `Accept` is the route's check,
  the store's second read and the insert.
* A page is fetched in any version it `Serves`, which includes versions of the
  page it redirects to (`Page`).

### EvidenceIntelligence

`ChunkText` gives the offsets of `chunk_text`, `GroupWithinBudget` the groups
of `group_within_budget` from the sizes of rendered summaries, `Route` the
route. `ChunksCover` and `GroupsFit` state what they are for, independently of
how they compute it; `ChunksCoverText` and `GroupsFitBudget` (in
`EvidenceSummaries`) require it for all texts up to `MaxLength` and all
sequences of up to `MaxItems` sizes, and are proved without these bounds.

### EvidenceSummaries

`exec`, `src` and `artifacts` are the tables; a summary is represented by the
version whose text it was made from, so that a summary under the wrong version
is visible. `latest` is the capture of each page that was retrieved last;
`tasks` are workflows Temporal holds, named by execution and attempt.

* `CreateExecution` stands for the operator's request, the summary that starts
  after preflight and the one that starts after an acceptance; they differ in
  the sources they may select (`ByOperator`, `Ready`, `JustAccepted`).
* `prepare` is `Load`, then for each source the evidence, the evaluation, the
  admission, and reuse of an artifact or an input; then the extracted versions
  and the route. `Load` merges `get_execution` and `get_run`; the order of the
  sources is any; a route is written and read back in one step.
* `execute` is entered by the request that took the direct route or by an
  activity; it prepares once more, which is where versions can change. Each
  source is one step for its model calls, one for the second read of its
  version, one for its write. The model may give an answer the code refuses, or
  an error may escape (`Summarize`).
* `ReuseMatchingArtifact` takes over the artifact of a version, or makes one of a
  completed source that has none (`evidence_summaries/store.py:345-382`); a
  regeneration beside the work it resets leaves such sources.
* `regenerate` checks in one read and resets in a later transaction that does
  not look again.
* `lost`, `unreachable`, `overlapped` and `skipped` are history: they name the
  executions a property makes no promise about, and only those. `lost` holds
  those a process died on, whose workflow could not be started, or from which
  an unhandled error escaped; `overlapped` those regenerated while at work.

### Identity and ApiBoundary

`req[p]` is a request, with its place, credential and object. A token stands
for its session and a name for its service identity. Authentication is one
read (`Authenticate`), the action comes later, the security event last.
Locking the rows of an empty table locks nothing, so two bootstraps may both
pass `LookForUsers`; the unique workspace name decides
(`CreateBootstrapAdmin`). An unconfigured or unreachable audit store is passed
over; a connection that fails later raises out of the request, with or without
the event stored. `told`, `ended` and `spoiled` record what clients were told.
Clients may present any credential that was ever issued.

In `ApiBoundary` a tool call is authenticated, runs, is recorded, is answered.
A draft is created and its priority set by calls that GitHub may refuse, or
apply and lose the answer; the Project's options change at any time. `claimed`
is what operators were told of drafts.

## Runs

| run | instance | shows |
|---|---|---|
| `store_safety` | 2 researchers, 2 attempts, 1 exception; all orders of calls | type invariant, inductive `BudgetInv`, attempt budget, plan behind the gate, ended runs, refinement of `GovernedRun` |
| `durable_safety` | 1 researcher, 3 attempts, 1 exception, 2 workers, 2 requests, 1 fault of any kind | approval before work, one worker per step, end agrees with steps, completed only on a source reference, nothing keeps a workflow going |
| `direct_calls` | 2 researchers, 2 attempts, 2 workers, 1 request, no faults, executor and reviewer also called outside Temporal | approval and ownership without the workflow's discipline |
| `durable_liveness` | 2 workers, 1 request, 2 faults of any kind, fairness | a started workflow ends; a single crash or outage leaves a run that ended or reached an operator |
| `research_runs` | 2 runs, 2 pages, 3 versions, 2 processes, 3 requests or crashes | settled runs, final verdicts, ready candidates have usable evidence, blocked stays blocked, duplicates stay bounded, refinement of `TrustSpec` |
| `summaries` | 2 runs, 2 sources, 3 versions, 2 executions, 2 processes, 4 requests, captures or crashes | only cleared text, summaries under their version, completed executions have results, executions settle; chunking and grouping |
| `api_boundary` | 2 accounts, 2 tokens, 1 service identity, 2 processes, 4 requests, 1 of 2 priorities offered | one administrator, immediate revocation, true audit, audited tool answers, true answers about drafts |

Every property of these runs has a mutant (`PROJECT.json`, operators marked
"Mutant" in the modules): a plausible bug of the mapped code that makes TLC
refute the property.

Runs that TLC refutes, each a disagreement between the code and its own text:

| run | the text | the code |
|---|---|---|
| `late_begin_reopens` | only operator-resolution methods use the transitions out of `needs_attention` (`store.py:102-103`) | a timed-out executor uses them through `begin_execution` |
| `exception_stalls` | an exception requires a later schedule (`durable_execution/workflows.py:22-23`) | a reopened run cannot be scheduled |
| `acceptance_lost` | every eligibility decision consults the override (`docs/adr/0015-local-policy-controlled-web-trust.md:80-84`) | a second evaluation, looked up before the first was stored, becomes the latest and carries no override |
| `unreachable_stalls` | an unreachable Temporal fails the execution closed (`docs/local-evidence-intelligence.md:158-160`) | only a missing address does; an error of the connection leaves it in `awaiting_execution` |
| `audit_blocks` | the audit is best-effort and non-blocking (`main.py:324`, `docs/identity.md:59-61`) | an error after the pool was created raises out of a request that took effect |

Further disagreements the models contain and no run states: an exception
granted after the ambiguity that excludes it was recorded
(`docs/durable-execution.md:54-55`, `service.py:232`); a close that cancels a
run reopened since its check (`service.py:256`); tool calls after a
cancellation (`docs/agent-runtime.md:81-82`, `workflow.py:84`); an execution
that is not failed although its evidence is unavailable
(`docs/local-evidence-intelligence.md:177-190`; only the creating request fails
it, a worker that prepares again and a regeneration do not,
`evidence_summaries/service.py:214`, `main.py:1520`); an approval recorded twice (`service.py:114`); the wait after two attempts where
`docs/durable-execution.md:47-50` says three (`workflow.py:142`; there
`docs/agent-runtime.md:178-179` agrees with the code); and a search repeated
for an existing target, which
`docs/adr/0015-local-policy-controlled-web-trust.md:97-102` says is not done
(`main.py:1195`; `Search` in `ResearchRuns`).

`UncertainOutcomeEscalates` and `ScheduledRunSettles` speak of one failing
dependency or crash: with two the escalation, which has one attempt too, may
fail. That is the code's design (`maximum_attempts=1`), although
`docs/durable-execution.md:71-73` does not say so. They also speak of a plan
with one researcher, executed by the workflow alone (`OneFailure`). With
several researchers, which the service accepts (`service.py:362`) and no
planner makes, no fault is needed: the review asks to revise one that may not
have been executed yet, and is refused; and after three rounds the workflow
answers `needs_attention` (`durable_execution/workflows.py:49`) for a run that
is still executing.

### What the properties exclude

`QuietRunIsSettled` says nothing of runs in `lost`: a preflight that dies leaves
candidates in `checking`, and the code has no way back, because their pages are
known from then on. `QuietExecutionIsSettled` and `CompletedIsSummarized` exclude executions
regenerated while at work, where the code mixes the two attempts.
`SummaryIsOfItsVersion`, and what `OnlyClearedTextIsSummarized` says of stored
results, are void once there was such a regeneration, because other executions
take its summary over; what may reach the model holds with it too.
`CompletedIsSummarized` excludes sources whose evidence was not found, which
the code skips without a trace (`evidence_summaries/service.py:141`), and
`QuietExecutionIsSettled` executions from which an error escaped because none
was found at all, although `docs/local-evidence-intelligence.md:177-190` has
unavailable evidence fail closed. The second takes a page that is captured
again between two preparations, after which the hash that led to a redirected
source's evidence is no longer that of a latest capture.
`VerdictIsFinal` is about one candidate row of one run. That an earlier result
is "not a permanent domain-level verdict" and is rechecked by its age
(`docs/adr/0015-local-policy-controlled-web-trust.md:63-64`) is about later
work, which no code does.
`CompletedOnProvenance` asks for a source reference that was recorded before
the run was completed, not for one that still exists: the reviewer decides on a
snapshot, and the source may expire before the run is closed, or one may be
added to a run that is about to be revised or handed over.
`EndAgreesWithSteps` excuses one way to complete a run without a completed
reviewer: the run was flagged as ambiguous and two exceptions were granted. A
worker that outlived its timeout may then stand before the last transition of
its review, with its step reopened by the second exception, whose request read
the run before the flag; no attempt is made to stop it
(`service.py:187-188`, `:232`). The code grants up to three exceptions
(`MAX_OPERATOR_REVISION_APPROVALS`), so this can happen; the runs, with one
exception, do not reach it, and the attempt to prove the property without the
excuse showed it.
`OneAdministrator`, `EventsAreTrue` and the properties of drafts exclude
nothing.

## Bounds

* Researchers: the planner of `workflow.py:22-28` makes one; `store_safety` and
  `direct_calls` have two, so that one may be left out of the plan, pending or
  held by another executor. `MAX_RESEARCH_STEPS` (5) only limits the plan's size,
  and the proofs hold for every finite set of researchers.
* `MaxResearchAttempts` is the code's 3 where revisions matter, 2 with two
  researchers. `MaxOperatorRevisions` is 1 for the code's 3 (0 in
  `direct_calls`): a later grant matters to `EndAgreesWithSteps` only,
  and the proofs hold for every number.
* `EventCap` saturates the count of grants. It is 2, above the budget of the
  runs, so that a grant too many is counted; the proofs ask only that it is not
  below the budget. Of the other events the code asks whether there is one,
  and their count stops there.
* Two workers and two requests are what it takes for every race above; a third
  would meet the same row locks. `MaxFaults` is 1 or 2: most hazards need one
  fault, a failed escalation two.
* A memory, a session and an override expire at any time, whatever their age.
* `MaxAsked` bounds the requests (with new captures and crashes) of one
  behaviour: in `research_runs` 3, enough for two searches and an acceptance or
  a crash beside them; in `summaries` 4, enough, from a
  summary that is completed or from none, for two concurrent regenerations, a
  new capture and another execution that meets what they left; in `api_boundary` 4, enough for a creation,
  two revocations and a call with the revoked credential.
* `DirectLimit` is 1 for the code's 2, so that with two pages both routes occur.
  In `research_runs` one version is eligible, one requires review, one is
  blocked, and a page redirects to another; both runs may save the same page.
  In `summaries` two versions are eligible and one requires review; a blocked
  one is never admitted, like one that is not accepted.
* Chunks of 5 characters overlapping by 2, and a budget of 8, stand for 6000,
  500 and 12000; every text of up to 24 characters and every sequence of up to
  4 summaries is checked, which has every remainder and every place of a group
  boundary.
* Tokens: one for each session the requests may open (`TokensLeft` keeps a
  request from asking for a session without one). `Priorities` has one that
  the Project never offers.

## Fairness

`WF` on a worker's next step and on taking a queued task: a worker that is
alive polls and does not stop between two statements. `WF` on the timeout of a
lost activity: Temporal's timer. Nothing is assumed of operators, of the
planner or of faults. `ScheduledSpec`, for `exception_stalls`, adds that
requests are served and that trusted code keeps asking for a schedule, so that
the stall cannot be blamed on nobody asking.

The other components promise nothing eventually: their batches and executions
have one attempt, and a crash ends them. What must hold when nothing works on a
run or an execution any more is a state property (`QuietRunIsSettled`,
`QuietExecutionIsSettled`), which needs no fairness.

`CHECK_DEADLOCK` is left on everywhere. In `ResearchRuns`, `EvidenceSummaries`
and `ApiBoundary` the action `Rest` stutters when no request and no task is at
work, so that a process that could not go on would be reported.

## Proofs

All theorems hold for every value of the constants.

**RuntimeStoreProofs**, from `StepsAssumption` (planner, reviewer and
researchers are different steps) and `BudgetAssumption` (at least one attempt,
natural budgets, a cap not below the exception budget):

* `TypeCorrect`: `Spec => []TypeOK`.
* `BudgetCorrect` and `AttemptsWithinBudget`. `AttemptBudget` alone is not
  inductive: `activate_step` does not look at the count, it takes whatever is
  pending. `BudgetInv` adds that a pending researcher has an attempt left
  (`request_revision` checks it, a grant raises the budget, a plan starts from
  zero), that grants do not exceed their budget, so that a capped count of them
  is exact, and that no researcher exists before the plan is stored, so that
  storing it resets no one.
* `PlanStoredBehindGate`: the gate is entered by `materialize_plan` alone, and
  every later status is reached from it.
* `EndedRunStaysEnded`: an action property; each transaction is looked at in
  the state of an ended run.
* `StoreImplementsGovernedRun`: `GovernedInit` and `GovernedStep` map initial
  states and steps; `BudgetInv` gives the bound `Research` asks for, and
  `TransitionPhase` is a lemma on the tables alone.

**DurableRuntimeProofs**, from the same and from `FaultAssumption` and
`WorkersAssumption` (the names of workers are not the three words that stand
for a task that no worker runs).

* `RuntimeImplementsStore`: every step of `DurableRuntime` is a step of
  `RuntimeStore` or leaves the store alone. It takes the shape of the process
  state (`DurableShape`: at a label that acts on a researcher there is one), and
  carries every theorem of the store over, two of which are stated again:
  `RuntimeWithinBudget` and `RuntimeIsGoverned`. `DurableTyped` comes along.
* `ApprovalCorrect`: either an approval is on record, or nothing has been
  touched (`ApprovalInv`): no workflow, no attempt, no activity and no
  scheduling request beyond its gate, and a status from which none can start.
  An event is never removed, so a stale read that saw the approval stays right;
  that is why the unlocked reads do no harm here.
* `StepsHaveOneWorker`: only a transaction that finds a step pending makes it
  active, and only the worker that holds it, or a revision that finds it
  completed, changes it; `Drafted` adds that the reviewer's step, too, comes
  with the plan.

**RunEndProofs**, with `FiniteAssumption` (finitely many researchers and
workers). `EndsAgree` takes three invariants. `StartInv`: no attempt is made
before the start, and who is about to fail the run has failed its step.
`ReviewInv`: who is about to end the run has completed the reviewer's step, one
worker at most is, and a request for an exception that read a waiting run read
one whose review is over; a flag of ambiguity ends this, which is where the
excuse above comes from. `DoneInv`: a researcher is completed. It counts:
revisions reopen researchers, any worker's submission starts a review, and only
the number of completed researchers against the workers about to submit keeps
the last one from being reopened.

`CompletedWithSource` needs who is about to complete the run and on which
verdict (`ProvenanceInv`): an activity takes one verdict, on the sources it saw
(`VerdictStep`), and although a source expires, that there was one is never
undone (`ProvenanceStays`).

`OneFailureEscalates` takes `ReviewAssumption` (the store permits the two
attempts that `_review_decision` counts to, `workflow.py:142`). It is a safety
property that sums up a whole execution: `EscalationInv` says, for each place
of the workflow and of its one activity, which status, steps and attempts there
are, as long as one failure at most has struck, the run goes on and no operator
has reopened it (`Orderly`). From that the escalation, if it is needed, finds
the run where it can be flagged and halted.

`WorkflowsRunOut` is the part of `WorkflowEnds` that is no matter of fairness.
`StepsLeft` counts the activities an open workflow may still run, by the rounds
that are left, and within one the labels before its end (`Depth`). Every step of
the workflow, of Temporal for it and of the awaited activity lowers it
(`Downward`, `FewerActivities`); nobody else's step raises it, although
revisions, exceptions and outlived activities go on changing the run
(`TaskStays`). So a workflow ends as soon as its queued tasks are taken, lost
ones time out and running ones go on, which is what `Fairness` assumes. That
one of these steps is always possible is what TLC adds.

**WebTrustProofs**, without an assumption beyond the type of `Facts`. A step
adds a row or changes the overrides of one, and a row's disposition never
changes (`NothingForgotten`); with that, `RowsFollowPolicy` is inductive, and a
blocked version has no override in any row, so its latest row is not usable
(`BlockedStaysBlocked`).

**ResearchRunsProofs**, from `ResearchAssumption` and, for the duplicates,
`ProcsAssumption` (finitely many processes at once). `ResearchRefinesTrust` shows
every step of `ResearchRuns` to be one of `TrustSpec` or a stutter. The
difficulty is the acceptance, which spans three steps: `SightInv` says that an
operator about to read again, or to insert, has seen a row that requires review
and that the row is still there; `ReviewKept` and `SightKept` carry it over the
steps of all others. `BlockedInResearch` follows from the refinement and
`BlockedStaysBlocked`.

* `ResearchTyped` and `ReadyIsUsable`: `TasksInv` says for each place of a
  request what it remembers and what still holds of it. The verdict rests on a
  capture that was retained and an evaluation that was made in earlier steps;
  both are only ever added to, and a usable evaluation stays usable except for
  an override that expires, which the property takes into account.
* `CandidatesJudgedOnce`: `ClaimInv` gives each candidate without a verdict one
  owner at most, a process or a queued batch. It is the lock of the run between
  `LockRun` and `SaveNewSources` that makes a new candidate's owner unique.
* `QuietRunsSettled`: `SettleInv` is the converse. Every unchecked candidate of
  a run that is not in `lost` has an owner, and a run that is searching or
  preflighting has somebody who is about to say what it found. A batch that
  marks the run ready beside another one (`web_research/store.py:410`) is
  harmless because the other one marks it again.
* `DuplicatesBounded`: `save_evidence` and `evaluate` look first and insert
  afterwards, and the tables have no key for what they look for. `BoundInv`
  counts what is there together with who is about to insert: whoever looked
  while there was nothing is another process each time, and once something is
  there nobody begins to insert, so the sum never exceeds the number of
  processes. With one process there is one evaluation at most, and an acceptance
  is on it (`AcceptanceStandsAlone`): the loss shown by `acceptance_lost` takes
  two evaluations at once. Both are about the evaluations of preflight and
  retrieval; those a summary makes (`evidence_summaries/service.py:144`) are
  in `EvidenceSummaries`, without a bound on their number.

**EvidenceIntelligenceProofs**, from `PolicyAssumption`. Both functions are
recursive, and the prover has no equation for a recursive function until the
function is shown to exist (`LoopDefined`, `FoldDefined`), nor an induction
rule that it can instantiate; `Induction` obtains one from the well-foundedness
of the natural numbers, by the least number outside a set (`WFMin`).

* `EveryTextIsCovered`: `Cut` says of the chunks from an offset on what
  `ChunksCover` says of all. One round of the loop keeps it (`RoundCuts`), by
  induction on what remains of the text, which shrinks because the overlap is
  smaller than a chunk; that every offset is met again below the limit is
  `RoundOffsets`.
* `EveryGroupingFits`: a fold over a sequence is the last of its partial results
  (`FoldRuns`). `Packed` is the loop invariant of `group_within_budget`: the
  groups so far, their boundaries, their exact content, their totals, and that
  each was closed only when the next summary did not fit. A summary joins the
  last group (`Joins`) or opens one (`Opens`). That small summaries at least
  halve in number (`SmallSummariesPair`) is a second induction, over pairs of
  groups.
* `ConsolidationEnds`: `_consolidate_bounded` (`evidence_summaries/service.py:280-302`)
  repeats until one group is left and bounds neither the levels nor the length
  of a keyword (`:88`). If the summaries of each level take at most half the
  budget with their delimiter, some level among the first `n + 1` has one
  group, `n` being the number of chunks. `LargeSummariesStall` shows that the
  condition cannot be dropped: with summaries above half the budget a level has
  as many groups as the one before. Nothing in the loop ends it then; the
  workflow stops waiting at the activity's timeout.

**EvidenceSummariesProofs**, from `SummaryAssumption` and `NoneAssumption`
("none" is no version).

* `TaskInv` says what a process may rely on whoever works beside it: its
  execution is known, its inputs are selected sources in cleared versions, the
  version of what it summarizes has been recorded. No property of the run that
  another process may undo is in it. With `InputsCleared` it gives the first
  half of `OnlyClearedTextIsSummarized`, which holds with regenerations beside
  the work too.
* `SummaryTyped` adds `AttemptInv`: regenerations that took place or are under
  way are not more than were asked for.
* `OrderInv` is what is known of an execution that was not regenerated while at
  work: one process or one task works on it (`AloneAt`), its status fits
  (`StatusAt`), and each phase has done its part of every source (`PhaseAt`).
  Each step is one of the process that works on the execution (`OwnMove`) or is
  none of its business (`Foreign`). `QuietExecutionsSettled` and
  `CompletedAreSummarized` follow.
* `StoredInv` uses both for the stored rows: a summary has the version it is
  filed under, cleared in the run. That the version read again after the model
  has answered is the one the text has is `VersionsHeld`, part of the phase.
  `SummariesOfTheirVersion` and the second half of `OnlyClearedSummarized`
  follow.
* `SummariesKeepTrust`: the steps of `EvidenceSummaries` are steps of
  `TrustNext` or leave the records alone, and `BlockedInSummaries` follows.

**ApiBoundaryProofs**, from `IdentityAssumption` and `ProjectAssumption`
(tokens and names are different and neither is "none", offered priorities are
priorities). `BoundaryInv` is the conjunction of `IdentityInv`, `ToolInv` and
`DraftInv`. For each request `Path` says which kinds reach which place and
`Sound` what its effect implies until it is recorded; `Alone` says that no two
requests are about to record the same fact, which is what makes an event's
count at most one; `ToldEnded` ties acknowledgements to ended credentials, so
that a stale request cannot authenticate; `OneMaker` says that a draft is told
of by the request that made it alone. Most steps are `Light` (they change one
request and no account), and one lemma serves them all.

Only model-checked: `WorkflowEnds` and `ScheduledRunSettles` (liveness takes
ENABLED, which is out of the prover's reach), and the five statements that TLC
refutes. Every other property of a passing run is a theorem for all values of
the constants.

Attempts to prove them corrected two properties that hold on the instances of
the runs and not in general: `EndAgreesWithSteps` and `OneFailure`, as told
above under *What the properties exclude*.

## Not modelled

* Local model configuration, settings, secrets, prompt templates, the web
  console, scripts and containers: no concurrency and no state of consequence
  of their own.
* `_prune_obsolete_target_runs`: a one-time deletion at start, before any
  request is served.
* The row that records the policy version, and the contents of audit events.
* Denied requests: they are answered without an effect.
* The roles operator and viewer: no code creates a user that has one.
* Listings, pagination, redaction, formatting and the mechanics of fetching:
  they change nothing, or their result is a choice in the model.
* Chunk and consolidation-group records: they are written and never read back.

## Plan

Done: the runtime's store, service and durable execution; research runs,
preflight and trust with the refinement; summaries with their pure functions;
identity with the tool endpoint and the GitHub Project; proofs of every safety
property that the runs check.

What would come next:

1. `EvidenceSummaries` as another implementation of `TrustSpec`:
   `SummariesKeepTrust` has its steps; its initial states hold what preflight
   recorded, so the abstract specification has to start from any state that
   `TrustSpec` reaches.
2. Composition of `ResearchRuns` with `EvidenceSummaries`, so that captures and
   preflight results come from the first instead of from constants.
