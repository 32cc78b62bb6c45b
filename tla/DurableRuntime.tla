---------------------------- MODULE DurableRuntime ----------------------------
(***************************************************************************)
(* Everything that acts on one run: the planner, the operators' HTTP       *)
(* requests and the trusted scheduler (main.py, agent_runtime/service.py), *)
(* the Temporal workflow (durable_execution/workflows.py) and the worker's *)
(* activities, which drive the executor and the reviewer of                *)
(* agent_runtime/workflow.py.                                              *)
(*                                                                         *)
(* A service method reads the run without a lock, decides, and then calls  *)
(* one store transaction after another.  Each read and each transaction is *)
(* a step of its own here, so requests, activities and the workflow        *)
(* interleave between any two of them.                                     *)
(***************************************************************************)
EXTENDS RuntimeStore, Sequences, FiniteSets

CONSTANTS
  Workers,      \* activities (or direct calls) that may be in progress at once
  Callers,      \* operator and scheduler requests in progress at once
  Faults,       \* kinds of fault that may happen
  MaxFaults,    \* bound: faults in one behaviour
  DirectCalls   \* may trusted code call executor and reviewer without Temporal?

FaultKinds == {"crash", "outage", "timeout"}

ASSUME FaultAssumption ==
  Faults \subseteq FaultKinds /\ MaxFaults \in Nat /\ DirectCalls \in BOOLEAN

ASSUME FiniteAssumption == IsFiniteSet(Researchers) /\ IsFiniteSet(Workers)

\* The reviewer's own limit of attempts is within the store's (policy.py:29).
ASSUME ReviewAssumption == MaxResearchAttempts >= 2

\* A task is queued, lost, or run by a worker; workers are none of these words.
ASSUME WorkersAssumption == Workers \cap {"none", "queued", "lost"} = {}

VARIABLES
  job,      \* per worker: the next step of its activity and what it remembers
  req,      \* per caller: the request and the index of its next stage
  wf,       \* the Temporal workflow: activity awaited, round, who runs it
  faults    \* faults so far, of each kind

procVars == <<job, req, wf, faults>>
vars == <<storeVars, procVars>>

-----------------------------------------------------------------------------
(* The workflow.  It awaits one activity at a time; the task is queued, run *)
(* by a worker, or lost with the worker's process.                          *)

NoWorkflow == [at |-> "none", round |-> 0, task |-> "none"]
Await(activity, round) == [at |-> activity, round |-> round, task |-> "queued"]
Closed == [wf EXCEPT !.at = "closed", !.task = "none"]

\* Mutant: every activity counts as a round.
AfterResultCountingActivities(s) ==
  IF wf.at = "execute" /\ s = "reviewing" THEN Await("review", wf.round + 1)
  ELSE IF wf.at = "review" /\ s = "executing" /\ wf.round < MaxResearchAttempts
  THEN Await("execute", wf.round + 1)
  ELSE Closed

\* Mutant: a revision does not count as a round.
AfterResultUncounted(s) ==
  IF wf.at = "execute" /\ s = "reviewing" THEN Await("review", wf.round)
  ELSE IF wf.at = "review" /\ s = "executing" /\ wf.round < MaxResearchAttempts
  THEN Await("execute", wf.round)
  ELSE Closed

AfterResult(s) ==
  IF wf.at = "execute" /\ s = "reviewing" THEN Await("review", wf.round)
  ELSE IF wf.at = "review" /\ s = "executing" /\ wf.round < MaxResearchAttempts
  THEN Await("execute", wf.round + 1)
  ELSE Closed

\* Mutant: the workflow has no except clause.
AfterFailureUnhandled == Closed

\* An activity that raises, times out or is cancelled raises in the workflow;
\* only the try block around the loop leads to the escalation.
AfterFailure ==
  IF wf.at \in {"execute", "review"} THEN Await("escalate", wf.round) ELSE Closed

-----------------------------------------------------------------------------
(* Activities.                                                              *)

IdleJob == [at |-> "idle", r |-> "none", verdict |-> "none"]
Planned == {r \in Researchers : step[r] # "absent"}

Jump(w, next) == job' = [job EXCEPT ![w].at = next]

\* The activity ends; a workflow that no longer awaits it takes no notice.
End(w, next) ==
  /\ job' = [job EXCEPT ![w] = IdleJob]
  /\ wf' = IF wf.task = w THEN next ELSE wf

Return(w, s) == End(w, AfterResult(s)) /\ UNCHANGED storeVars
Raise(w) == End(w, AfterFailure) /\ UNCHANGED storeVars

\* A transaction that is refused raises out of the activity.
Attempt(w, here, can, Transaction, next) ==
  /\ job[w].at = here
  /\ IF can THEN Transaction /\ Jump(w, next) /\ UNCHANGED wf ELSE Raise(w)

Read(w, here, next) ==
  job[w].at = here /\ Jump(w, next) /\ UNCHANGED <<storeVars, wf>>

Poll(w) ==
  /\ job[w].at = "idle" /\ wf.task = "queued"
  /\ Jump(w, CASE wf.at = "execute"  -> "validate_execute"
               [] wf.at = "review"   -> "validate_review"
               [] wf.at = "escalate" -> "validate_escalate")
  /\ wf' = [wf EXCEPT !.task = w]
  /\ UNCHANGED <<storeVars, req, faults>>

\* Trusted code may run the two workflows of agent_runtime without Temporal.
CallDirectly(w) ==
  /\ DirectCalls /\ job[w].at = "idle" /\ Planned # {}
  /\ \E first \in {"begin", "look"} : Jump(w, first)
  /\ UNCHANGED <<storeVars, req, wf, faults>>

\* Every activity reloads the run before it acts.
ValidateExecute(w) ==
  /\ job[w].at = "validate_execute"
  /\ IF status = "cancelled" THEN Return(w, "cancelled")
     ELSE IF status \in {"awaiting_approval", "executing"}
     THEN Read(w, "validate_execute", "begin")
     ELSE Raise(w)

ValidateReview(w) ==
  /\ job[w].at = "validate_review"
  /\ IF status = "cancelled" THEN Return(w, "cancelled")
     ELSE IF status = "reviewing" THEN Read(w, "validate_review", "look")
     ELSE Raise(w)

ValidateEscalate(w) ==
  /\ job[w].at = "validate_escalate"
  /\ IF status \in Terminal \cup {"needs_attention"} THEN Return(w, status)
     ELSE Read(w, "validate_escalate", "flag")

\* begin_execution: the status, the approval event, then the transition.
Begin(w) ==
  /\ job[w].at = "begin"
  /\ IF status = "executing" THEN Read(w, "begin", "pick")
     ELSE IF status = "awaiting_approval" THEN Read(w, "begin", "gate")
     ELSE Raise(w)

\* Mutant: begin_execution trusts that only approved runs are executed.
GateUnchecked(w) == Read(w, "gate", "enter")

Gate(w) ==
  /\ job[w].at = "gate"
  /\ IF events[Approved] > 0 THEN Read(w, "gate", "enter") ELSE Raise(w)

Enter(w) ==
  Attempt(w, "enter", CanTransition("executing"), TransitionRun("executing"), "pick")

\* activate_researcher: the first pending researcher it read.  The steps of a
\* plan share a creation time, so which is first is the database's choice.
Pick(w) ==
  LET pending == {r \in Researchers : step[r] = "pending"}
  IN /\ job[w].at = "pick"
     /\ IF status = "executing" /\ pending # {}
        THEN /\ \E r \in pending : job' = [job EXCEPT ![w].at = "activate", ![w].r = r]
             /\ UNCHANGED <<storeVars, wf>>
        ELSE Raise(w)

Activate(w) ==
  Attempt(w, "activate", CanActivate(job[w].r, "executing"),
          ActivateStep(job[w].r, "executing"), "search")

\* The web.search call: results, no results, or a failed call.
Search(w) ==
  \E next \in {"extract", "complete", "fail"} : Read(w, "search", next)

Extract(w) ==
  \E next \in {"remember", "fail"} : Read(w, "extract", next)

Remember(w) == Attempt(w, "remember", TRUE, RecordSource, "complete")

Complete(w) ==
  Attempt(w, "complete", CanComplete(job[w].r), CompleteStep(job[w].r), "submit")

Submit(w) ==
  Attempt(w, "submit", CanTransition("reviewing"), TransitionRun("reviewing"), "return")

Fail(w) == Attempt(w, "fail", TRUE, FailStep(job[w].r), "abort")

Abort(w) ==
  Attempt(w, "abort", CanTransition("failed"), TransitionRun("failed"), "return")

\* Mutant: any memory will do, and each attempt leaves one of its query.
DecisionOnAnyMemory(r) ==
  IF sources = "unexpired" \/ attempts[r] > 0 THEN "accepted"
  ELSE IF attempts[r] < 2 THEN "revision_requested" ELSE "needs_attention"

\* The reviewer reads the run and decides on what it read before it takes its
\* step; the researcher it looks at is the first it read.
Decision(r) ==
  IF sources = "unexpired" THEN "accepted"
  ELSE IF attempts[r] < 2 THEN "revision_requested" ELSE "needs_attention"

Look(w) ==
  /\ job[w].at = "look"
  /\ \E r \in Planned :
       job' = [job EXCEPT ![w].at = "seat", ![w].r = r, ![w].verdict = Decision(r)]
  /\ UNCHANGED <<storeVars, wf>>

Seat(w) ==
  Attempt(w, "seat", CanActivate(Reviewer, "reviewing"),
          ActivateStep(Reviewer, "reviewing"), job[w].verdict)

\* Mutant: the run is closed before its reviewer step is.
AcceptClosingFirst(w) ==
  Attempt(w, "accepted", CanTransition("completed"), TransitionRun("completed"), "return")

Accept(w) ==
  Attempt(w, "accepted", CanComplete(Reviewer), CompleteStep(Reviewer), "close")

Close(w) ==
  Attempt(w, "close", CanTransition("completed"), TransitionRun("completed"), "return")

Revise(w) ==
  Attempt(w, "revision_requested", CanRevise(job[w].r), RequestRevision(job[w].r), "return")

Unresolved(w) ==
  Attempt(w, "needs_attention", TRUE, RecordEvent(ReviewUnresolved), "unseat")

Unseat(w) ==
  Attempt(w, "unseat", CanComplete(Reviewer), CompleteStep(Reviewer), "hand_over")

HandOver(w) ==
  Attempt(w, "hand_over", CanTransition("needs_attention"),
          TransitionRun("needs_attention"), "return")

\* Mutant: the escalation is recorded and the run left where it is.
FlagOnly(w) == Attempt(w, "flag", TRUE, RecordEvent(DurableAmbiguity), "return")

\* escalate_durable_ambiguity: the event first, then the transition.
Flag(w) == Attempt(w, "flag", TRUE, RecordEvent(DurableAmbiguity), "halt")

Halt(w) ==
  Attempt(w, "halt", CanTransition("needs_attention"),
          TransitionRun("needs_attention"), "return")

\* The status an activity reports is read after its last transaction.
Report(w) == job[w].at = "return" /\ Return(w, status)

Work(w) ==
  /\ \/ ValidateExecute(w) \/ Begin(w) \/ Gate(w) \/ Enter(w) \/ Pick(w)
     \/ Activate(w) \/ Search(w) \/ Extract(w) \/ Remember(w) \/ Complete(w)
     \/ Submit(w) \/ Fail(w) \/ Abort(w)
     \/ ValidateReview(w) \/ Look(w) \/ Seat(w) \/ Accept(w) \/ Close(w)
     \/ Revise(w) \/ Unresolved(w) \/ Unseat(w) \/ HandOver(w)
     \/ ValidateEscalate(w) \/ Flag(w) \/ Halt(w)
     \/ Report(w)
  /\ UNCHANGED <<req, faults>>

-----------------------------------------------------------------------------
(* Faults: a worker process dies with its activity, a dependency raises an  *)
(* error the activity does not handle, or an activity is so slow that its   *)
(* start-to-close timeout fires while it goes on.  A lost activity is       *)
(* noticed by the same timeout.  Every activity has one attempt.            *)

FaultCount == faults["crash"] + faults["outage"] + faults["timeout"]

Fault(kind) ==
  /\ kind \in Faults /\ FaultCount < MaxFaults
  /\ faults' = [faults EXCEPT ![kind] = @ + 1]

Crash(w) ==
  /\ Fault("crash") /\ job[w].at # "idle"
  /\ End(w, [wf EXCEPT !.task = "lost"])
  /\ UNCHANGED <<storeVars, req>>

Outage(w) ==
  /\ Fault("outage") /\ job[w].at # "idle"
  /\ Raise(w)
  /\ UNCHANGED req

SlowTimeout ==
  /\ Fault("timeout") /\ wf.task \in Workers
  /\ wf' = AfterFailure
  /\ UNCHANGED <<storeVars, job, req>>

\* Mutant: activities have no start-to-close timeout.
LostForever == wf.task = "lost" /\ UNCHANGED vars

LostTimeout ==
  /\ wf.task = "lost"
  /\ wf' = AfterFailure
  /\ UNCHANGED <<storeVars, job, req, faults>>

-----------------------------------------------------------------------------
(* Requests: what each reads, in the order it reads it, and what it writes. *)

Stages ==
  [approve  |-> <<"status", "events", "approve">>,
   reject   |-> <<"status", "reject">>,
   revise   |-> <<"status", "events", "grant">>,
   close    |-> <<"status", "mark_closed", "cancel">>,
   cancel   |-> <<"events", "status", "cancel", "signal">>,
   schedule |-> <<"status", "events", "mark_scheduled", "status", "start">>]

Ops == DOMAIN Stages
IdleReq == [op |-> "none", i |-> 1]

Stage(c) == IF req[c] = IdleReq THEN "none" ELSE Stages[req[c].op][req[c].i]

StatusGate(op) ==
  CASE op \in {"approve", "reject", "schedule"} -> {"awaiting_approval"}
    [] op \in {"revise", "close"}               -> {"needs_attention"}
    [] op = "cancel"                            -> Statuses \ Terminal

\* Mutant: scheduling does not ask for the approval.
EventGateUnapproved(op) ==
  CASE op = "approve"  -> events[Approved] = 0
    [] op = "schedule" -> events[Scheduled] = 0
    [] op = "cancel"   -> events[Scheduled] > 0
    [] op = "revise"   -> /\ events[ReviewUnresolved] > 0
                          /\ events[DurableAmbiguity] = 0
                          /\ events[ExceptionGranted] < MaxOperatorRevisions

EventGate(op) ==
  CASE op = "approve"  -> events[Approved] = 0
    [] op = "schedule" -> events[Approved] > 0 /\ events[Scheduled] = 0
    [] op = "cancel"   -> events[Scheduled] > 0
    [] op = "revise"   -> /\ events[ReviewUnresolved] > 0
                          /\ events[DurableAmbiguity] = 0
                          /\ events[ExceptionGranted] < MaxOperatorRevisions

Drop(c) == req' = [req EXCEPT ![c] = IdleReq]

Advance(c) ==
  IF req[c].i = Len(Stages[req[c].op]) THEN Drop(c)
  ELSE req' = [req EXCEPT ![c] = [op |-> req[c].op, i |-> req[c].i + 1]]

Ask(c, op) ==
  /\ req[c] = IdleReq
  /\ req' = [req EXCEPT ![c] = [op |-> op, i |-> 1]]
  /\ UNCHANGED <<storeVars, job, wf, faults>>

Check(c, stage, gate) ==
  /\ Stage(c) = stage
  /\ IF gate THEN Advance(c) ELSE Drop(c)
  /\ UNCHANGED <<storeVars, wf>>

ReadStatus(c) == Check(c, "status", status \in StatusGate(req[c].op))
ReadEvents(c) == Check(c, "events", EventGate(req[c].op))

\* A transaction that is refused ends the request with an error.
Write(c, stage, can, Transaction) ==
  /\ Stage(c) = stage
  /\ IF can THEN Transaction /\ Advance(c) ELSE UNCHANGED storeVars /\ Drop(c)
  /\ UNCHANGED wf

Approve(c)       == Write(c, "approve", TRUE, RecordEvent(Approved))
Reject(c)        == Write(c, "reject", CanTransition("rejected"), TransitionRun("rejected"))
GrantRevision(c) == \E r \in Planned :
                      Write(c, "grant", CanGrantException(r), AuthorizeExceptionRevision(r))
MarkClosed(c)    == Write(c, "mark_closed", TRUE, RecordEvent(AttentionClosed))
Cancel(c)        == Write(c, "cancel", CanTransition("cancelled"), TransitionRun("cancelled"))
MarkScheduled(c) == Write(c, "mark_scheduled", TRUE, RecordEvent(Scheduled))

\* The workflow ID is the run's: a second start is refused while one is open.
StartWorkflow(c) ==
  /\ Stage(c) = "start"
  /\ wf' = IF wf.at \in {"none", "closed"} THEN Await("execute", 1) ELSE wf
  /\ Advance(c)
  /\ UNCHANGED storeVars

SignalCancel(c) ==
  /\ Stage(c) = "signal"
  /\ wf' = IF wf.at \in {"none", "closed"} THEN wf ELSE AfterFailure
  /\ Advance(c)
  /\ UNCHANGED storeVars

Serve(c) ==
  /\ \/ ReadStatus(c) \/ ReadEvents(c) \/ Approve(c) \/ Reject(c)
     \/ GrantRevision(c) \/ MarkClosed(c) \/ Cancel(c) \/ MarkScheduled(c)
     \/ StartWorkflow(c) \/ SignalCancel(c)
  /\ UNCHANGED <<job, faults>>

\* The API process dies, or Temporal cannot be reached, between two stages.
Abandon(c) ==
  /\ req[c] # IdleReq
  /\ Drop(c)
  /\ UNCHANGED <<storeVars, job, wf, faults>>

-----------------------------------------------------------------------------
(* The planner, and the retention deadline of memories.                     *)

StartPlanning == status = "requested" /\ TransitionRun("planning") /\ UNCHANGED procVars

StorePlan ==
  /\ \E plan \in SUBSET Researchers : plan # {} /\ MaterializePlan(plan)
  /\ UNCHANGED procVars

Expire == ExpireSources /\ UNCHANGED procVars

-----------------------------------------------------------------------------

DurableInit ==
  /\ Init
  /\ job = [w \in Workers |-> IdleJob]
  /\ req = [c \in Callers |-> IdleReq]
  /\ wf = NoWorkflow
  /\ faults = [kind \in FaultKinds |-> 0]

DurableNext ==
  \/ StartPlanning \/ StorePlan \/ Expire
  \/ \E w \in Workers : Poll(w) \/ CallDirectly(w) \/ Work(w) \/ Crash(w) \/ Outage(w)
  \/ SlowTimeout \/ LostTimeout
  \/ \E c \in Callers : Serve(c) \/ Abandon(c) \/ \E op \in Ops : Ask(c, op)

DurableSpec == DurableInit /\ [][DurableNext]_vars

\* Temporal keeps handing out queued tasks and firing timers, and a running
\* activity that does not crash goes on.  Nothing is assumed of operators.
Fairness ==
  /\ \A w \in Workers : WF_vars(Work(w)) /\ WF_vars(Poll(w))
  /\ WF_vars(LostTimeout)

FairSpec == DurableSpec /\ Fairness

\* In addition, requests are served and trusted code keeps asking for the run
\* to be scheduled.
ScheduledSpec ==
  FairSpec /\ \A c \in Callers : WF_vars(Serve(c)) /\ WF_vars(Ask(c, "schedule"))

-----------------------------------------------------------------------------
(* Properties.                                                              *)

JobLabels ==
  {"idle", "validate_execute", "begin", "gate", "enter", "pick", "activate",
   "search", "extract", "remember", "complete", "submit", "fail", "abort",
   "validate_review", "look", "seat", "accepted", "close",
   "revision_requested", "needs_attention", "unseat", "hand_over",
   "validate_escalate", "flag", "halt", "return"}

DurableTypeOK ==
  /\ TypeOK
  /\ job \in [Workers -> [at : JobLabels, r : Researchers \cup {"none"},
                          verdict : {"none", "accepted", "revision_requested",
                                     "needs_attention"}]]
  /\ \A c \in Callers :
       \/ req[c] = IdleReq
       \/ req[c].op \in Ops /\ req[c].i \in DOMAIN Stages[req[c].op]
  /\ wf \in [at : {"none", "execute", "review", "escalate", "closed"},
             round : 0 .. MaxResearchAttempts,
             task : Workers \cup {"none", "queued", "lost"}]
  /\ faults \in [FaultKinds -> 0 .. MaxFaults]

\* No workflow is started and no researcher is started, by whatever path and
\* however stale the reads it acts on, unless an operator's approval is on
\* record (begin_execution, schedule_approved_run).
WorkIsApproved ==
  wf.at # "none" \/ (\E r \in Researchers : attempts[r] > 0) => events[Approved] > 0

\* The steps whose activation an activity has won and not yet given up.
Holds(w) ==
  IF job[w].at \in {"search", "extract", "remember", "complete", "fail"}
  THEN {job[w].r}
  ELSE IF job[w].at \in {"accepted", "revision_requested", "needs_attention", "unseat"}
  THEN {Reviewer} ELSE {}

\* A step is worked on by one activity at a time, and stays active until that
\* activity gives it up: neither a timed-out activity, nor a direct call
\* beside it, nor an operator's revision takes a step away from its worker.
OneWorkerPerStep ==
  \A w \in Workers :
    /\ \A s \in Holds(w) : step[s] = "active"
    /\ \A v \in Workers \ {w} : Holds(v) \cap Holds(w) = {}

\* How a run ended agrees with what its steps went through.  The reviewer's
\* step may be reopened under a worker about to close the run, but only once
\* the run was flagged as ambiguous and then reopened by a second exception,
\* whose request had read the run before the flag.
EndAgreesWithSteps ==
  /\ status = "completed" =>
       /\ \E r \in Researchers : step[r] = "completed"
       /\ \/ step[Reviewer] = "completed"
          \/ events[DurableAmbiguity] > 0 /\ events[ExceptionGranted] > 1
  /\ status = "failed" => \E r \in Researchers : step[r] = "failed"
  /\ status = "rejected" => \A r \in Researchers : attempts[r] = 0

\* The verdict may be older than what the run has come to since, through late
\* workers, revisions and exceptions; even so a run is completed only if a
\* governed source reference was recorded for it, which may have expired since
\* the reviewer read it (workflow.py:139, docs/agent-runtime.md:175-177).
CompletedOnProvenance == status = "completed" => sources # "none"

\* A workflow that was started comes to an end, whatever faults strike.
WorkflowEnds == wf.at = "execute" ~> wf.at = "closed"

\* The steps an activity has before it at most.
Depth(at) ==
  CASE at = "idle" -> 0
    [] at = "return" -> 1
    [] at \in {"submit", "abort", "close", "hand_over", "revision_requested", "halt"} -> 2
    [] at \in {"complete", "fail", "accepted", "unseat", "flag"} -> 3
    [] at \in {"remember", "needs_attention", "validate_escalate"} -> 4
    [] at \in {"extract", "seat"} -> 5
    [] at \in {"search", "look"} -> 6
    [] at \in {"activate", "validate_review"} -> 7
    [] at = "pick" -> 8
    [] at = "enter" -> 9
    [] at = "gate" -> 10
    [] at = "begin" -> 11
    [] at = "validate_execute" -> 12

\* The activities an open workflow has before it at most, this one included.
ActivitiesLeft ==
  CASE wf.at = "execute"  -> 2 * (MaxResearchAttempts - wf.round) + 3
    [] wf.at = "review"   -> 2 * (MaxResearchAttempts - wf.round) + 2
    [] wf.at = "escalate" -> 1
    [] OTHER -> 0

\* And the steps: a queued task has to be taken, a lost one to time out.
TaskLeft ==
  CASE wf.task \in Workers -> Depth(job[wf.task].at)
    [] wf.task = "queued" -> 13
    [] OTHER -> 0

StepsLeft == 14 * ActivitiesLeft + TaskLeft

\* Nothing keeps a workflow going: whatever operators, faults, revisions and
\* other workers do, each step leaves the open workflow and its activity where
\* they are or brings them closer to the end, and no activity goes back, nor
\* one that outlived its timeout (durable_execution/workflows.py:24-49).
WorkflowRunsOut ==
  [][/\ wf.at \notin {"none", "closed"} =>
          StepsLeft' < StepsLeft \/ UNCHANGED <<wf, StepsLeft>>
     /\ \A w \in Workers : job[w].at # "idle" =>
          job'[w].at = job[w].at \/ Depth(job'[w].at) < Depth(job[w].at)]_vars

\* At most one activity is lost or one dependency fails, and none is slow; the
\* workflow runs the activities, on a plan of one researcher, as the planner
\* makes it (workflow.py:22-28).  With several, a review may ask to revise one
\* that has not been executed and fails without any fault.
OneFailure ==
  /\ FaultCount <= 1 /\ faults["timeout"] = 0
  /\ ~DirectCalls /\ \A q, r \in Planned : q = r

\* When the workflow has ended the run is at an end or waits for an operator,
\* unless an operator has reopened it since (docs/durable-execution.md:71-73);
\* a second failure can strike the escalation itself.
UncertainOutcomeEscalates ==
  OneFailure /\ wf.at = "closed" /\ events[ExceptionGranted] = 0 =>
    status \in Terminal \cup {"needs_attention"}

\* One lost activity or one failing dependency never leaves a scheduled run
\* hanging: it ends or reaches an operator.
ScheduledRunSettles ==
  []OneFailure => (wf.at = "execute" ~> status \in Terminal \cup {"needs_attention"})

\* Waiting runs are reopened by an operator's exception only (store.py:102-103).
ReopenedByOperatorOnly ==
  [][status = "needs_attention" /\ status' = "executing"
       => events'[ExceptionGranted] = events[ExceptionGranted] + 1]_vars

\* A run reopened by an operator's exception is executed through a later
\* schedule (workflows.py:22-23, docs/durable-execution.md:52-53).
ExceptionResumesExecution ==
  events[ExceptionGranted] > 0 /\ status = "executing"
    ~> status # "executing" \/ wf.at = "execute"
=============================================================================
