----------------------------- MODULE RuntimeStore -----------------------------
(***************************************************************************)
(* The persisted state of one agent-runtime run and the transactions of    *)
(* agent_runtime/store.py on it.  Every transaction locks the run row (or  *)
(* is a single statement), so each is one action.  Next is the set of      *)
(* calls RuntimeService makes, in any order: a caller acts on what it read *)
(* earlier without a lock, so the store must hold against every order.     *)
(*                                                                         *)
(* A transaction is split into what it requires (the Can... predicates,    *)
(* whose failure raises and rolls back) and what it writes, so that the    *)
(* modules that call the store can model the refusal as well.              *)
(***************************************************************************)
EXTENDS Naturals

CONSTANTS
  Planner, Reviewer,      \* the planner step and the reviewer step
  Researchers,            \* researcher steps a plan may hold
  MaxResearchAttempts,
  MaxOperatorRevisions,
  EventCap                \* bound: grants are counted up to it

Steps == {Planner, Reviewer} \cup Researchers

ASSUME StepsAssumption ==
  /\ Planner # Reviewer
  /\ Planner \notin Researchers
  /\ Reviewer \notin Researchers

ASSUME BudgetAssumption ==
  /\ MaxResearchAttempts \in Nat \ {0}
  /\ MaxOperatorRevisions \in Nat
  /\ EventCap \in Nat \ {0}
  /\ MaxOperatorRevisions <= EventCap

VARIABLES
  status,     \* agent_runtime_runs.status
  step,       \* agent_runtime_steps.status, "absent" before the plan is stored
  attempts,   \* agent_runtime_steps.attempt_count
  events,     \* number of events of each type the code reads back
  sources,    \* source_reference memories: none yet, unexpired ones, or expired
  handoffs    \* roles of sender and recipient of the handoffs recorded

storeVars == <<status, step, attempts, events, sources, handoffs>>

-----------------------------------------------------------------------------

ALLOWED_TRANSITIONS ==
  [requested         |-> {"planning", "cancelled"},
   planning          |-> {"awaiting_approval", "rejected", "failed", "cancelled"},
   awaiting_approval |-> {"executing", "rejected", "cancelled", "needs_attention"},
   executing         |-> {"reviewing", "failed", "cancelled", "needs_attention"},
   reviewing         |-> {"executing", "completed", "needs_attention", "failed",
                          "cancelled"},
   needs_attention   |-> {"executing", "cancelled"},
   completed         |-> {},
   rejected          |-> {},
   failed            |-> {},
   cancelled         |-> {}]

Statuses ==
  {"requested", "planning", "awaiting_approval", "executing", "reviewing",
   "needs_attention", "completed", "rejected", "failed", "cancelled"}
Terminal == {"completed", "rejected", "failed", "cancelled"}

\* Mutant: a caller opens the gate without storing a plan.
TransitionTargetsWithGate ==
  {"planning", "awaiting_approval", "executing", "reviewing", "completed",
   "rejected", "failed", "cancelled", "needs_attention"}

\* The targets RuntimeService passes to transition_run: the approval gate is
\* entered only by storing a plan.
TransitionTargets ==
  {"planning", "executing", "reviewing", "completed", "rejected", "failed",
   "cancelled", "needs_attention"}

Approved         == "runtime.approval.approved"
Scheduled        == "runtime.durable_execution.scheduled"
DurableAmbiguity == "runtime.durable_execution.needs_attention"
ReviewUnresolved == "runtime.review.needs_attention"
ExceptionGranted == "runtime.review.exception_revision.approved"
AttentionClosed  == "runtime.attention.closed"

\* The event types the code reads back, and the one a property needs.
EventTypes ==
  {Approved, Scheduled, DurableAmbiguity, ReviewUnresolved, ExceptionGranted,
   AttentionClosed}

StepStatuses == {"absent", "pending", "active", "completed", "failed"}

ALLOWED_HANDOFFS ==
  [planner    |-> {"researcher"},
   researcher |-> {"reviewer"},
   reviewer   |-> {"researcher"}]

Roles == {"planner", "researcher", "reviewer"}

Role(s) == IF s = Planner THEN "planner"
           ELSE IF s = Reviewer THEN "reviewer" ELSE "researcher"

-----------------------------------------------------------------------------

\* create_run: the run and its planner step.
Init ==
  /\ status = "requested"
  /\ step = [s \in Steps |-> IF s = Planner THEN "pending" ELSE "absent"]
  /\ attempts = [s \in Steps |-> 0]
  /\ events = [e \in EventTypes |-> 0]
  /\ sources = "none"
  /\ handoffs = {}

\* Of other events than grants the code asks only whether there is one.
AppendEvent(e) ==
  events' = [events EXCEPT ![e] =
               IF @ < (IF e = ExceptionGranted THEN EventCap ELSE 1)
               THEN @ + 1 ELSE @]

CanTransition(next) == next \in ALLOWED_TRANSITIONS[status]

TransitionRun(next) ==
  /\ CanTransition(next)
  /\ status' = next
  /\ UNCHANGED <<step, attempts, events, sources, handoffs>>

\* The plan's researchers and its reviewer become pending with the gate.
MaterializePlan(plan) ==
  /\ status = "planning"
  /\ status' = "awaiting_approval"
  /\ step' = [s \in Steps |-> IF s = Planner THEN "completed"
                              ELSE IF s \in plan \cup {Reviewer} THEN "pending"
                              ELSE step[s]]
  /\ UNCHANGED <<attempts, events, sources, handoffs>>

\* Mutant: handoffs are accepted whatever the run's status.
CreateHandoffAnytime(sender, recipient) ==
  /\ step[sender] # "absent" /\ step[recipient] # "absent"
  /\ Role(recipient) \in ALLOWED_HANDOFFS[Role(sender)]
  /\ handoffs' = handoffs \cup {<<Role(sender), Role(recipient)>>}
  /\ UNCHANGED <<status, step, attempts, events, sources>>

CreateHandoff(sender, recipient) ==
  /\ status \in {"planning", "executing", "reviewing"}
  /\ step[sender] # "absent" /\ step[recipient] # "absent"
  /\ Role(recipient) \in ALLOWED_HANDOFFS[Role(sender)]
  /\ handoffs' = handoffs \cup {<<Role(sender), Role(recipient)>>}
  /\ UNCHANGED <<status, step, attempts, events, sources>>

\* Mutants: one of the two conditions of activate_step is dropped.
CanActivateAnyStatus(s, runStatus) == step[s] = "pending"
CanActivateAnyStep(s, runStatus)   == status = runStatus

CanActivate(s, runStatus) == status = runStatus /\ step[s] = "pending"

\* Mutant: the attempts left are counted down from zero.
ActivateStepCountingDown(s, runStatus) ==
  /\ CanActivate(s, runStatus)
  /\ step' = [step EXCEPT ![s] = "active"]
  /\ attempts' = [attempts EXCEPT ![s] = @ - 1]
  /\ UNCHANGED <<status, events, sources, handoffs>>

ActivateStep(s, runStatus) ==
  /\ CanActivate(s, runStatus)
  /\ step' = [step EXCEPT ![s] = "active"]
  /\ attempts' = [attempts EXCEPT ![s] = @ + 1]
  /\ UNCHANGED <<status, events, sources, handoffs>>

\* The run's status is not looked at: a late worker may still close its step.
CanComplete(s) == step[s] = "active"

CompleteStep(s) ==
  /\ CanComplete(s)
  /\ step' = [step EXCEPT ![s] = "completed"]
  /\ UNCHANGED <<status, attempts, events, sources, handoffs>>

\* A step that is no longer active is left alone; the call still succeeds.
FailStep(s) ==
  /\ step' = [step EXCEPT ![s] = IF @ = "active" THEN "failed" ELSE @]
  /\ UNCHANGED <<status, attempts, events, sources, handoffs>>

\* Mutant: only the service checks the budget, on what it read earlier.
CanReviseBeyondBudget(r) ==
  /\ status = "reviewing"
  /\ step[Reviewer] = "active"
  /\ step[r] = "completed"

CanRevise(r) ==
  /\ status = "reviewing"
  /\ step[Reviewer] = "active"
  /\ step[r] = "completed"
  /\ attempts[r] < MaxResearchAttempts

RequestRevision(r) ==
  /\ CanRevise(r)
  /\ status' = "executing"
  /\ step' = [step EXCEPT ![r] = "pending", ![Reviewer] = "pending"]
  /\ handoffs' = handoffs \cup {<<"reviewer", "researcher">>}
  /\ UNCHANGED <<attempts, events, sources>>

\* Mutant: approvals are counted by the service only, before the lock.
CanGrantExceptionUncounted(r) ==
  /\ status = "needs_attention"
  /\ step[r] = "completed"
  /\ step[Reviewer] = "completed"

CanGrantException(r) ==
  /\ status = "needs_attention"
  /\ events[ExceptionGranted] < MaxOperatorRevisions
  /\ step[r] = "completed"
  /\ step[Reviewer] = "completed"

AuthorizeExceptionRevision(r) ==
  /\ CanGrantException(r)
  /\ status' = "executing"
  /\ step' = [step EXCEPT ![r] = "pending", ![Reviewer] = "pending"]
  /\ AppendEvent(ExceptionGranted)
  /\ UNCHANGED <<attempts, sources, handoffs>>

\* Events other code appends unconditionally; the grant above is never one.
RecordEvent(e) ==
  /\ AppendEvent(e)
  /\ UNCHANGED <<status, step, attempts, sources, handoffs>>

\* A source_reference memory is stored whatever the run's status.
RecordSource ==
  /\ sources' = "unexpired"
  /\ UNCHANGED <<status, step, attempts, events, handoffs>>

\* The retention deadline passes: get_run no longer returns the memory.
ExpireSources ==
  /\ sources = "unexpired"
  /\ sources' = "expired"
  /\ UNCHANGED <<status, step, attempts, events, handoffs>>

Next ==
  \/ \E next \in TransitionTargets : TransitionRun(next)
  \/ \E plan \in SUBSET Researchers : plan # {} /\ MaterializePlan(plan)
  \/ \E s, t \in Steps : CreateHandoff(s, t)
  \/ \E r \in Researchers :
       \/ ActivateStep(r, "executing")
       \/ CompleteStep(r)
       \/ FailStep(r)
       \/ RequestRevision(r)
       \/ AuthorizeExceptionRevision(r)
  \/ ActivateStep(Reviewer, "reviewing")
  \/ CompleteStep(Reviewer)
  \/ \E e \in EventTypes \ {ExceptionGranted} : RecordEvent(e)
  \/ RecordSource
  \/ ExpireSources

Spec == Init /\ [][Next]_storeVars

-----------------------------------------------------------------------------

TypeOK ==
  /\ status \in Statuses
  /\ step \in [Steps -> StepStatuses]
  /\ attempts \in [Steps -> Nat]
  /\ events \in [EventTypes -> 0 .. EventCap]
  /\ sources \in {"none", "unexpired", "expired"}
  /\ handoffs \subseteq Roles \X Roles

\* No researcher is ever started more often than the routine budget plus one
\* start per operator exception, however revisions, exceptions, late
\* completions and failures interleave (store.py request_revision checks the
\* count against the routine budget only, authorize_exception_revision does
\* not check it at all).
AttemptBudget ==
  \A r \in Researchers :
    attempts[r] <= MaxResearchAttempts + events[ExceptionGranted]

\* Past the approval gate there is a stored plan: at least one researcher and
\* the reviewer.  transition_run itself accepts the gate as a target.
PlanBehindGate ==
  status \in {"awaiting_approval", "executing", "reviewing", "completed",
              "needs_attention"} =>
    /\ step[Planner] = "completed"
    /\ step[Reviewer] # "absent"
    /\ \E r \in Researchers : step[r] # "absent"

\* A run that has ended keeps its status, starts no further step and records
\* no further handoff, although late workers may still close steps and append
\* events and memories.
EndedRunStartsNothing ==
  [][(status \in Terminal) => UNCHANGED <<status, attempts, handoffs>>]_storeVars

\* The inductive strengthening of AttemptBudget: the plan is stored once, a
\* pending researcher has an attempt of its budget left, and the operators'
\* grants, which concurrent requests count before they ask for one more, stay
\* within theirs.
BudgetInv ==
  /\ status \in {"requested", "planning"} =>
       \A r \in Researchers : step[r] = "absent"
  /\ events[ExceptionGranted] <= MaxOperatorRevisions
  /\ \A r \in Researchers :
       /\ step[r] = "absent" => attempts[r] = 0
       /\ step[r] = "pending" =>
            attempts[r] < MaxResearchAttempts + events[ExceptionGranted]
       /\ attempts[r] <= MaxResearchAttempts + events[ExceptionGranted]

PhaseOf ==
  [requested         |-> "drafting",
   planning          |-> "drafting",
   awaiting_approval |-> "gated",
   executing         |-> "working",
   reviewing         |-> "working",
   needs_attention   |-> "waiting",
   completed         |-> "ended",
   rejected          |-> "ended",
   failed            |-> "ended",
   cancelled         |-> "ended"]

Governed == INSTANCE GovernedRun WITH
  phase    <- PhaseOf[status],
  attempts <- [r \in Researchers |-> attempts[r]],
  granted  <- events[ExceptionGranted]

\* The store implements the governed run it promises its callers.
ImplementsGovernedRun == Governed!Spec
=============================================================================
