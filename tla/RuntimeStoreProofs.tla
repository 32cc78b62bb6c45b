------------------------- MODULE RuntimeStoreProofs -------------------------
(***************************************************************************)
(* Theorems about RuntimeStore for every plan size and every budget.       *)
(***************************************************************************)
EXTENDS RuntimeStore, TLAPS

\* create_run leaves a well-typed run.
LEMMA TypeInit == Init => TypeOK
<1> SUFFICES ASSUME Init PROVE TypeOK
  OBVIOUS
<1>1. status \in Statuses
  BY DEF Init, Statuses
<1>2. step \in [Steps -> StepStatuses]
  BY DEF Init, StepStatuses
<1>3. attempts \in [Steps -> Nat]
  BY DEF Init
<1>4. events \in [EventTypes -> 0 .. EventCap]
  <2>1. 0 \in 0 .. EventCap
    BY BudgetAssumption
  <2> QED
    BY <2>1 DEF Init
<1>5. sources \in {"none", "unexpired", "expired"} /\ handoffs \subseteq Roles \X Roles
  BY DEF Init
<1> QED
  BY <1>1, <1>2, <1>3, <1>4, <1>5 DEF TypeOK

\* Every store transaction keeps the run well typed.
LEMMA TypeStep == TypeOK /\ [Next]_storeVars => TypeOK'
<1> SUFFICES ASSUME TypeOK, [Next]_storeVars PROVE TypeOK'
  OBVIOUS
<1> USE StepsAssumption, BudgetAssumption
<1>1. ASSUME NEW next \in TransitionTargets, TransitionRun(next)
      PROVE TypeOK'
  BY <1>1 DEF TypeOK, TransitionRun, TransitionTargets, Statuses, ALLOWED_TRANSITIONS
<1>2. ASSUME NEW plan \in SUBSET Researchers, MaterializePlan(plan)
      PROVE TypeOK'
  BY <1>2 DEF TypeOK, MaterializePlan, Statuses, ALLOWED_TRANSITIONS, StepStatuses
<1>3. ASSUME NEW s \in Steps, NEW t \in Steps, CreateHandoff(s, t)
      PROVE TypeOK'
  BY <1>3 DEF TypeOK, CreateHandoff, Role, Roles, ALLOWED_HANDOFFS
<1>4. ASSUME NEW s \in Steps, NEW p \in Statuses, ActivateStep(s, p)
      PROVE TypeOK'
  BY <1>4 DEF TypeOK, ActivateStep, StepStatuses
<1>5. ASSUME NEW s \in Steps, CompleteStep(s) PROVE TypeOK'
  BY <1>5 DEF TypeOK, CompleteStep, StepStatuses
<1>6. ASSUME NEW s \in Steps, FailStep(s) PROVE TypeOK'
  BY <1>6 DEF TypeOK, FailStep, StepStatuses
<1>7. ASSUME NEW r \in Researchers, RequestRevision(r) PROVE TypeOK'
  BY <1>7 DEF TypeOK, RequestRevision, StepStatuses, Statuses, ALLOWED_TRANSITIONS,
              Roles, ALLOWED_HANDOFFS, Steps
<1>8. ASSUME NEW r \in Researchers, AuthorizeExceptionRevision(r) PROVE TypeOK'
  BY <1>8 DEF TypeOK, AuthorizeExceptionRevision, AppendEvent, StepStatuses,
              Statuses, ALLOWED_TRANSITIONS, Steps, EventTypes
<1>9. ASSUME NEW e \in EventTypes, RecordEvent(e) PROVE TypeOK'
  BY <1>9 DEF TypeOK, RecordEvent, AppendEvent
<1>10. CASE RecordSource
  BY <1>10 DEF TypeOK, RecordSource
<1>11. CASE ExpireSources
  BY <1>11 DEF TypeOK, ExpireSources
<1>12. CASE UNCHANGED storeVars
  BY <1>12 DEF TypeOK, storeVars
<1>13. /\ \A r \in Researchers : r \in Steps
       /\ Reviewer \in Steps
       /\ {"executing", "reviewing"} \subseteq Statuses
  BY DEF Steps, Statuses, ALLOWED_TRANSITIONS
<1> QED
  BY <1>1, <1>2, <1>3, <1>4, <1>5, <1>6, <1>7, <1>8, <1>9, <1>10, <1>11,
     <1>12, <1>13 DEF Next

\* Every state reached by the store's transactions is well typed.
THEOREM TypeCorrect == Spec => []TypeOK
<1> QED
  BY TypeInit, TypeStep, PTL DEF Spec

-----------------------------------------------------------------------------

\* A run just created has no plan, no attempt and no grant.
LEMMA BudgetInit == Init => BudgetInv
<1> SUFFICES ASSUME Init PROVE BudgetInv
  OBVIOUS
<1>1. events[ExceptionGranted] = 0
  BY DEF Init, EventTypes
<1>2. ASSUME NEW r \in Researchers
      PROVE  step[r] = "absent" /\ attempts[r] = 0
  BY StepsAssumption DEF Init, Steps
<1> QED
  BY <1>1, <1>2, BudgetAssumption DEF BudgetInv

\* The event counter is exact where a decision is taken on it: an append below
\* the cap adds one, and an append of another type leaves the grants alone.
LEMMA AppendOther ==
  ASSUME TypeOK, NEW e \in EventTypes \ {ExceptionGranted}, AppendEvent(e)
  PROVE  events'[ExceptionGranted] = events[ExceptionGranted]
BY DEF TypeOK, AppendEvent, EventTypes

\* A grant that passed its check adds exactly one to the count of grants.
LEMMA AppendGrant ==
  ASSUME TypeOK, AppendEvent(ExceptionGranted),
         events[ExceptionGranted] < MaxOperatorRevisions
  PROVE  events'[ExceptionGranted] = events[ExceptionGranted] + 1
BY BudgetAssumption DEF TypeOK, AppendEvent, EventTypes

\* Events are appended, never withdrawn.
LEMMA EventsKept ==
  ASSUME TypeOK, [Next]_storeVars, NEW e \in EventTypes, events[e] > 0
  PROVE  events'[e] > 0
<1>1. ASSUME NEW f \in EventTypes, AppendEvent(f) PROVE events'[e] > 0
  BY <1>1 DEF TypeOK, AppendEvent
<1>2. CASE UNCHANGED events
  BY <1>2
<1>3. \/ UNCHANGED events
      \/ \E f \in EventTypes : AppendEvent(f)
  BY DEF Next, storeVars, TransitionRun, MaterializePlan, CreateHandoff, ActivateStep,
         CompleteStep, FailStep, RequestRevision, AuthorizeExceptionRevision,
         RecordEvent, RecordSource, ExpireSources, EventTypes
<1> QED
  BY <1>1, <1>2, <1>3

\* No transaction oversteps the budgets: activate_step takes the attempt a
\* pending step has left, request_revision checks the count before it reopens
\* one, and authorize_exception_revision raises the budget by the grant.
LEMMA BudgetStep == TypeOK /\ BudgetInv /\ [Next]_storeVars => BudgetInv'
<1> SUFFICES ASSUME TypeOK, BudgetInv, [Next]_storeVars PROVE BudgetInv'
  OBVIOUS
<1> USE StepsAssumption, BudgetAssumption
<1>0. /\ events[ExceptionGranted] \in Nat
      /\ \A s \in Steps : attempts[s] \in Nat
      /\ \A r \in Researchers : r \in Steps
      /\ Reviewer \in Steps
  BY DEF TypeOK, EventTypes, Steps
<1>1. ASSUME NEW next \in TransitionTargets, TransitionRun(next) PROVE BudgetInv'
  <2>1. status' = next /\ UNCHANGED <<step, attempts, events>>
    BY <1>1 DEF TransitionRun
  <2>2. next = "planning" => status = "requested"
    BY <1>1 DEF TransitionRun, CanTransition, ALLOWED_TRANSITIONS, TypeOK, Statuses
  <2> QED
    BY <2>1, <2>2 DEF BudgetInv, TransitionTargets
<1>2. ASSUME NEW plan \in SUBSET Researchers, MaterializePlan(plan)
      PROVE BudgetInv'
  <2>1. \A r \in Researchers : step[r] = "absent" /\ attempts[r] = 0
    BY <1>2 DEF MaterializePlan, BudgetInv
  <2>2. status' = "awaiting_approval" /\ UNCHANGED <<attempts, events>>
    BY <1>2 DEF MaterializePlan
  <2> QED
    BY <2>1, <2>2, <1>0 DEF BudgetInv
<1>3. ASSUME NEW s \in Steps, NEW t \in Steps, CreateHandoff(s, t)
      PROVE BudgetInv'
  BY <1>3 DEF BudgetInv, CreateHandoff
<1>4. ASSUME NEW s \in Steps, NEW p \in {"executing", "reviewing"},
             ActivateStep(s, p)
      PROVE BudgetInv'
  <2>1. /\ status' = status /\ status = p /\ events' = events
        /\ step[s] = "pending"
        /\ step' = [step EXCEPT ![s] = "active"]
        /\ attempts' = [attempts EXCEPT ![s] = @ + 1]
    BY <1>4 DEF ActivateStep, CanActivate
  <2>2. ASSUME NEW r \in Researchers, r = s
        PROVE  /\ step'[r] = "active"
               /\ attempts'[r] <= MaxResearchAttempts + events[ExceptionGranted]
    BY <2>1, <2>2, <1>0 DEF TypeOK, BudgetInv
  <2>3. ASSUME NEW r \in Researchers, r # s
        PROVE  step'[r] = step[r] /\ attempts'[r] = attempts[r]
    BY <2>1, <2>3, <1>0 DEF TypeOK
  <2> QED
    BY <2>1, <2>2, <2>3 DEF BudgetInv
<1>5. ASSUME NEW s \in Steps, CompleteStep(s) \/ FailStep(s) PROVE BudgetInv'
  <2>1. UNCHANGED <<status, attempts, events>>
    BY <1>5 DEF CompleteStep, FailStep
  <2>2. ASSUME NEW r \in Researchers
        PROVE  \/ step'[r] = step[r]
               \/ step[r] = "active" /\ step'[r] \in {"completed", "failed"}
    BY <1>5, <1>0 DEF CompleteStep, CanComplete, FailStep, TypeOK
  <2> QED
    BY <2>1, <2>2 DEF BudgetInv
<1>6. ASSUME NEW r \in Researchers, RequestRevision(r) PROVE BudgetInv'
  <2>1. /\ status' = "executing" /\ UNCHANGED <<attempts, events>>
        /\ step[r] = "completed" /\ attempts[r] < MaxResearchAttempts
        /\ step' = [step EXCEPT ![r] = "pending", ![Reviewer] = "pending"]
    BY <1>6 DEF RequestRevision, CanRevise
  <2>2. ASSUME NEW q \in Researchers, q # r PROVE step'[q] = step[q]
    BY <2>1, <2>2, <1>0 DEF TypeOK
  <2>3. step'[r] = "pending"
    BY <2>1, <1>0 DEF TypeOK
  <2>4. /\ \A q \in Researchers : q # r => step'[q] = step[q]
        /\ status' = "executing" /\ attempts' = attempts /\ events' = events
    BY <2>1, <2>2
  <2>5. attempts[r] < MaxResearchAttempts + events[ExceptionGranted]
    BY <2>1, <1>0
  <2> QED
    BY <2>3, <2>4, <2>5 DEF BudgetInv
<1>7. ASSUME NEW r \in Researchers, AuthorizeExceptionRevision(r) PROVE BudgetInv'
  <2>1. /\ status' = "executing" /\ UNCHANGED attempts
        /\ step[r] = "completed"
        /\ step' = [step EXCEPT ![r] = "pending", ![Reviewer] = "pending"]
    BY <1>7 DEF AuthorizeExceptionRevision, CanGrantException
  <2>2. ASSUME NEW q \in Researchers, q # r PROVE step'[q] = step[q]
    BY <2>1, <2>2, <1>0 DEF TypeOK
  <2>3. step'[r] = "pending"
    BY <2>1, <1>0 DEF TypeOK
  <2>4. /\ events'[ExceptionGranted] = events[ExceptionGranted] + 1
        /\ events[ExceptionGranted] < MaxOperatorRevisions
    BY <1>7, AppendGrant DEF AuthorizeExceptionRevision, CanGrantException
  <2>5. ASSUME NEW q \in Researchers
        PROVE  /\ step'[q] = "absent" => attempts'[q] = 0
               /\ attempts'[q] < MaxResearchAttempts + events'[ExceptionGranted]
    <3>1. attempts'[q] <= MaxResearchAttempts + events[ExceptionGranted]
      BY <2>1 DEF BudgetInv
    <3>2. step'[q] = "absent" => step[q] = "absent" /\ q # r
      BY <2>2, <2>3
    <3> QED
      BY <3>1, <3>2, <2>1, <2>4, <1>0 DEF BudgetInv
  <2>6. status' = "executing"
    BY <2>1
  <2>7. events'[ExceptionGranted] <= MaxOperatorRevisions
    BY <2>4, <1>0
  <2>8. \A q \in Researchers : attempts'[q] \in Nat
    BY <2>1, <1>0
  <2> QED
    BY <2>4, <2>5, <2>6, <2>7, <2>8, <1>0 DEF BudgetInv
<1>8. ASSUME NEW e \in EventTypes \ {ExceptionGranted}, RecordEvent(e)
      PROVE BudgetInv'
  BY <1>8, AppendOther DEF BudgetInv, RecordEvent
<1>9. CASE RecordSource \/ ExpireSources
  BY <1>9 DEF BudgetInv, RecordSource, ExpireSources
<1>10. CASE UNCHANGED storeVars
  BY <1>10 DEF BudgetInv, storeVars
<1> QED
  BY <1>0, <1>1, <1>2, <1>3, <1>4, <1>5, <1>6, <1>7, <1>8, <1>9, <1>10 DEF Next

\* In every state the grants and the attempts are within their budgets and a
\* pending researcher has one attempt left.
THEOREM BudgetCorrect == Spec => []BudgetInv
<1> QED
  BY TypeInit, TypeStep, BudgetInit, BudgetStep, PTL DEF Spec

\* No interleaving of revisions, operator exceptions and late workers starts a
\* researcher more often than its budget and the operators' grants allow.
THEOREM AttemptsWithinBudget == Spec => []AttemptBudget
<1>1. BudgetInv => AttemptBudget
  BY DEF BudgetInv, AttemptBudget
<1> QED
  BY <1>1, BudgetCorrect, PTL

-----------------------------------------------------------------------------

\* No transaction takes a run to or past the gate without a stored plan.
LEMMA PlanStep ==
  TypeOK /\ PlanBehindGate /\ [Next]_storeVars => PlanBehindGate'
<1> SUFFICES ASSUME TypeOK, PlanBehindGate, [Next]_storeVars
             PROVE  PlanBehindGate'
  OBVIOUS
<1> USE StepsAssumption
<1> DEFINE Stored == /\ step[Planner] = "completed"
                     /\ step[Reviewer] # "absent"
                     /\ \E r \in Researchers : step[r] # "absent"
           Gated == {"awaiting_approval", "executing", "reviewing",
                     "completed", "needs_attention"}
<1>0. PlanBehindGate <=> (status \in Gated => Stored)
  BY DEF PlanBehindGate
<1>1. ASSUME NEW next \in TransitionTargets, TransitionRun(next)
      PROVE PlanBehindGate'
  <2>1. status' \in Gated => status \in Gated
    BY <1>1 DEF TransitionRun, CanTransition, ALLOWED_TRANSITIONS,
                TransitionTargets, TypeOK, Statuses
  <2>2. UNCHANGED step
    BY <1>1 DEF TransitionRun
  <2> QED
    BY <1>0, <2>1, <2>2 DEF PlanBehindGate
<1>2. ASSUME NEW plan \in SUBSET Researchers, plan # {}, MaterializePlan(plan)
      PROVE PlanBehindGate'
  <2>1. PICK r \in Researchers : r \in plan
    BY <1>2
  <2>2. /\ step'[Planner] = "completed"
        /\ step'[Reviewer] = "pending"
        /\ step'[r] = "pending"
    BY <1>2, <2>1 DEF MaterializePlan, Steps
  <2> QED
    BY <2>1, <2>2 DEF PlanBehindGate
<1>3. ASSUME NEW s \in Steps, NEW t \in Steps, CreateHandoff(s, t)
      PROVE PlanBehindGate'
  BY <1>3 DEF PlanBehindGate, CreateHandoff
<1>4. ASSUME NEW s \in Steps \ {Planner},
             \/ ActivateStep(s, "executing") \/ ActivateStep(s, "reviewing")
             \/ CompleteStep(s) \/ FailStep(s)
      PROVE PlanBehindGate'
  <2>1. status' = status
    BY <1>4 DEF ActivateStep, CompleteStep, FailStep
  <2>2. \A t \in Steps : \/ step'[t] = step[t]
                         \/ t = s /\ step'[t] \in {"active", "completed", "failed"}
    BY <1>4 DEF ActivateStep, CompleteStep, FailStep, TypeOK
  <2> QED
    BY <2>1, <2>2 DEF PlanBehindGate, Steps
<1>5. ASSUME NEW r \in Researchers,
             RequestRevision(r) \/ AuthorizeExceptionRevision(r)
      PROVE PlanBehindGate'
  <2>1. status \in Gated
    BY <1>5 DEF RequestRevision, CanRevise, AuthorizeExceptionRevision,
                CanGrantException
  <2>2. step' = [step EXCEPT ![r] = "pending", ![Reviewer] = "pending"]
    BY <1>5 DEF RequestRevision, AuthorizeExceptionRevision
  <2>3. /\ step'[Reviewer] = "pending"
        /\ step'[r] = "pending"
        /\ step'[Planner] = step[Planner]
    BY <2>2 DEF TypeOK, Steps
  <2> QED
    BY <1>0, <2>1, <2>3 DEF PlanBehindGate
<1>6. ASSUME NEW e \in EventTypes, RecordEvent(e) PROVE PlanBehindGate'
  BY <1>6 DEF PlanBehindGate, RecordEvent
<1>7. CASE RecordSource \/ ExpireSources
  BY <1>7 DEF PlanBehindGate, RecordSource, ExpireSources
<1>8. CASE UNCHANGED storeVars
  BY <1>8 DEF PlanBehindGate, storeVars
<1>9. Reviewer \in Steps \ {Planner} /\ Researchers \subseteq Steps \ {Planner}
  BY DEF Steps
<1> QED
  BY <1>1, <1>2, <1>3, <1>4, <1>5, <1>6, <1>7, <1>8, <1>9 DEF Next

\* Only a run with a stored plan ever reaches the approval gate or what lies
\* behind it.
THEOREM PlanStoredBehindGate == Spec => []PlanBehindGate
<1>1. Init => PlanBehindGate
  BY DEF Init, PlanBehindGate
<1> QED
  BY <1>1, TypeInit, TypeStep, PlanStep, PTL DEF Spec

\* A run that has ended is never restarted, by no caller and in no order.
THEOREM EndedRunStaysEnded == Spec => EndedRunStartsNothing
<1>1. ASSUME TypeOK, [Next]_storeVars
      PROVE  [(status \in Terminal) => UNCHANGED <<status, attempts, handoffs>>]_storeVars
  <2> SUFFICES ASSUME status \in Terminal
               PROVE  UNCHANGED <<status, attempts, handoffs>>
    OBVIOUS
  <2>1. ASSUME NEW next \in TransitionTargets PROVE ~TransitionRun(next)
    BY DEF TransitionRun, CanTransition, ALLOWED_TRANSITIONS, Terminal
  <2>2. ASSUME NEW s \in Steps, NEW t \in Steps PROVE ~CreateHandoff(s, t)
    BY DEF CreateHandoff, Terminal
  <2>3. ASSUME NEW s \in Steps
        PROVE  ~ActivateStep(s, "executing") /\ ~ActivateStep(s, "reviewing")
    BY DEF ActivateStep, CanActivate, Terminal
  <2>4. ASSUME NEW r \in Researchers
        PROVE  ~RequestRevision(r) /\ ~AuthorizeExceptionRevision(r)
    BY DEF RequestRevision, CanRevise, AuthorizeExceptionRevision,
           CanGrantException, Terminal
  <2>5. ASSUME NEW plan \in SUBSET Researchers PROVE ~MaterializePlan(plan)
    BY DEF MaterializePlan, Terminal
  <2>6. ASSUME NEW s \in Steps, CompleteStep(s) \/ FailStep(s)
        PROVE  UNCHANGED <<status, attempts, handoffs>>
    BY <2>6 DEF CompleteStep, FailStep
  <2>7. ASSUME NEW e \in EventTypes, RecordEvent(e)
        PROVE  UNCHANGED <<status, attempts, handoffs>>
    BY <2>7 DEF RecordEvent
  <2>8. CASE RecordSource \/ ExpireSources
    BY <2>8 DEF RecordSource, ExpireSources
  <2>9. CASE UNCHANGED storeVars
    BY <2>9 DEF storeVars
  <2>10. Reviewer \in Steps /\ Researchers \subseteq Steps
    BY DEF Steps
  <2> QED
    BY <1>1, <2>1, <2>2, <2>3, <2>4, <2>5, <2>6, <2>7, <2>8, <2>9, <2>10 DEF Next
<1> QED
  BY <1>1, TypeInit, TypeStep, PTL DEF Spec, EndedRunStartsNothing

-----------------------------------------------------------------------------

\* A status change that transition_run allows is a move of the governed run, or
\* stays within its phase.
LEMMA TransitionPhase ==
  ASSUME NEW from \in Statuses, NEW to \in ALLOWED_TRANSITIONS[from]
  PROVE  PhaseOf[to] = PhaseOf[from] \/ PhaseOf[to] \in Governed!Successors[PhaseOf[from]]
BY DEF Statuses, ALLOWED_TRANSITIONS, PhaseOf, Governed!Successors

\* A run just created is a governed run in its drafting phase.
LEMMA GovernedInit == Init => Governed!Init
BY DEF Init, Governed!Init, PhaseOf, Steps, EventTypes

\* Every store transaction is a step of the governed run, or changes nothing
\* it shows.
LEMMA GovernedStep ==
  TypeOK /\ BudgetInv /\ [Next]_storeVars => [Governed!Next]_(Governed!vars)
<1> SUFFICES ASSUME TypeOK, BudgetInv, [Next]_storeVars
             PROVE  [Governed!Next]_(Governed!vars)
  OBVIOUS
<1> USE StepsAssumption
<1> DEFINE Held == /\ attempts' = attempts
                   /\ events'[ExceptionGranted] = events[ExceptionGranted]
<1>0. Researchers \subseteq Steps /\ Reviewer \in Steps
  BY DEF Steps
<1>1. ASSUME Held, status' = status \/ status' \in ALLOWED_TRANSITIONS[status]
      PROVE  [Governed!Next]_(Governed!vars)
  <2>1. \/ PhaseOf[status'] = PhaseOf[status]
        \/ PhaseOf[status'] \in Governed!Successors[PhaseOf[status]]
    BY <1>1, TransitionPhase DEF TypeOK
  <2> QED
    BY <1>1, <2>1 DEF Governed!Next, Governed!Move, Governed!vars
<1>2. ASSUME NEW r \in Researchers, ActivateStep(r, "executing")
      PROVE  Governed!Research(r)
  <2>1. /\ status = "executing" /\ status' = status /\ events' = events
        /\ attempts[r] < MaxResearchAttempts + events[ExceptionGranted]
        /\ attempts' = [attempts EXCEPT ![r] = @ + 1]
    BY <1>2 DEF ActivateStep, CanActivate, BudgetInv
  <2>2. [q \in Researchers |-> attempts'[q]] =
          [[q \in Researchers |-> attempts[q]] EXCEPT ![r] = @ + 1]
    BY <2>1, <1>0 DEF TypeOK
  <2> QED
    BY <2>1, <2>2 DEF Governed!Research, PhaseOf
<1>3. ASSUME NEW r \in Researchers, AuthorizeExceptionRevision(r)
      PROVE  Governed!Grant
  <2>1. /\ status = "needs_attention" /\ status' = "executing"
        /\ attempts' = attempts
        /\ events[ExceptionGranted] < MaxOperatorRevisions
    BY <1>3 DEF AuthorizeExceptionRevision, CanGrantException
  <2>2. events'[ExceptionGranted] = events[ExceptionGranted] + 1
    BY <1>3, <2>1, AppendGrant DEF AuthorizeExceptionRevision
  <2> QED
    BY <2>1, <2>2 DEF Governed!Grant, PhaseOf
<1>4. ASSUME ActivateStep(Reviewer, "reviewing")
      PROVE  [Governed!Next]_(Governed!vars)
  <2>1. /\ status' = status /\ events' = events
        /\ attempts' = [attempts EXCEPT ![Reviewer] = @ + 1]
    BY <1>4 DEF ActivateStep
  <2>2. [q \in Researchers |-> attempts'[q]] = [q \in Researchers |-> attempts[q]]
    BY <2>1, <1>0 DEF TypeOK
  <2> QED
    BY <2>1, <2>2 DEF Governed!vars
<1>5. ASSUME NEW next \in TransitionTargets, TransitionRun(next)
      PROVE  Held /\ status' \in ALLOWED_TRANSITIONS[status]
  BY <1>5 DEF TransitionRun, CanTransition
<1>6. ASSUME NEW plan \in SUBSET Researchers, MaterializePlan(plan)
      PROVE  Held /\ status' \in ALLOWED_TRANSITIONS[status]
  BY <1>6 DEF MaterializePlan, ALLOWED_TRANSITIONS
<1>7. ASSUME NEW r \in Researchers, RequestRevision(r)
      PROVE  Held /\ status' \in ALLOWED_TRANSITIONS[status]
  BY <1>7 DEF RequestRevision, CanRevise, ALLOWED_TRANSITIONS
<1>8. ASSUME NEW e \in EventTypes \ {ExceptionGranted}, RecordEvent(e)
      PROVE  Held /\ status' = status
  BY <1>8, AppendOther DEF RecordEvent
<1>9. ASSUME \/ \E s, t \in Steps : CreateHandoff(s, t)
             \/ \E s \in Steps : CompleteStep(s) \/ FailStep(s)
             \/ RecordSource \/ ExpireSources \/ UNCHANGED storeVars
      PROVE  Held /\ status' = status
  BY <1>9 DEF CreateHandoff, CompleteStep, FailStep, RecordSource,
              ExpireSources, storeVars
<1>10. ASSUME Next PROVE [Governed!Next]_(Governed!vars)
  <2>1. CASE \E r \in Researchers : ActivateStep(r, "executing")
    BY <2>1, <1>2 DEF Governed!Next
  <2>2. CASE \E r \in Researchers : AuthorizeExceptionRevision(r)
    BY <2>2, <1>3 DEF Governed!Next
  <2>3. CASE \E next \in TransitionTargets : TransitionRun(next)
    BY <2>3, <1>5, <1>1
  <2>4. CASE \E plan \in SUBSET Researchers : MaterializePlan(plan)
    BY <2>4, <1>6, <1>1
  <2>5. CASE \E r \in Researchers : RequestRevision(r)
    BY <2>5, <1>7, <1>1
  <2>6. CASE \E e \in EventTypes \ {ExceptionGranted} : RecordEvent(e)
    BY <2>6, <1>8, <1>1
  <2>7. CASE \/ \E s, t \in Steps : CreateHandoff(s, t)
             \/ \E s \in Steps : CompleteStep(s) \/ FailStep(s)
             \/ RecordSource \/ ExpireSources
    BY <2>7, <1>9, <1>1
  <2> QED
    BY <1>10, <1>0, <1>4, <2>1, <2>2, <2>3, <2>4, <2>5, <2>6, <2>7 DEF Next
<1> QED
  BY <1>1, <1>9, <1>10

\* The store implements the governed run: whatever order its transactions are
\* called in, the phase, the attempts and the grants behave as promised.
THEOREM StoreImplementsGovernedRun == Spec => ImplementsGovernedRun
<1> QED
  BY GovernedInit, GovernedStep, TypeInit, TypeStep, BudgetInit, BudgetStep, PTL
     DEF Spec, ImplementsGovernedRun, Governed!Spec
=============================================================================
