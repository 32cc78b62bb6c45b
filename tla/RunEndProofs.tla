------------------------------ MODULE RunEndProofs ------------------------------
(***************************************************************************)
(* How a run ends agrees with what its steps went through, and one failure *)
(* never leaves it hanging when its workflow has ended: for any number of  *)
(* workers, callers, researchers, exceptions and faults.                   *)
(***************************************************************************)
EXTENDS DurableRuntimeProofs, FiniteSetTheorems

-----------------------------------------------------------------------------
(* Runs that fail, and runs nobody has started.                             *)

Unstarted == {"requested", "planning", "awaiting_approval", "rejected"}

StartInv ==
  /\ status \in Unstarted => \A r \in Researchers : attempts[r] = 0
  /\ \A w \in Workers : job[w].at = "abort" => step[job[w].r] = "failed"
  /\ status = "failed" => \E r \in Researchers : step[r] = "failed"

\* A run that was executed is never again one that was not.
LEMMA UnstartedStep ==
  ASSUME TypeOK, [Next]_storeVars,
         status \in Unstarted => \A r \in Researchers : attempts[r] = 0,
         status' \in Unstarted
  PROVE  \A r \in Researchers : attempts'[r] = 0
<1> USE StepsAssumption
<1>1. ASSUME NEW next \in TransitionTargets, TransitionRun(next)
      PROVE  status \in Unstarted /\ UNCHANGED attempts
  BY <1>1 DEF TransitionRun, CanTransition, ALLOWED_TRANSITIONS, TransitionTargets,
              TypeOK, Statuses, Unstarted
<1>2. ASSUME NEW s \in Steps, ActivateStep(s, "executing") \/ ActivateStep(s, "reviewing")
      PROVE  FALSE
  BY <1>2 DEF ActivateStep, CanActivate, Unstarted
<1>3. ASSUME NEW r \in Researchers, RequestRevision(r) \/ AuthorizeExceptionRevision(r)
      PROVE  FALSE
  BY <1>3 DEF RequestRevision, AuthorizeExceptionRevision, Unstarted
<1>4. ASSUME \/ \E plan \in SUBSET Researchers : MaterializePlan(plan)
             \/ \E s, t \in Steps : CreateHandoff(s, t)
             \/ \E s \in Steps : CompleteStep(s) \/ FailStep(s)
             \/ \E e \in EventTypes : RecordEvent(e)
             \/ RecordSource \/ ExpireSources \/ UNCHANGED storeVars
      PROVE  status \in Unstarted /\ UNCHANGED attempts
  BY <1>4 DEF MaterializePlan, CreateHandoff, CompleteStep, FailStep, RecordEvent,
              RecordSource, ExpireSources, storeVars, Unstarted
<1>5. Reviewer \in Steps /\ Researchers \subseteq Steps
  BY DEF Steps
<1>6. status \in Unstarted /\ UNCHANGED attempts
  BY <1>1, <1>2, <1>3, <1>4, <1>5 DEF Next
<1> QED
  BY <1>6

\* A failed step stays failed: nothing retries it.
LEMMA FailedStays ==
  ASSUME TypeOK, BudgetInv, [Next]_storeVars, NEW r \in Researchers, step[r] = "failed"
  PROVE  step'[r] = "failed"
<1> USE StepsAssumption
<1>0. Reviewer \in Steps /\ Researchers \subseteq Steps \ {Reviewer}
  BY DEF Steps
<1>1. ASSUME NEW plan \in SUBSET Researchers, MaterializePlan(plan) PROVE FALSE
  BY <1>1 DEF MaterializePlan, BudgetInv
<1>2. ASSUME NEW s \in Steps,
             \/ ActivateStep(s, "executing") \/ ActivateStep(s, "reviewing")
             \/ CompleteStep(s) \/ FailStep(s)
      PROVE  step'[r] = "failed"
  BY <1>0, <1>2 DEF ActivateStep, CanActivate, CompleteStep, CanComplete, FailStep, TypeOK
<1>3. ASSUME NEW q \in Researchers, RequestRevision(q) \/ AuthorizeExceptionRevision(q)
      PROVE  step'[r] = "failed"
  BY <1>0, <1>3 DEF RequestRevision, CanRevise, AuthorizeExceptionRevision,
                    CanGrantException, TypeOK
<1>4. ASSUME \/ \E next \in TransitionTargets : TransitionRun(next)
             \/ \E s, t \in Steps : CreateHandoff(s, t)
             \/ \E e \in EventTypes : RecordEvent(e)
             \/ RecordSource \/ ExpireSources \/ UNCHANGED storeVars
      PROVE  step'[r] = "failed"
  BY <1>4 DEF TransitionRun, CreateHandoff, RecordEvent, RecordSource,
              ExpireSources, storeVars
<1> QED
  BY <1>0, <1>1, <1>2, <1>3, <1>4 DEF Next

\* The worker at the label is the one that takes the run to the status.
Reaches(w, label, next) ==
  /\ job[w].at = label /\ status' = next /\ UNCHANGED step
  /\ Jump(w, "return") /\ CanTransition(next)

\* Only a worker that has failed its step takes the run to failed, and only
\* one that has completed the reviewer's takes it to completed.
LEMMA WhoEnds ==
  ASSUME JobShape, [DurableNext]_vars, status' # status,
         status' \in {"failed", "completed"}
  PROVE  \E w \in Workers :
           \/ Reaches(w, "abort", "failed") \/ Reaches(w, "close", "completed")
<1>1. ASSUME NEW w \in Workers, Work(w)
      PROVE  Reaches(w, "abort", "failed") \/ Reaches(w, "close", "completed")
  <2>1. ~Raise(w) /\ \A s : ~Return(w, s)
    BY DEF Raise, Return, storeVars
  <2>2. CASE Abort(w) \/ Close(w)
    BY <2>1, <2>2 DEF Abort, Close, Attempt, TransitionRun, Reaches
  <2>3. CASE \/ Enter(w) \/ Submit(w) \/ HandOver(w) \/ Halt(w) \/ Revise(w)
    BY <2>1, <2>3 DEF Enter, Submit, HandOver, Halt, Revise, Attempt,
       TransitionRun, RequestRevision
  <2>4. CASE \/ Activate(w) \/ Remember(w) \/ Complete(w) \/ Fail(w) \/ Seat(w)
             \/ Accept(w) \/ Unresolved(w) \/ Unseat(w) \/ Flag(w)
    BY <2>1, <2>4 DEF Activate, Remember, Complete, Fail, Seat, Accept, Unresolved,
       Unseat, Flag, Attempt, ActivateStep, RecordSource, CompleteStep, FailStep,
       RecordEvent
  <2>5. CASE \/ ValidateExecute(w) \/ ValidateReview(w) \/ ValidateEscalate(w)
             \/ Begin(w) \/ Gate(w) \/ Pick(w) \/ Search(w) \/ Extract(w)
             \/ Look(w) \/ Report(w)
    BY <2>1, <2>5 DEF ValidateExecute, ValidateReview, ValidateEscalate, Begin, Gate,
       Pick, Search, Extract, Look, Report, Read, storeVars
  <2> QED
    BY <1>1, <2>2, <2>3, <2>4, <2>5 DEF Work
<1>2. ASSUME NEW c \in Callers, Serve(c) PROVE FALSE
  BY <1>2 DEF Serve, ReadStatus, ReadEvents, Check, Approve, Reject, GrantRevision,
     MarkClosed, Cancel, MarkScheduled, Write, StartWorkflow, SignalCancel,
     TransitionRun, RecordEvent, AuthorizeExceptionRevision, storeVars
<1>3. ASSUME StartPlanning \/ StorePlan PROVE FALSE
  BY <1>3 DEF StartPlanning, StorePlan, TransitionRun, MaterializePlan
<1>4. ASSUME \/ UNCHANGED vars \/ Expire \/ SlowTimeout \/ LostTimeout
             \/ \E w \in Workers : Poll(w) \/ CallDirectly(w) \/ Crash(w) \/ Outage(w)
             \/ \E c \in Callers : Abandon(c) \/ \E op \in Ops : Ask(c, op)
      PROVE  FALSE
  BY <1>4 DEF vars, Expire, ExpireSources, SlowTimeout, LostTimeout, Poll,
     CallDirectly, Crash, Outage, Raise, Abandon, Ask, storeVars
<1> QED
  BY <1>1, <1>2, <1>3, <1>4 DEF DurableNext

\* An activity comes to its abort by failing the step it holds.
LEMMA NewAbort ==
  ASSUME TypeOK, JobShape, WorkflowShape, OneWorkerPerStep, [DurableNext]_vars,
         NEW w \in Workers, job'[w].at = "abort", job'[w] # job[w]
  PROVE  job'[w].r \in Researchers /\ step'[job'[w].r] = "failed"
<1>1. ASSUME NEW v \in Workers, job' = [job EXCEPT ![v] = IdleJob] PROVE FALSE
  BY <1>1 DEF JobShape, IdleJob
<1>2. ASSUME NEW v \in Workers, NEW next, Jump(v, next)
      PROVE  v = w /\ next = "abort"
  BY <1>2, Jumped
<1>3. ASSUME NEW v \in Workers, Work(v) PROVE Fail(w)
  <2>1. ~Raise(v) /\ \A s : ~Return(v, s)
    BY <1>1 DEF Raise, Return, End
  <2>2. CASE Seat(v)
    <3>1. job[v].verdict # "abort"
      BY <2>2 DEF Seat, Attempt, JobShape, Verdicts
    <3> QED
      BY <2>1, <2>2, <3>1, <1>2 DEF Seat, Attempt
  <2>3. CASE Pick(v) \/ Look(v)
    <3>1. ASSUME NEW r, job' = [job EXCEPT ![v].at = "activate", ![v].r = r] PROVE FALSE
      BY <3>1 DEF JobShape
    <3>2. ASSUME NEW r, NEW d, job' = [job EXCEPT ![v].at = "seat", ![v].r = r, ![v].verdict = d]
          PROVE  FALSE
      BY <3>2 DEF JobShape
    <3> QED
      BY <2>1, <2>3, <3>1, <3>2 DEF Pick, Look
  <2>4. CASE \/ Enter(v) \/ Submit(v) \/ HandOver(v) \/ Halt(v) \/ Revise(v) \/ Abort(v)
             \/ Close(v) \/ Activate(v) \/ Remember(v) \/ Complete(v)
             \/ Accept(v) \/ Unresolved(v) \/ Unseat(v) \/ Flag(v)
    BY <2>1, <2>4, <1>2 DEF Enter, Submit, HandOver, Halt, Revise, Abort, Close,
       Activate, Remember, Complete, Accept, Unresolved, Unseat, Flag, Attempt
  <2>5. CASE \/ ValidateExecute(v) \/ ValidateReview(v) \/ ValidateEscalate(v)
             \/ Begin(v) \/ Gate(v) \/ Search(v) \/ Extract(v) \/ Report(v)
    BY <2>1, <2>5, <1>2 DEF ValidateExecute, ValidateReview, ValidateEscalate, Begin,
       Gate, Search, Extract, Report, Read
  <2>6. CASE Fail(v)
    BY <2>1, <2>6, <1>2 DEF Fail, Attempt
  <2> QED
    BY <1>3, <2>2, <2>3, <2>4, <2>5, <2>6 DEF Work
<1>4. ASSUME NEW v \in Workers, Poll(v) \/ CallDirectly(v) \/ Crash(v) \/ Outage(v)
      PROVE  FALSE
  <2>1. CASE Poll(v)
    BY <2>1, <1>2 DEF Poll, WorkflowShape, Activities
  <2>2. CASE CallDirectly(v)
    BY <2>2, <1>2 DEF CallDirectly
  <2>3. CASE Crash(v) \/ Outage(v)
    BY <2>3, <1>1 DEF Crash, Outage, Raise, End
  <2> QED
    BY <1>4, <2>1, <2>2, <2>3
<1>5. UNCHANGED job \/ Fail(w)
  BY <1>3, <1>4 DEF DurableNext, vars, procVars, StartPlanning, StorePlan, Expire,
     SlowTimeout, LostTimeout, Serve, Abandon, Ask
<1>6. /\ FailStep(job[w].r) /\ job'[w].r = job[w].r
      /\ job[w].at = "fail" /\ job[w].r \in Researchers
  <2>1. Fail(w) /\ ~Raise(w)
    BY <1>1, <1>5 DEF Raise, End
  <2> QED
    BY <2>1, Jumped DEF Fail, Attempt, JobShape, AtResearcher
<1>7. step[job[w].r] = "active"
  BY <1>6 DEF OneWorkerPerStep, Holds
<1> QED
  BY <1>6, <1>7 DEF FailStep, TypeOK, Steps

\* A run ends as failed on account of a step that failed, and what nobody has
\* executed stays unexecuted.
LEMMA StartStep ==
  DurableShape /\ BudgetInv /\ HeldInv /\ StartInv /\ [DurableNext]_vars => StartInv'
<1> SUFFICES ASSUME DurableShape, BudgetInv, HeldInv, StartInv, [DurableNext]_vars
             PROVE  StartInv'
  OBVIOUS
<1>0. /\ TypeOK /\ JobShape /\ WorkflowShape /\ OneWorkerPerStep
      /\ [Next]_storeVars
  BY StoreStep DEF DurableShape, Shape, HeldInv
<1>1. status' \in Unstarted => \A r \in Researchers : attempts'[r] = 0
  BY <1>0, UnstartedStep DEF StartInv
<1>2. ASSUME NEW w \in Workers, job'[w].at = "abort"
      PROVE  step'[job'[w].r] = "failed"
  <2>1. CASE job'[w] = job[w]
    <3>1. job[w].r \in Researchers /\ step[job[w].r] = "failed"
      BY <1>0, <1>2, <2>1 DEF JobShape, AtResearcher, StartInv
    <3> QED
      BY <1>0, <2>1, <3>1, FailedStays
  <2>2. CASE job'[w] # job[w]
    BY <1>0, <1>2, <2>2, NewAbort
  <2> QED
    BY <2>1, <2>2
<1>3. ASSUME status' = "failed" PROVE \E r \in Researchers : step'[r] = "failed"
  <2>1. CASE status = "failed"
    <3>1. PICK r \in Researchers : step[r] = "failed"
      BY <2>1 DEF StartInv
    <3> QED
      BY <1>0, <3>1, FailedStays
  <2>2. CASE status # "failed"
    <3>1. PICK w \in Workers : Reaches(w, "abort", "failed")
      BY <1>0, <1>3, <2>2, WhoEnds DEF Reaches
    <3>2. job[w].r \in Researchers /\ step[job[w].r] = "failed"
      BY <1>0, <3>1 DEF Reaches, JobShape, AtResearcher, StartInv
    <3> QED
      BY <3>1, <3>2 DEF Reaches
  <2> QED
    BY <2>1, <2>2
<1> QED
  BY <1>1, <1>2, <1>3 DEF StartInv

-----------------------------------------------------------------------------
(* The review and the end of the run.                                       *)

\* A worker that has given up the reviewer's step is about to end the run.
Closing(w) == job[w].at \in {"close", "hand_over"}

\* The review is over and nobody is about to end the run on its account.
Reviewed == step[Reviewer] = "completed" /\ \A w \in Workers : ~Closing(w)

Flagged == events[DurableAmbiguity] > 0
Granted == events[ExceptionGranted]

\* EndAgreesWithSteps is not inductive: it takes who is about to end the run,
\* and what the requests for an exception read of it.  While the run is not
\* flagged, one worker at most is about to end it, and an exception finds the
\* review over; a flag lets one exception in that read the run before it.
ReviewInv ==
  /\ \A w \in Workers : job[w].at = "halt" => Flagged
  /\ ~Flagged \/ Granted <= 1 =>
       /\ \A w \in Workers : job[w].at = "close" => step[Reviewer] = "completed"
       /\ status = "completed" => step[Reviewer] = "completed"
  /\ ~Flagged \/ Granted = 0 =>
       /\ \A w \in Workers : Closing(w) => step[Reviewer] = "completed"
       /\ \A v, w \in Workers : Closing(v) /\ Closing(w) => v = w
  /\ ~Flagged /\ status = "needs_attention" => Reviewed
  /\ Granted = 0 =>
       \A c \in Callers : req[c].op = "revise" =>
         /\ req[c].i = 2 /\ ~Flagged => Reviewed
         /\ req[c].i = 3 => Reviewed

\* Most steps leave the end of the run alone: nobody gets ready to end it, and
\* no request gets on to an exception unless the review is over.
CalmJobs ==
  \A w \in Workers :
    /\ job'[w].at = "close" => job[w].at = "close"
    /\ job'[w].at = "hand_over" => job[w].at = "hand_over"
    /\ job'[w].at = "halt" => job[w].at = "halt" \/ Flagged'

CalmStore ==
  /\ step[Reviewer] = "completed" => step'[Reviewer] = "completed"
  /\ Flagged => Flagged'
  /\ Granted' = Granted
  /\ status' = "completed" => status = "completed"
  /\ status' = "needs_attention" => status = "needs_attention" \/ Flagged'

CalmRequests ==
  \A c \in Callers : req'[c].op = "revise" =>
    \/ req'[c] = req[c]
    \/ req'[c].i \notin {2, 3}
    \/ Granted = 0 /\ (~Flagged \/ req'[c].i = 3) => Reviewed

\* A calm step keeps the invariant.
LEMMA CalmKeeps ==
  ASSUME DurableShape, ReviewInv, CalmJobs, CalmStore, CalmRequests
  PROVE  ReviewInv'
<1>0. Granted \in Nat
  BY DEF DurableShape, TypeOK, EventTypes, Granted
<1>1. \A w \in Workers : Closing(w)' => Closing(w)
  BY DEF CalmJobs, Closing
<1>2. Reviewed => Reviewed'
  BY <1>1 DEF Reviewed, CalmStore
<1>3. \A w \in Workers : job'[w].at = "halt" => Flagged'
  BY DEF ReviewInv, CalmJobs, CalmStore
<1>4. (~Flagged \/ Granted <= 1 =>
        /\ \A w \in Workers : job[w].at = "close" => step[Reviewer] = "completed"
        /\ status = "completed" => step[Reviewer] = "completed")'
  BY DEF ReviewInv, CalmJobs, CalmStore
<1>5. (~Flagged \/ Granted = 0 =>
        /\ \A w \in Workers : Closing(w) => step[Reviewer] = "completed"
        /\ \A v, w \in Workers : Closing(v) /\ Closing(w) => v = w)'
  BY <1>1 DEF ReviewInv, CalmStore
<1>6. (~Flagged /\ status = "needs_attention" => Reviewed)'
  BY <1>2 DEF ReviewInv, CalmStore
<1>7. ASSUME Granted' = 0, NEW c \in Callers, req'[c].op = "revise",
             (req'[c].i = 2 /\ ~Flagged') \/ req'[c].i = 3
      PROVE  Reviewed'
  <2>1. Granted = 0 /\ (~Flagged \/ req'[c].i = 3)
    BY <1>7 DEF CalmStore
  <2>2. CASE req'[c] = req[c]
    BY <1>2, <1>7, <2>1, <2>2 DEF ReviewInv
  <2>3. CASE req'[c].i \notin {2, 3}
    BY <1>7, <2>3
  <2>4. CASE Reviewed
    BY <1>2, <2>4
  <2> QED
    BY <1>7, <2>1, <2>2, <2>3, <2>4 DEF CalmRequests
<1> QED
  BY <1>3, <1>4, <1>5, <1>6, <1>7 DEF ReviewInv

\* Where the steps that matter to the end of the run happen.
Ends(w, label, next) == /\ job[w].at = label /\ Jump(w, next) /\ UNCHANGED req

\* What a worker does is calm, or it gives up the reviewer's step to end the
\* run, or it ends it.
LEMMA WorkCalm ==
  ASSUME DurableShape, NEW w \in Workers, Work(w)
  PROVE  \/ CalmJobs /\ CalmStore /\ CalmRequests
         \/ /\ Ends(w, "accepted", "close") \/ Ends(w, "unseat", "hand_over")
            /\ CompleteStep(Reviewer)
         \/ Ends(w, "close", "return") /\ TransitionRun("completed")
         \/ Ends(w, "hand_over", "return") /\ TransitionRun("needs_attention")
         \/ Ends(w, "halt", "return") /\ TransitionRun("needs_attention")
<1> USE StepsAssumption
<1> DEFINE Calm == CalmJobs /\ CalmStore /\ CalmRequests
<1>0. /\ TypeOK /\ JobShape /\ UNCHANGED req /\ CalmRequests
      /\ Reviewer \in Steps /\ Researchers \subseteq Steps \ {Reviewer}
      /\ job[w].at \in AtResearcher => job[w].r \in Researchers
  BY DEF DurableShape, Shape, JobShape, Work, CalmRequests, Steps
<1>1. UNCHANGED storeVars => CalmStore
  BY DEF storeVars, CalmStore, Flagged, Granted
<1>2. ASSUME Raise(w) \/ (\E s : Return(w, s)) PROVE Calm
  <2>1. UNCHANGED storeVars /\ job' = [job EXCEPT ![w] = IdleJob]
    BY <1>2 DEF Raise, Return, End
  <2>2. job'[w].at = "idle" /\ \A v \in Workers \ {w} : job'[v] = job[v]
    BY <1>0, <2>1 DEF JobShape, IdleJob
  <2> QED
    BY <1>0, <1>1, <2>1, <2>2 DEF CalmJobs
<1>3. ASSUME NEW next, Jump(w, next), next \notin {"close", "hand_over"},
             next = "halt" => Flagged'
      PROVE  CalmJobs
  BY <1>0, <1>3, Jumped DEF CalmJobs
<1>4. ASSUME NEW next \in {"executing", "reviewing", "failed"}, TransitionRun(next)
      PROVE  CalmStore
  BY <1>4 DEF TransitionRun, CalmStore, Flagged, Granted
<1>5. ASSUME NEW r \in Researchers,
             \/ ActivateStep(r, "executing") \/ CompleteStep(r) \/ FailStep(r)
      PROVE  CalmStore
  BY <1>0, <1>5 DEF ActivateStep, CompleteStep, FailStep, TypeOK, CalmStore, Flagged, Granted
<1>6. CASE \/ ValidateExecute(w) \/ ValidateReview(w) \/ ValidateEscalate(w)
           \/ Begin(w) \/ Gate(w) \/ Search(w) \/ Extract(w)
  BY <1>6, <1>0, <1>1, <1>2, <1>3
     DEF ValidateExecute, ValidateReview, ValidateEscalate, Begin, Gate, Search,
         Extract, Read, storeVars
<1>7. CASE Enter(w) \/ Submit(w) \/ Abort(w)
  BY <1>7, <1>0, <1>2, <1>3, <1>4 DEF Enter, Submit, Abort, Attempt
<1>8. CASE Activate(w) \/ Complete(w) \/ Fail(w)
  <2>1. job[w].r \in Researchers
    BY <1>0, <1>8 DEF Activate, Complete, Fail, Attempt, AtResearcher
  <2> QED
    BY <1>8, <2>1, <1>0, <1>2, <1>3, <1>5 DEF Activate, Complete, Fail, Attempt
<1>9. CASE Remember(w) \/ Unresolved(w)
  <2>1. RecordSource => CalmStore
    BY DEF RecordSource, CalmStore, Flagged, Granted
  <2>2. RecordEvent(ReviewUnresolved) => CalmStore
    BY <1>0 DEF RecordEvent, AppendEvent, TypeOK, EventTypes, ReviewUnresolved,
                DurableAmbiguity, ExceptionGranted, CalmStore, Flagged, Granted
  <2> QED
    BY <1>9, <2>1, <2>2, <1>0, <1>3 DEF Remember, Unresolved, Attempt
<1>10. CASE Pick(w) \/ Look(w)
  <2>1. CASE Raise(w)
    BY <2>1, <1>2
  <2>2. CASE UNCHANGED storeVars /\ \E r \in Researchers, d \in Verdicts :
               \/ job' = [job EXCEPT ![w].at = "activate", ![w].r = r]
               \/ job' = [job EXCEPT ![w].at = "seat", ![w].r = r, ![w].verdict = d]
    <3>1. /\ job'[w].at \in {"activate", "seat"}
          /\ \A v \in Workers \ {w} : job'[v] = job[v]
      BY <1>0, <2>2 DEF JobShape
    <3> QED
      BY <1>0, <1>1, <2>2, <3>1 DEF CalmJobs
  <2>3. \A r \in Planned : r \in Researchers /\ Decision(r) \in Verdicts
    BY DEF Planned, Decision, Verdicts
  <2>4. "accepted" \in Verdicts
    BY DEF Verdicts
  <2> QED
    BY <1>10, <2>1, <2>2, <2>3, <2>4 DEF Pick, Look
<1>11. CASE Seat(w)
  <2>1. CASE Raise(w)
    BY <2>1, <1>2
  <2>2. CASE ActivateStep(Reviewer, "reviewing") /\ Jump(w, job[w].verdict)
    <3>1. job[w].verdict \in Verdicts
      BY <1>0, <1>11 DEF Seat, Attempt, JobShape
    <3>2. CalmStore
      BY <1>0, <2>2 DEF ActivateStep, CanActivate, TypeOK, CalmStore, Flagged, Granted
    <3> QED
      BY <1>0, <1>3, <2>2, <3>1, <3>2 DEF Verdicts
  <2> QED
    BY <1>11, <2>1, <2>2 DEF Seat, Attempt
<1>12. CASE Revise(w)
  <2>1. ASSUME NEW r \in Researchers, RequestRevision(r) PROVE CalmStore
    BY <1>0, <2>1 DEF RequestRevision, CanRevise, CalmStore, Flagged, Granted
  <2>2. job[w].r \in Researchers
    BY <1>0, <1>12 DEF Revise, Attempt, AtResearcher
  <2> QED
    BY <1>12, <2>1, <2>2, <1>0, <1>2, <1>3 DEF Revise, Attempt
<1>13. CASE Flag(w)
  <2>1. RecordEvent(DurableAmbiguity) => Flagged' /\ CalmStore
    BY <1>0, BudgetAssumption DEF RecordEvent, AppendEvent, TypeOK, EventTypes,
       DurableAmbiguity, ExceptionGranted, CalmStore, Flagged, Granted
  <2> QED
    BY <1>13, <2>1, <1>0, <1>3 DEF Flag, Attempt
<1>14. CASE Accept(w) \/ Unseat(w) \/ Close(w) \/ HandOver(w) \/ Halt(w)
  BY <1>14, <1>0, <1>2 DEF Accept, Unseat, Close, HandOver, Halt, Attempt, Ends
<1>15. CASE Report(w)
  BY <1>15, <1>2 DEF Report
<1> QED
  BY <1>6, <1>7, <1>8, <1>9, <1>10, <1>11, <1>12, <1>13, <1>14, <1>15 DEF Work

\* A worker that gives up the reviewer's step held it, so the review was not
\* over and nobody else was about to end the run.
LEMMA ReviewGivenUp ==
  ASSUME DurableShape, HeldInv, ReviewInv, NEW w \in Workers, CompleteStep(Reviewer),
         Ends(w, "accepted", "close") \/ Ends(w, "unseat", "hand_over")
  PROVE  ReviewInv'
<1>0. /\ JobShape /\ Reviewer \in Steps
      /\ step[Reviewer] = "active" /\ step'[Reviewer] = "completed"
      /\ UNCHANGED <<status, events, req>>
  BY DEF DurableShape, Shape, TypeOK, Steps, CompleteStep, CanComplete, Ends
<1>1. /\ job'[w].at \in {"close", "hand_over"}
      /\ \A v \in Workers \ {w} : job'[v] = job[v]
  BY <1>0, Jumped DEF Ends
<1>2. ~Reviewed /\ Flagged' = Flagged /\ Granted' = Granted
  BY <1>0 DEF Reviewed, Flagged, Granted
<1>3. ~Flagged \/ Granted = 0 => \A v \in Workers \ {w} : ~Closing(v)'
  BY <1>0, <1>1 DEF ReviewInv, Closing
<1>4. (~Flagged \/ Granted = 0 =>
         \A u, v \in Workers : Closing(u) /\ Closing(v) => u = v)'
  BY <1>2, <1>3
<1>5. \A v \in Workers : job'[v].at = "halt" => Flagged'
  BY <1>1, <1>2 DEF ReviewInv
<1> QED
  BY <1>0, <1>2, <1>4, <1>5 DEF ReviewInv

\* The run is ended by a worker that was the only one about to, or after a
\* flag.
LEMMA RunEnded ==
  ASSUME DurableShape, ReviewInv, NEW w \in Workers,
         \/ Ends(w, "close", "return") /\ TransitionRun("completed")
         \/ Ends(w, "hand_over", "return") /\ TransitionRun("needs_attention")
         \/ Ends(w, "halt", "return") /\ TransitionRun("needs_attention")
  PROVE  ReviewInv'
<1>0. /\ JobShape /\ UNCHANGED <<step, events, req>>
  BY DEF DurableShape, Shape, TransitionRun, Ends
<1>1. /\ job'[w].at = "return"
      /\ \A v \in Workers \ {w} : job'[v] = job[v]
  BY <1>0, Jumped DEF Ends
<1>2. Flagged' = Flagged /\ Granted' = Granted
  BY <1>0 DEF Flagged, Granted
<1>3. /\ ~Closing(w)' /\ \A v \in Workers : Closing(v)' => Closing(v)
      /\ \A v \in Workers : job'[v].at = "close" => job[v].at = "close"
  BY <1>1 DEF Closing
<1>4. Reviewed => Reviewed'
  BY <1>0, <1>3 DEF Reviewed
<1>5. (/\ \A v \in Workers : job[v].at = "halt" => Flagged
       /\ ~Flagged \/ Granted = 0 =>
            /\ \A v \in Workers : Closing(v) => step[Reviewer] = "completed"
            /\ \A u, v \in Workers : Closing(u) /\ Closing(v) => u = v
       /\ Granted = 0 =>
            \A c \in Callers : req[c].op = "revise" =>
              /\ req[c].i = 2 /\ ~Flagged => Reviewed
              /\ req[c].i = 3 => Reviewed)'
  BY <1>0, <1>1, <1>2, <1>3, <1>4 DEF ReviewInv
<1>6. CASE Ends(w, "close", "return") /\ TransitionRun("completed")
  <2>1. status' = "completed" /\ job[w].at = "close"
    BY <1>6 DEF TransitionRun, Ends
  <2> QED
    BY <1>0, <1>2, <1>3, <1>5, <2>1 DEF ReviewInv
<1>7. CASE Ends(w, "hand_over", "return") /\ TransitionRun("needs_attention")
  <2>1. status' = "needs_attention" /\ Closing(w)
    BY <1>7 DEF TransitionRun, Ends, Closing
  <2>2. ~Flagged => Reviewed'
    BY <1>0, <1>1, <1>3, <2>1 DEF ReviewInv, Reviewed
  <2> QED
    BY <1>0, <1>2, <1>3, <1>5, <2>1, <2>2 DEF ReviewInv
<1>8. CASE Ends(w, "halt", "return") /\ TransitionRun("needs_attention")
  <2>1. status' = "needs_attention" /\ Flagged
    BY <1>8 DEF TransitionRun, Ends, ReviewInv
  <2> QED
    BY <1>0, <1>2, <1>3, <1>5, <2>1 DEF ReviewInv
<1> QED
  BY <1>6, <1>7, <1>8

\* A request gets on to an exception, unless the run was flagged since, only
\* when the review is over; the first exception therefore finds it so.
LEMMA ServeReview ==
  ASSUME DurableShape, ReviewInv, NEW c \in Callers, Serve(c)
  PROVE  ReviewInv'
<1> USE StepsAssumption
<1>0. /\ TypeOK /\ RequestShape /\ UNCHANGED job /\ CalmJobs
      /\ Reviewer \in Steps /\ Researchers \subseteq Steps \ {Reviewer}
  BY DEF DurableShape, Shape, Serve, CalmJobs, Steps
<1>1. UNCHANGED storeVars => CalmStore
  BY DEF storeVars, CalmStore, Flagged, Granted
<1>2. ASSUME Advance(c) \/ Drop(c),
             req'[c].op = "revise" /\ req'[c].i \in {2, 3} =>
               (Granted = 0 /\ (~Flagged \/ req'[c].i = 3) => Reviewed)
      PROVE  CalmRequests
  BY <1>0, <1>2, RequestStep DEF CalmRequests
<1>3. ASSUME NEW e \in EventTypes \ {ExceptionGranted}, RecordEvent(e)
      PROVE  CalmStore
  BY <1>0, <1>3, AppendOther, EventsKept
     DEF RecordEvent, CalmStore, Flagged, Granted, AppendEvent, TypeOK, EventTypes
<1>4. CASE \/ Reject(c) \/ Cancel(c) \/ Approve(c) \/ MarkClosed(c) \/ MarkScheduled(c)
           \/ StartWorkflow(c) \/ SignalCancel(c)
  <2>1. (Advance(c) \/ Drop(c)) /\ req[c].op # "revise" /\ req[c] # IdleReq
    <3>1. Stages["revise"] = <<"status", "events", "grant">>
      BY DEF Stages
    <3> QED
      BY <1>0, <1>4, <3>1, StageFacts DEF Reject, Cancel, Approve, MarkClosed,
         MarkScheduled, StartWorkflow, SignalCancel, Write
  <2>2. req'[c].op # "revise"
    BY <1>0, <2>1, RequestStep DEF IdleReq
  <2>3. CalmStore
    <3>1. {Approved, AttentionClosed, Scheduled} \subseteq EventTypes \ {ExceptionGranted}
      BY DEF EventTypes, Approved, AttentionClosed, Scheduled, ExceptionGranted
    <3>2. ASSUME NEW next \in {"rejected", "cancelled"}, TransitionRun(next)
          PROVE  CalmStore
      BY <3>2 DEF TransitionRun, CalmStore, Flagged, Granted
    <3> QED
      BY <1>1, <1>3, <1>4, <3>1, <3>2 DEF Reject, Cancel, Approve, MarkClosed,
         MarkScheduled, StartWorkflow, SignalCancel, Write
  <2> QED
    BY <1>0, <1>2, <2>1, <2>2, <2>3, CalmKeeps
<1>5. CASE ReadStatus(c) \/ ReadEvents(c)
  <2>1. /\ UNCHANGED storeVars /\ (Advance(c) \/ Drop(c))
        /\ Stage(c) \in {"status", "events"}
    BY <1>5 DEF ReadStatus, ReadEvents, Check
  <2>2. ASSUME req'[c].op = "revise", req'[c].i \in {2, 3}, Granted = 0,
               ~Flagged \/ req'[c].i = 3
        PROVE  Reviewed
    <3>1. Advance(c) /\ req[c].op = "revise" /\ req'[c].i = req[c].i + 1
      BY <1>0, <2>1, <2>2, RequestStep DEF IdleReq
    <3>2. req'[c] # IdleReq /\ req[c].i \in Nat
      BY <1>0, <2>2 DEF IdleReq, RequestShape
    <3>3. ~Drop(c)
      BY <1>0, <3>2 DEF Drop, RequestShape
    <3>4. CASE ReadStatus(c)
      <4>1. req[c].i = 1
        BY <1>0, <3>1, <3>4, StageFacts, StageTable DEF ReadStatus, Check
      <4>2. status = "needs_attention"
        BY <3>1, <3>3, <3>4 DEF ReadStatus, Check, StatusGate
      <4> QED
        BY <2>2, <3>1, <4>1, <4>2 DEF ReviewInv
    <3>5. CASE ReadEvents(c)
      <4>1. req[c].i = 2
        BY <1>0, <3>1, <3>5, StageFacts, StageTable DEF ReadEvents, Check
      <4>2. EventGate("revise")
        BY <3>1, <3>3, <3>5 DEF ReadEvents, Check
      <4>3. ~Flagged
        BY <4>2 DEF EventGate, Flagged
      <4> QED
        BY <2>2, <3>1, <4>1, <4>3 DEF ReviewInv
    <3> QED
      BY <1>5, <3>4, <3>5
  <2> QED
    BY <1>0, <1>1, <1>2, <2>1, <2>2, CalmKeeps
<1>6. CASE GrantRevision(c)
  <2>0. PICK r \in Researchers :
          Write(c, "grant", CanGrantException(r), AuthorizeExceptionRevision(r))
    BY <1>6 DEF GrantRevision, Planned
  <2>1. CASE UNCHANGED storeVars /\ Drop(c)
    <3>1. req'[c].op # "revise"
      BY <1>0, <2>1 DEF Drop, RequestShape, IdleReq
    <3> QED
      BY <1>0, <1>1, <1>2, <2>1, <3>1, CalmKeeps
  <2>2. CASE AuthorizeExceptionRevision(r)
    <3>1. /\ status = "needs_attention" /\ status' = "executing"
          /\ Granted' = Granted + 1 /\ Granted \in Nat /\ Flagged' = Flagged
      BY <1>0, <2>2, AppendGrant DEF AuthorizeExceptionRevision, CanGrantException,
         AppendEvent, Granted, Flagged, TypeOK, EventTypes, ExceptionGranted,
         DurableAmbiguity
    <3>2. req[c].op = "revise" /\ req[c].i = 3
      BY <1>0, <2>0, StageFacts, StageTable DEF Write
    <3>3. ~Flagged \/ Granted = 0 => \A w \in Workers : ~Closing(w)
      BY <3>1, <3>2 DEF ReviewInv, Reviewed
    <3>4. /\ \A w \in Workers : ~Closing(w)' <=> ~Closing(w)
          /\ \A w \in Workers : job'[w].at = "close" => Closing(w)
      BY <1>0 DEF Closing
    <3>5. \A w \in Workers : job'[w].at = "halt" => Flagged'
      BY <1>0, <3>1 DEF ReviewInv
    <3> QED
      BY <3>1, <3>3, <3>4, <3>5 DEF ReviewInv
  <2> QED
    BY <2>0, <2>1, <2>2 DEF Write
<1> QED
  BY <1>4, <1>5, <1>6 DEF Serve

\* No step of the runtime loses what the end of the run rests on.
LEMMA ReviewStep ==
  DurableShape /\ BudgetInv /\ HeldInv /\ ReviewInv /\ [DurableNext]_vars => ReviewInv'
<1> SUFFICES ASSUME DurableShape, BudgetInv, HeldInv, ReviewInv, [DurableNext]_vars
             PROVE  ReviewInv'
  OBVIOUS
<1> USE StepsAssumption
<1>0. /\ TypeOK /\ JobShape /\ WorkflowShape /\ RequestShape /\ Drafted
      /\ OneWorkerPerStep /\ Reviewer \in Steps
  BY DEF DurableShape, Shape, HeldInv, Steps
<1>1. UNCHANGED storeVars => CalmStore
  BY DEF storeVars, CalmStore, Flagged, Granted
<1>2. UNCHANGED job => CalmJobs
  BY DEF CalmJobs
<1>3. UNCHANGED req => CalmRequests
  BY DEF CalmRequests
<1>4. CASE \/ UNCHANGED vars \/ StartPlanning \/ Expire \/ SlowTimeout \/ LostTimeout
  <2>1. StartPlanning \/ Expire => CalmStore
    BY DEF StartPlanning, TransitionRun, Expire, ExpireSources, CalmStore, Flagged, Granted
  <2> QED
    BY <1>1, <1>2, <1>3, <1>4, <2>1, CalmKeeps
       DEF vars, procVars, StartPlanning, Expire, SlowTimeout, LostTimeout
<1>5. CASE StorePlan
  <2>1. step[Reviewer] = "absent" /\ status' = "awaiting_approval" /\ UNCHANGED events
    BY <1>0, <1>5 DEF StorePlan, MaterializePlan, Drafted
  <2>2. CalmStore
    BY <2>1 DEF CalmStore, Flagged, Granted
  <2> QED
    BY <1>2, <1>3, <1>5, <2>2, CalmKeeps DEF StorePlan, procVars
<1>6. ASSUME NEW w \in Workers, Poll(w) \/ CallDirectly(w) PROVE ReviewInv'
  <2>1. UNCHANGED storeVars /\ UNCHANGED req
    BY <1>6 DEF Poll, CallDirectly
  <2>2. PICK next \in {"validate_execute", "validate_review", "validate_escalate",
                       "begin", "look"} : Jump(w, next)
    BY <1>0, <1>6 DEF Poll, CallDirectly, WorkflowShape, Activities
  <2>3. CalmJobs
    BY <1>0, <2>2, Jumped DEF CalmJobs
  <2> QED
    BY <1>1, <1>3, <2>1, <2>3, CalmKeeps
<1>7. ASSUME NEW w \in Workers, Crash(w) \/ Outage(w) PROVE ReviewInv'
  <2>1. UNCHANGED storeVars /\ UNCHANGED req /\ job' = [job EXCEPT ![w] = IdleJob]
    BY <1>7 DEF Crash, Outage, Raise, End
  <2>2. job'[w].at = "idle" /\ \A v \in Workers \ {w} : job'[v] = job[v]
    BY <1>0, <2>1 DEF JobShape, IdleJob
  <2>3. CalmJobs
    BY <2>2 DEF CalmJobs
  <2> QED
    BY <1>1, <1>3, <2>1, <2>3, CalmKeeps
<1>8. ASSUME NEW w \in Workers, Work(w) PROVE ReviewInv'
  BY <1>8, WorkCalm, CalmKeeps, ReviewGivenUp, RunEnded
<1>9. ASSUME NEW c \in Callers, Serve(c) PROVE ReviewInv'
  BY <1>9, ServeReview
<1>10. ASSUME NEW c \in Callers, Abandon(c) \/ \E op \in Ops : Ask(c, op)
       PROVE  ReviewInv'
  <2>1. UNCHANGED storeVars /\ UNCHANGED job
    BY <1>10 DEF Abandon, Ask
  <2>2. req'[c].i = 1 /\ \A d \in Callers \ {c} : req'[d] = req[d]
    BY <1>0, <1>10 DEF Abandon, Ask, Drop, IdleReq, RequestShape
  <2>3. CalmRequests
    BY <2>2 DEF CalmRequests
  <2> QED
    BY <1>1, <1>2, <2>1, <2>3, CalmKeeps
<1> QED
  BY <1>4, <1>5, <1>6, <1>7, <1>8, <1>9, <1>10 DEF DurableNext

\* A new run is under no review, and nobody asks for an exception to it.
LEMMA ReviewInit == DurableInit => ReviewInv
<1> SUFFICES ASSUME DurableInit PROVE ReviewInv
  OBVIOUS
<1>1. /\ status = "requested"
      /\ \A w \in Workers : job[w].at = "idle"
      /\ \A c \in Callers : req[c].op = "none"
  BY DEF DurableInit, Init, IdleJob, IdleReq
<1> QED
  BY <1>1 DEF ReviewInv, Closing

-----------------------------------------------------------------------------
(* The researchers' steps a run ends with.                                  *)

Done == {r \in Researchers : step[r] = "completed"}
Submitters == {w \in Workers : job[w].at = "submit"}
UnderReview == status = "reviewing" \/ step[Reviewer] \in {"active", "completed"}

\* That a completed run has a completed researcher is not inductive either: a
\* revision reopens one, and the next review starts when any worker submits.
\* Every worker about to submit has completed a step of its own, and a review
\* under way is owed one more, which only a revision takes back.
DoneInv ==
  /\ Cardinality(Done) >= Cardinality(Submitters) + (IF UnderReview THEN 1 ELSE 0)
  /\ status = "completed" => Done # {}

\* Only finitely many researchers and workers take part in a run.
LEMMA DoneFinite ==
  /\ IsFiniteSet(Done) /\ Cardinality(Done) \in Nat
  /\ IsFiniteSet(Submitters) /\ Cardinality(Submitters) \in Nat
  /\ IsFiniteSet(Done') /\ Cardinality(Done') \in Nat
  /\ IsFiniteSet(Submitters') /\ Cardinality(Submitters') \in Nat
<1>1. /\ Done \subseteq Researchers /\ Done' \subseteq Researchers
      /\ Submitters \subseteq Workers /\ Submitters' \subseteq Workers
  BY DEF Done, Submitters
<1>2. IsFiniteSet(Researchers) /\ IsFiniteSet(Workers)
  BY FiniteAssumption
<1>3. /\ IsFiniteSet(Done) /\ IsFiniteSet(Submitters)
      /\ IsFiniteSet(Done') /\ IsFiniteSet(Submitters')
  BY <1>1, <1>2, FS_Subset
<1> QED
  BY <1>3, FS_CardinalityType

\* Most steps reopen no researcher, submit nothing and start no review.
Steady ==
  /\ \A r \in Researchers : step[r] = "completed" => step'[r] = "completed"
  /\ \A w \in Workers : job'[w].at = "submit" => job[w].at = "submit"
  /\ UnderReview' => UnderReview
  /\ status' = "completed" => status = "completed"

\* A steady step owes no more completed steps than before.
LEMMA SteadyKeeps ==
  ASSUME DoneInv, Steady
  PROVE  DoneInv'
<1>1. Done \subseteq Done' /\ Submitters' \subseteq Submitters
  BY DEF Done, Submitters, Steady
<1>2. Cardinality(Done) <= Cardinality(Done')
  BY <1>1, DoneFinite, FS_Subset
<1>3. Cardinality(Submitters') <= Cardinality(Submitters)
  BY <1>1, DoneFinite, FS_Subset
<1>4. Cardinality(Done') >= Cardinality(Submitters') + (IF UnderReview' THEN 1 ELSE 0)
  BY <1>2, <1>3, DoneFinite DEF DoneInv, Steady
<1>5. status' = "completed" => Done' # {}
  BY <1>1 DEF DoneInv, Steady
<1> QED
  BY <1>4, <1>5 DEF DoneInv

\* A worker that completes its step is one more about to submit.
LEMMA StepDone ==
  ASSUME DurableShape, HeldInv, DoneInv, NEW w \in Workers,
         Ends(w, "complete", "submit"), CompleteStep(job[w].r)
  PROVE  DoneInv'
<1> USE StepsAssumption
<1>0. /\ TypeOK /\ JobShape /\ Researchers \subseteq Steps \ {Reviewer}
      /\ Reviewer \in Steps /\ job[w].r \in Researchers
      /\ job[w].at = "complete"
  BY DEF DurableShape, Shape, JobShape, AtResearcher, Ends, Steps
<1>1. /\ \A s \in Steps \ {job[w].r} : step'[s] = step[s]
      /\ step[job[w].r] = "active" /\ step'[job[w].r] = "completed"
      /\ status' = status
  BY <1>0 DEF CompleteStep, CanComplete, TypeOK
<1>2. Done' = Done \cup {job[w].r} /\ job[w].r \notin Done
  BY <1>0, <1>1 DEF Done
<1>3. Submitters' = Submitters \cup {w} /\ w \notin Submitters
  BY <1>0, Jumped DEF Submitters, Ends
<1>4. UnderReview' <=> UnderReview
  BY <1>0, <1>1 DEF UnderReview
<1>5. /\ Cardinality(Done') = Cardinality(Done) + 1
      /\ Cardinality(Submitters') = Cardinality(Submitters) + 1
  BY <1>2, <1>3, DoneFinite, FS_AddElement
<1>6. Cardinality(Done') >= Cardinality(Submitters') + (IF UnderReview' THEN 1 ELSE 0)
  BY <1>4, <1>5, DoneFinite DEF DoneInv
<1>7. status' = "completed" => Done' # {}
  BY <1>2
<1> QED
  BY <1>6, <1>7 DEF DoneInv

\* A worker that submits pays with its own completed step for the review.
LEMMA ReviewStarted ==
  ASSUME DurableShape, DoneInv, NEW w \in Workers,
         Ends(w, "submit", "return"), TransitionRun("reviewing")
  PROVE  DoneInv'
<1>1. Done' = Done /\ status' = "reviewing"
  BY DEF Done, TransitionRun
<1>2. Submitters' = Submitters \ {w} /\ w \in Submitters
  BY Jumped DEF DurableShape, Shape, Submitters, Ends
<1>3. Cardinality(Submitters') = Cardinality(Submitters) - 1
  BY <1>2, DoneFinite, FS_RemoveElement
<1>4. Cardinality(Done') >= Cardinality(Submitters') + (IF UnderReview' THEN 1 ELSE 0)
  BY <1>1, <1>3, DoneFinite DEF DoneInv
<1> QED
  BY <1>1, <1>4 DEF DoneInv

\* A revision and an exception take back the step the review was owed.
LEMMA ReviewTakenBack ==
  ASSUME DurableShape, DoneInv, NEW r \in Researchers,
         \A w \in Workers : job'[w].at = "submit" => job[w].at = "submit",
         RequestRevision(r) \/ AuthorizeExceptionRevision(r)
  PROVE  DoneInv'
<1> USE StepsAssumption
<1>0. TypeOK /\ Researchers \subseteq Steps \ {Reviewer} /\ Reviewer \in Steps
  BY DEF DurableShape, Steps
<1>1. /\ step' = [step EXCEPT ![r] = "pending", ![Reviewer] = "pending"]
      /\ step[r] = "completed" /\ step[Reviewer] \in {"active", "completed"}
      /\ status' = "executing"
  BY DEF RequestRevision, CanRevise, AuthorizeExceptionRevision, CanGrantException
<1>2. Done' = Done \ {r} /\ r \in Done
  <2>1. step'[r] = "pending" /\ \A q \in Researchers \ {r} : step'[q] = step[q]
    BY <1>0, <1>1 DEF TypeOK
  <2> QED
    BY <1>1, <2>1 DEF Done
<1>3. UnderReview /\ ~UnderReview'
  BY <1>0, <1>1 DEF UnderReview, TypeOK
<1>4. Submitters' \subseteq Submitters
  BY DEF Submitters
<1>5. /\ Cardinality(Done') = Cardinality(Done) - 1
      /\ Cardinality(Submitters') <= Cardinality(Submitters)
  BY <1>2, <1>4, DoneFinite, FS_RemoveElement, FS_Subset
<1>6. Cardinality(Done') >= Cardinality(Submitters') + (IF UnderReview' THEN 1 ELSE 0)
  BY <1>3, <1>5, DoneFinite DEF DoneInv
<1> QED
  BY <1>1, <1>6 DEF DoneInv

\* What a worker does is steady, or it completes its step, submits, closes the
\* run or requests a revision.
LEMMA WorkSteady ==
  ASSUME DurableShape, HeldInv, NEW w \in Workers, Work(w)
  PROVE  \/ Steady
         \/ Ends(w, "complete", "submit") /\ CompleteStep(job[w].r)
         \/ Ends(w, "submit", "return") /\ TransitionRun("reviewing")
         \/ Ends(w, "close", "return") /\ TransitionRun("completed")
         \/ /\ Ends(w, "revision_requested", "return")
            /\ \E r \in Researchers : RequestRevision(r)
<1> USE StepsAssumption
<1> DEFINE KeepJobs == \A v \in Workers : job'[v].at = "submit" => job[v].at = "submit"
           KeepStore ==
             /\ \A r \in Researchers : step[r] = "completed" => step'[r] = "completed"
             /\ UnderReview' => UnderReview
             /\ status' = "completed" => status = "completed"
<1>0. /\ TypeOK /\ JobShape /\ OneWorkerPerStep /\ UNCHANGED req
      /\ Reviewer \in Steps /\ Researchers \subseteq Steps \ {Reviewer}
      /\ job[w].at \in AtResearcher => job[w].r \in Researchers
  BY DEF DurableShape, Shape, JobShape, HeldInv, Work, Steps
<1>1. UNCHANGED storeVars => KeepStore
  BY DEF storeVars, UnderReview
<1>2. ASSUME KeepJobs, KeepStore PROVE Steady
  BY <1>2 DEF Steady
<1>3. ASSUME Raise(w) \/ (\E s : Return(w, s)) PROVE Steady
  <2>1. UNCHANGED storeVars /\ job' = [job EXCEPT ![w] = IdleJob]
    BY <1>3 DEF Raise, Return, End
  <2>2. job'[w].at = "idle" /\ \A v \in Workers \ {w} : job'[v] = job[v]
    BY <1>0, <2>1 DEF JobShape, IdleJob
  <2> QED
    BY <1>1, <1>2, <2>1, <2>2
<1>4. ASSUME NEW next, Jump(w, next), next # "submit" PROVE KeepJobs
  BY <1>0, <1>4, Jumped
<1>5. ASSUME NEW next \in {"executing", "failed", "needs_attention"}, TransitionRun(next)
      PROVE  KeepStore
  BY <1>5 DEF TransitionRun, UnderReview
<1>6. ASSUME UNCHANGED <<status, step>> PROVE KeepStore
  BY <1>6 DEF UnderReview
<1> HIDE DEF KeepJobs, KeepStore
<1>7. CASE \/ ValidateExecute(w) \/ ValidateReview(w) \/ ValidateEscalate(w)
           \/ Begin(w) \/ Gate(w) \/ Search(w) \/ Extract(w)
  BY <1>7, <1>1, <1>2, <1>3, <1>4
     DEF ValidateExecute, ValidateReview, ValidateEscalate, Begin, Gate, Search,
         Extract, Read
<1>8. CASE Enter(w) \/ Abort(w) \/ HandOver(w) \/ Halt(w)
  BY <1>8, <1>2, <1>3, <1>4, <1>5 DEF Enter, Abort, HandOver, Halt, Attempt
<1>9. CASE Activate(w) \/ Fail(w)
  <2>1. CASE Raise(w)
    BY <2>1, <1>3
  <2>2. CASE ~Raise(w)
    <3>1. job[w].r \in Researchers
      BY <1>0, <1>9 DEF Activate, Fail, Attempt, AtResearcher
    <3>2. step[job[w].r] # "completed"
      <4>1. CASE Fail(w)
        BY <1>0, <4>1 DEF Fail, Attempt, OneWorkerPerStep, Holds
      <4>2. CASE Activate(w)
        BY <2>2, <4>2 DEF Activate, Attempt, CanActivate
      <4> QED
        BY <1>9, <4>1, <4>2
    <3>3. /\ \A s \in Steps \ {job[w].r} : step'[s] = step[s]
          /\ status' = status
      <4>1. ActivateStep(job[w].r, "executing") \/ FailStep(job[w].r)
        BY <1>9, <2>2 DEF Activate, Fail, Attempt
      <4> QED
        BY <1>0, <4>1 DEF ActivateStep, FailStep, TypeOK
    <3>4. KeepStore
      BY <1>0, <3>1, <3>2, <3>3 DEF KeepStore, UnderReview
    <3>5. Jump(w, "search") \/ Jump(w, "abort") \/ Raise(w)
      BY <1>9 DEF Activate, Fail, Attempt
    <3> QED
      BY <1>2, <1>3, <1>4, <3>4, <3>5
  <2> QED
    BY <2>1, <2>2
<1>10. CASE Remember(w) \/ Unresolved(w) \/ Flag(w)
  BY <1>10, <1>2, <1>4, <1>6 DEF Remember, Unresolved, Flag, Attempt, RecordSource, RecordEvent
<1>11. CASE Pick(w) \/ Look(w)
  <2>1. CASE Raise(w)
    BY <2>1, <1>3
  <2>2. CASE UNCHANGED storeVars /\ \E r \in Researchers, d \in Verdicts :
               \/ job' = [job EXCEPT ![w].at = "activate", ![w].r = r]
               \/ job' = [job EXCEPT ![w].at = "seat", ![w].r = r, ![w].verdict = d]
    <3>1. /\ job'[w].at \in {"activate", "seat"}
          /\ \A v \in Workers \ {w} : job'[v] = job[v]
      BY <1>0, <2>2 DEF JobShape
    <3> QED
      BY <1>1, <1>2, <2>2, <3>1 DEF KeepJobs
  <2>3. \A r \in Planned : r \in Researchers /\ Decision(r) \in Verdicts
    BY DEF Planned, Decision, Verdicts
  <2>4. "accepted" \in Verdicts
    BY DEF Verdicts
  <2> QED
    BY <1>11, <2>1, <2>2, <2>3, <2>4 DEF Pick, Look
<1>12. CASE Seat(w)
  <2>1. CASE Raise(w)
    BY <2>1, <1>3
  <2>2. CASE ActivateStep(Reviewer, "reviewing") /\ Jump(w, job[w].verdict)
    <3>1. job[w].verdict \in Verdicts
      BY <1>0, <1>12 DEF Seat, Attempt, JobShape
    <3>2. KeepStore
      BY <1>0, <2>2 DEF ActivateStep, CanActivate, TypeOK, KeepStore, UnderReview
    <3> QED
      BY <1>2, <1>4, <2>2, <3>1, <3>2 DEF Verdicts
  <2> QED
    BY <1>12, <2>1, <2>2 DEF Seat, Attempt
<1>13. CASE Accept(w) \/ Unseat(w)
  <2>1. CASE Raise(w)
    BY <2>1, <1>3
  <2>2. CASE CompleteStep(Reviewer) /\ (Jump(w, "close") \/ Jump(w, "hand_over"))
    <3>1. KeepStore
      BY <1>0, <2>2 DEF CompleteStep, CanComplete, TypeOK, KeepStore, UnderReview
    <3> QED
      BY <1>2, <1>4, <2>2, <3>1
  <2> QED
    BY <1>13, <2>1, <2>2 DEF Accept, Unseat, Attempt
<1>14. CASE Complete(w) \/ Submit(w) \/ Close(w)
  BY <1>14, <1>0, <1>3 DEF Complete, Submit, Close, Attempt, Ends
<1>15. CASE Revise(w)
  <2>1. job[w].r \in Researchers
    BY <1>0, <1>15 DEF Revise, Attempt, AtResearcher
  <2> QED
    BY <1>15, <2>1, <1>0, <1>3 DEF Revise, Attempt, Ends
<1>16. CASE Report(w)
  BY <1>16, <1>3 DEF Report
<1> QED
  BY <1>7, <1>8, <1>9, <1>10, <1>11, <1>12, <1>13, <1>14, <1>15, <1>16 DEF Work

\* No step of the runtime loses what a completed run rests on.
LEMMA DoneStep ==
  DurableShape /\ BudgetInv /\ HeldInv /\ DoneInv /\ [DurableNext]_vars => DoneInv'
<1> SUFFICES ASSUME DurableShape, BudgetInv, HeldInv, DoneInv, [DurableNext]_vars
             PROVE  DoneInv'
  OBVIOUS
<1> USE StepsAssumption
<1>0. /\ TypeOK /\ JobShape /\ WorkflowShape /\ Drafted
      /\ Reviewer \in Steps /\ Researchers \subseteq Steps \ {Reviewer}
  BY DEF DurableShape, Shape, HeldInv, Steps
<1>1. ASSUME UNCHANGED job, UNCHANGED step,
             status' \notin {"reviewing", "completed"} \/ status' = status
      PROVE  DoneInv'
  BY <1>1, SteadyKeeps DEF Steady, UnderReview
<1>2. CASE \/ UNCHANGED vars \/ StartPlanning \/ Expire \/ SlowTimeout \/ LostTimeout
  BY <1>1, <1>2 DEF vars, storeVars, procVars, StartPlanning, TransitionRun, Expire,
                    ExpireSources, SlowTimeout, LostTimeout
<1>3. CASE StorePlan
  <2>1. PICK plan \in SUBSET Researchers : MaterializePlan(plan) /\ UNCHANGED job
    BY <1>3 DEF StorePlan, procVars
  <2>2. status' = "awaiting_approval" /\ step'[Reviewer] = "pending"
    BY <1>0, <2>1 DEF MaterializePlan
  <2>3. \A r \in Researchers : step[r] # "completed"
    BY <2>1 DEF MaterializePlan, BudgetInv
  <2> QED
    BY <2>1, <2>2, <2>3, SteadyKeeps DEF Steady, UnderReview
<1>4. ASSUME NEW w \in Workers, Poll(w) \/ CallDirectly(w) PROVE DoneInv'
  <2>1. UNCHANGED storeVars
    BY <1>4 DEF Poll, CallDirectly
  <2>2. PICK next \in {"validate_execute", "validate_review", "validate_escalate",
                       "begin", "look"} : Jump(w, next)
    BY <1>0, <1>4 DEF Poll, CallDirectly, WorkflowShape, Activities
  <2> QED
    BY <1>0, <2>1, <2>2, Jumped, SteadyKeeps DEF Steady, UnderReview, storeVars
<1>5. ASSUME NEW w \in Workers, Crash(w) \/ Outage(w) PROVE DoneInv'
  <2>1. UNCHANGED storeVars /\ job' = [job EXCEPT ![w] = IdleJob]
    BY <1>5 DEF Crash, Outage, Raise, End
  <2>2. job'[w].at = "idle" /\ \A v \in Workers \ {w} : job'[v] = job[v]
    BY <1>0, <2>1 DEF JobShape, IdleJob
  <2> QED
    BY <2>1, <2>2, SteadyKeeps DEF Steady, UnderReview, storeVars
<1>6. ASSUME NEW w \in Workers, Work(w) PROVE DoneInv'
  <2>1. ASSUME Ends(w, "close", "return"), TransitionRun("completed") PROVE DoneInv'
    <3>1. UnderReview /\ ~(status' = "reviewing") /\ UNCHANGED step
      BY <1>0, <2>1 DEF TransitionRun, CanTransition, ALLOWED_TRANSITIONS, TypeOK,
                        Statuses, UnderReview
    <3>2. Submitters' \subseteq Submitters /\ Done' = Done
      BY <1>0, <2>1, <3>1, Jumped DEF Submitters, Done, Ends
    <3>3. Cardinality(Submitters') <= Cardinality(Submitters)
      BY <3>2, DoneFinite, FS_Subset
    <3>4. Cardinality(Done') >= Cardinality(Submitters') + 1
      BY <3>1, <3>2, <3>3, DoneFinite DEF DoneInv
    <3>5. Done' # {}
      BY <3>4, DoneFinite, FS_EmptySet
    <3>6. Cardinality(Done') >= Cardinality(Submitters') + (IF UnderReview' THEN 1 ELSE 0)
      BY <3>4, DoneFinite
    <3> QED
      BY <3>5, <3>6 DEF DoneInv
  <2>2. ASSUME Ends(w, "revision_requested", "return"),
               NEW r \in Researchers, RequestRevision(r)
        PROVE  DoneInv'
    <3>1. \A v \in Workers : job'[v].at = "submit" => job[v].at = "submit"
      BY <1>0, <2>2, Jumped DEF Ends
    <3> QED
      BY <2>2, <3>1, ReviewTakenBack
  <2> QED
    BY <1>6, <2>1, <2>2, WorkSteady, SteadyKeeps, StepDone, ReviewStarted
<1>7. ASSUME NEW c \in Callers, Serve(c) PROVE DoneInv'
  <2>1. CASE GrantRevision(c)
    <3>1. PICK r \in Researchers : UNCHANGED storeVars \/ AuthorizeExceptionRevision(r)
      BY <2>1 DEF GrantRevision, Write, Planned
    <3>2. UNCHANGED job
      BY <1>7 DEF Serve
    <3> QED
      BY <1>1, <3>1, <3>2, ReviewTakenBack DEF storeVars
  <2>2. CASE ~GrantRevision(c)
    <3>1. UNCHANGED job /\ UNCHANGED step
          /\ status' \in {status, "rejected", "cancelled"}
      BY <1>7, <2>2 DEF Serve, ReadStatus, ReadEvents, Check, Approve, Reject, MarkClosed,
         Cancel, MarkScheduled, Write, StartWorkflow, SignalCancel, TransitionRun,
         RecordEvent, storeVars
    <3> QED
      BY <1>1, <3>1
  <2> QED
    BY <2>1, <2>2
<1>8. ASSUME NEW c \in Callers, Abandon(c) \/ \E op \in Ops : Ask(c, op) PROVE DoneInv'
  BY <1>1, <1>8 DEF Abandon, Ask, storeVars
<1> QED
  BY <1>2, <1>3, <1>4, <1>5, <1>6, <1>7, <1>8 DEF DurableNext

\* In a new run no step is done and none is owed.
LEMMA DoneInit == DurableInit => StartInv /\ DoneInv
<1> SUFFICES ASSUME DurableInit PROVE StartInv /\ DoneInv
  OBVIOUS
<1>1. /\ status = "requested" /\ \A w \in Workers : job[w].at = "idle"
      /\ \A r \in Researchers : attempts[r] = 0
      /\ step[Reviewer] \notin {"active", "completed"}
  BY StepsAssumption DEF DurableInit, Init, IdleJob, Steps
<1>2. Submitters = {} /\ ~UnderReview
  BY <1>1 DEF Submitters, UnderReview
<1>3. Cardinality(Done) \in Nat /\ Cardinality(Submitters) = 0
  BY <1>2, DoneFinite, FS_EmptySet
<1> QED
  BY <1>1, <1>2, <1>3 DEF StartInv, DoneInv

\* How a run ended agrees with what its steps went through, however late its
\* workers, stale its requests and frequent its faults are.
THEOREM EndsAgree == DurableSpec => []EndAgreesWithSteps
<1>1. DurableShape /\ StartInv /\ ReviewInv /\ DoneInv => EndAgreesWithSteps
  <2> SUFFICES ASSUME DurableShape, StartInv, ReviewInv, DoneInv
               PROVE  EndAgreesWithSteps
    OBVIOUS
  <2>1. status = "completed" => \E r \in Researchers : step[r] = "completed"
    BY DEF DoneInv, Done
  <2>2. status = "completed" =>
          step[Reviewer] = "completed" \/ (Flagged /\ Granted > 1)
    BY DEF ReviewInv, DurableShape, TypeOK, EventTypes, Granted
  <2> QED
    BY <2>1, <2>2 DEF EndAgreesWithSteps, StartInv, Unstarted, Flagged, Granted
<1>2. DurableSpec => [](DurableShape /\ BudgetInv /\ HeldInv)
  BY Held
<1>3. DurableSpec => []StartInv
  BY <1>2, DoneInit, StartStep, PTL DEF DurableSpec
<1>4. DurableSpec => []ReviewInv
  BY <1>2, ReviewInit, ReviewStep, PTL DEF DurableSpec
<1>5. DurableSpec => []DoneInv
  BY <1>2, DoneInit, DoneStep, PTL DEF DurableSpec
<1> QED
  BY <1>1, <1>2, <1>3, <1>4, <1>5, PTL

-----------------------------------------------------------------------------
(* The verdict and what it was based on.                                    *)

\* CompletedOnProvenance is not inductive: it takes who is about to complete
\* the run, and on what verdict.  The reviewer decided on a source reference
\* that may expire before the run is closed, but that there was one is never
\* undone.
ProvenanceInv ==
  /\ CompletedOnProvenance
  /\ \A w \in Workers :
       /\ job[w].verdict = "accepted" => sources # "none"
       /\ job[w].at \in {"accepted", "close"} => job[w].verdict = "accepted"

\* No transaction forgets that a source reference was recorded.
LEMMA ProvenanceStays ==
  ASSUME [Next]_storeVars, sources # "none"
  PROVE  sources' # "none"
BY DEF Next, storeVars, TransitionRun, MaterializePlan, CreateHandoff, ActivateStep,
       CompleteStep, FailStep, RequestRevision, AuthorizeExceptionRevision, RecordEvent,
       RecordSource, ExpireSources

\* An activity takes one verdict, on the sources it sees, and acts on it alone.
VerdictKept(w) ==
  /\ job'[w].verdict = job[w].verdict
  /\ job'[w].at \in {"accepted", "close"} =>
       \/ job[w].at = "seat" /\ job'[w].at = job[w].verdict
       \/ job[w].at = "accepted"

VerdictTaken(w) ==
  /\ job'[w].at = "seat" /\ UNCHANGED sources
  /\ job'[w].verdict = "accepted" => sources # "none"

Starts == {"begin", "look", "validate_execute", "validate_review", "validate_escalate"}

LEMMA VerdictStep ==
  ASSUME JobShape, WorkflowShape, [DurableNext]_vars, NEW w \in Workers
  PROVE  job'[w] = job[w] \/ job'[w] = IdleJob \/ VerdictKept(w) \/ VerdictTaken(w)
<1> DEFINE Goal == job'[w] = job[w] \/ job'[w] = IdleJob \/ VerdictKept(w) \/ VerdictTaken(w)
<1>1. ASSUME NEW v \in Workers, job' = [job EXCEPT ![v] = IdleJob] PROVE Goal
  BY <1>1 DEF JobShape
<1>2. ASSUME NEW v \in Workers, NEW next, Jump(v, next),
             next \in {"accepted", "close"} =>
               (job[v].at = "seat" /\ next = job[v].verdict) \/ job[v].at = "accepted"
      PROVE  Goal
  BY <1>2, Jumped DEF VerdictKept
<1>3. ASSUME NEW v \in Workers, Work(v) PROVE Goal
  <2>1. ASSUME Raise(v) \/ \E s : Return(v, s) PROVE Goal
    BY <1>1, <2>1 DEF Raise, Return, End
  <2>2. CASE Pick(v) \/ Look(v)
    <3>1. ASSUME NEW r, job' = [job EXCEPT ![v].at = "activate", ![v].r = r] PROVE Goal
      BY <3>1 DEF JobShape, VerdictKept
    <3>2. ASSUME NEW r, UNCHANGED storeVars,
                 job' = [job EXCEPT ![v].at = "seat", ![v].r = r, ![v].verdict = Decision(r)]
          PROVE  Goal
      <4>1. Decision(r) = "accepted" => sources # "none"
        BY DEF Decision
      <4>2. CASE v = w
        <5>1. job'[w].at = "seat" /\ job'[w].verdict = Decision(r)
          BY <3>2, <4>2 DEF JobShape
        <5> QED
          BY <3>2, <4>1, <5>1 DEF VerdictTaken, storeVars
      <4>3. CASE v # w
        BY <3>2, <4>3 DEF JobShape
      <4> QED
        BY <4>2, <4>3
    <3> QED
      BY <2>1, <2>2, <3>1, <3>2 DEF Pick, Look
  <2>3. CASE \/ Enter(v) \/ Submit(v) \/ HandOver(v) \/ Halt(v) \/ Revise(v) \/ Abort(v)
             \/ Close(v) \/ Activate(v) \/ Remember(v) \/ Complete(v) \/ Fail(v)
             \/ Unresolved(v) \/ Unseat(v) \/ Flag(v)
    BY <2>1, <2>3, <1>2 DEF Enter, Submit, HandOver, Halt, Revise, Abort, Close,
       Activate, Remember, Complete, Fail, Unresolved, Unseat, Flag, Attempt
  <2>4. CASE Seat(v) \/ Accept(v)
    BY <2>1, <2>4, <1>2 DEF Seat, Accept, Attempt
  <2>5. CASE \/ ValidateExecute(v) \/ ValidateReview(v) \/ ValidateEscalate(v)
             \/ Begin(v) \/ Gate(v) \/ Search(v) \/ Extract(v) \/ Report(v)
    BY <2>1, <2>5, <1>2 DEF ValidateExecute, ValidateReview, ValidateEscalate, Begin,
       Gate, Search, Extract, Report, Read
  <2> QED
    BY <1>3, <2>2, <2>3, <2>4, <2>5 DEF Work
<1>4. ASSUME NEW v \in Workers, Poll(v) \/ CallDirectly(v) \/ Crash(v) \/ Outage(v)
      PROVE  Goal
  <2>1. CASE Poll(v)
    <3>1. \E next \in Starts : Jump(v, next)
      BY <2>1 DEF Poll, WorkflowShape, Activities, Starts
    <3> QED
      BY <1>2, <3>1 DEF Starts
  <2>2. CASE CallDirectly(v)
    BY <2>2, <1>2 DEF CallDirectly
  <2>3. CASE Crash(v) \/ Outage(v)
    BY <2>3, <1>1 DEF Crash, Outage, Raise, End
  <2> QED
    BY <1>4, <2>1, <2>2, <2>3
<1>5. CASE UNCHANGED job
  BY <1>5
<1> QED
  BY <1>3, <1>4, <1>5 DEF DurableNext, vars, procVars, StartPlanning, StorePlan, Expire,
     SlowTimeout, LostTimeout, Serve, Abandon, Ask

\* Whoever is about to complete the run has a verdict based on a source.
LEMMA ProvenanceStep ==
  DurableShape /\ ProvenanceInv /\ [DurableNext]_vars => ProvenanceInv'
<1> SUFFICES ASSUME DurableShape, ProvenanceInv, [DurableNext]_vars
             PROVE  ProvenanceInv'
  OBVIOUS
<1>0. JobShape /\ WorkflowShape /\ [Next]_storeVars
  BY StoreStep DEF DurableShape, Shape
<1>1. sources # "none" => sources' # "none"
  BY <1>0, ProvenanceStays
<1>2. CompletedOnProvenance'
  <2>1. CASE status' = "completed" /\ status # "completed"
    <3>1. PICK w \in Workers : Reaches(w, "close", "completed")
      BY <1>0, <2>1, WhoEnds DEF Reaches
    <3> QED
      BY <1>1, <3>1 DEF Reaches, ProvenanceInv, CompletedOnProvenance
  <2> QED
    BY <1>1, <2>1 DEF ProvenanceInv, CompletedOnProvenance
<1>3. ASSUME NEW w \in Workers
      PROVE  /\ job'[w].verdict = "accepted" => sources' # "none"
             /\ job'[w].at \in {"accepted", "close"} => job'[w].verdict = "accepted"
  <2>1. CASE job'[w] = job[w]
    BY <1>1, <2>1 DEF ProvenanceInv
  <2>2. CASE job'[w] = IdleJob
    BY <2>2 DEF IdleJob
  <2>3. CASE VerdictKept(w)
    <3>1. job[w].verdict # "close"
      BY <1>0 DEF JobShape, Verdicts
    <3> QED
      BY <1>1, <2>3, <3>1 DEF VerdictKept, ProvenanceInv
  <2>4. CASE VerdictTaken(w)
    BY <2>4 DEF VerdictTaken
  <2> QED
    BY <1>0, <2>1, <2>2, <2>3, <2>4, VerdictStep
<1> QED
  BY <1>2, <1>3 DEF ProvenanceInv

\* However old the reviewer's verdict is when it takes effect, a run is
\* completed only if a governed source reference was recorded for it.
THEOREM CompletedWithSource == DurableSpec => []CompletedOnProvenance
<1>1. DurableInit => ProvenanceInv
  BY DEF DurableInit, Init, IdleJob, ProvenanceInv, CompletedOnProvenance
<1>2. ProvenanceInv => CompletedOnProvenance
  BY DEF ProvenanceInv
<1> QED
  BY <1>1, <1>2, DurableShaped, ProvenanceStep, PTL DEF DurableSpec

-----------------------------------------------------------------------------
(* The inductive invariant: where the workflow and its activity are tells   *)
(* what the run's status, its steps and its attempts are, as long as one    *)
(* failure at most has struck and no operator has reopened the run.         *)

\* Nothing has happened that the property excludes, and the run goes on.
Orderly == OneFailure /\ events[ExceptionGranted] = 0 /\ status \notin Terminal

Waiting == status = "needs_attention"

\* The researcher waits for its next attempt, after n of them.
Ready(n) ==
  /\ step[Reviewer] = "pending"
  /\ \A r \in Planned : step[r] = "pending" /\ attempts[r] = n

\* The researcher has completed its n-th attempt.
Ran(n, reviewer) ==
  /\ step[Reviewer] = reviewer
  /\ \A r \in Planned : step[r] = "completed" /\ attempts[r] = n

\* The labels of the activities.
LabelsOf(at) ==
  CASE at = "execute"  -> {"validate_execute", "begin", "gate", "enter", "pick",
                           "activate", "search", "extract", "remember", "complete",
                           "submit", "fail", "abort", "return"}
    [] at = "review"   -> {"validate_review", "look", "seat", "accepted", "close",
                           "revision_requested", "needs_attention", "unseat",
                           "hand_over", "return"}
    [] at = "escalate" -> {"validate_escalate", "flag", "halt", "return"}
    [] OTHER -> {}

\* Where the awaited activity is: not begun, lost, or at a label of its worker.
Here == IF wf.task \in Workers THEN job[wf.task].at ELSE wf.task

NotStarted ==
  /\ status \in {"requested", "planning", "awaiting_approval"}
  /\ status = "awaiting_approval" => Ready(0)

\* A revision is requested only while the store still grants it.
Revisable(w) ==
  job[w].r \in Planned /\ wf.round < 2

Executing ==
  /\ Here \in {"queued", "validate_execute"} =>
       \/ Waiting
       \/ status \in {"awaiting_approval", "executing"} /\ Ready(wf.round - 1)
  /\ Here = "begin" =>
       status \in {"awaiting_approval", "executing"} /\ Ready(wf.round - 1)
  /\ Here \in {"gate", "enter"} => status = "awaiting_approval" /\ Ready(wf.round - 1)
  /\ Here \in {"pick", "activate"} => status = "executing" /\ Ready(wf.round - 1)
  /\ Here = "activate" => job[wf.task].r \in Planned
  /\ Here \in AtWork =>
       /\ status = "executing" /\ step[Reviewer] = "pending"
       /\ \A r \in Planned : attempts[r] = wf.round
  /\ Here = "submit" => status = "executing" /\ Ran(wf.round, "pending")
  /\ Here = "abort" => status = "executing"
  /\ Here = "return" => status = "reviewing" /\ Ran(wf.round, "pending")
  /\ Here = "lost" => FaultCount = 1

Reviewing ==
  /\ Here \in {"queued", "validate_review", "look", "seat"} =>
       status = "reviewing" /\ Ran(wf.round, "pending")
  /\ Here = "seat" /\ job[wf.task].verdict = "revision_requested" => Revisable(wf.task)
  /\ Here \in AtReview => status = "reviewing" /\ Ran(wf.round, "active")
  /\ Here = "revision_requested" => Revisable(wf.task)
  /\ Here \in {"close", "hand_over"} => status = "reviewing"
  /\ Here = "return" =>
       Waiting \/ (status = "executing" /\ Ready(wf.round) /\ wf.round < 2)
  /\ Here = "lost" => FaultCount = 1

Escalating ==
  /\ Here \in {"queued", "validate_escalate"} => Waiting \/ FaultCount = 1
  /\ Here \in {"flag", "halt"} => FaultCount = 1
  /\ Here \in {"return", "lost"} => Waiting

OnTrack ==
  /\ wf.at = "none" => NotStarted
  /\ wf.at = "execute" => Executing
  /\ wf.at = "review" => Reviewing
  /\ wf.at = "escalate" => Escalating
  /\ wf.at = "closed" => Waiting

\* No worker but the one the workflow waits for is at work.
Solo == \A w \in Workers : job[w].at # "idle" => wf.task = w

\* The awaited worker is at its activity.
AtActivity == wf.task \in Workers => job[wf.task].at \in LabelsOf(wf.at)

\* The workflow, and a request about to start it, come after the plan.
PlanFirst ==
  /\ wf.at # "none" => status \notin {"requested", "planning"}
  /\ \A c \in Callers : req[c].op = "schedule" /\ req[c].i > 1 =>
       status \notin {"requested", "planning"}

\* The workflow is interrupted only once the run is cancelled.
CancelFirst == \A c \in Callers : req[c].op = "cancel" /\ req[c].i = 4 => status = "cancelled"

EscalationInv ==
  /\ AtActivity /\ PlanFirst /\ CancelFirst
  /\ Orderly => Solo /\ OnTrack

-----------------------------------------------------------------------------
(* What every step keeps, orderly or not.                                   *)

\* A worker's step ends its activity or goes on to a label of the same one.
LEMMA Onward ==
  ASSUME JobShape, NEW w \in Workers, Work(w)
  PROVE  \/ Raise(w) \/ \E s : Return(w, s)
         \/ /\ UNCHANGED wf
            /\ \A v \in Workers \ {w} : job'[v] = job[v]
            /\ \A at \in Activities : job[w].at \in LabelsOf(at) => job'[w].at \in LabelsOf(at)
<1> DEFINE Goal == /\ UNCHANGED wf
                   /\ \A v \in Workers \ {w} : job'[v] = job[v]
                   /\ \A at \in Activities :
                        job[w].at \in LabelsOf(at) => job'[w].at \in LabelsOf(at)
<1>1. ASSUME NEW next, Jump(w, next), UNCHANGED wf,
             \/ /\ job[w].at \in LabelsOf("execute") \ {"return"}
                /\ next \in LabelsOf("execute")
             \/ /\ job[w].at \in LabelsOf("review") \ {"return"}
                /\ next \in LabelsOf("review")
             \/ /\ job[w].at \in LabelsOf("escalate") \ {"return"}
                /\ next \in LabelsOf("escalate")
      PROVE  Goal
  BY <1>1, Jumped DEF LabelsOf, Activities
<1>2. CASE ValidateExecute(w) \/ ValidateReview(w) \/ ValidateEscalate(w) \/ Begin(w) \/ Gate(w)
  BY <1>1, <1>2 DEF ValidateExecute, ValidateReview, ValidateEscalate, Begin, Gate, Read, LabelsOf
<1>3. CASE Search(w) \/ Extract(w)
  BY <1>1, <1>3 DEF Search, Extract, Read, LabelsOf
<1>4. CASE Enter(w) \/ Activate(w) \/ Remember(w) \/ Complete(w) \/ Submit(w) \/ Fail(w) \/ Abort(w)
  BY <1>1, <1>4 DEF Enter, Activate, Remember, Complete, Submit, Fail, Abort, Attempt, LabelsOf
<1>5. CASE Accept(w) \/ Close(w) \/ Revise(w) \/ Unresolved(w) \/ Unseat(w) \/ HandOver(w)
  BY <1>1, <1>5 DEF Accept, Close, Revise, Unresolved, Unseat, HandOver, Attempt, LabelsOf
<1>6. CASE Flag(w) \/ Halt(w)
  BY <1>1, <1>6 DEF Flag, Halt, Attempt, LabelsOf
<1>7. CASE Seat(w)
  <2>1. job[w].verdict \in {"accepted", "revision_requested", "needs_attention"}
    BY <1>7 DEF Seat, Attempt, JobShape, Verdicts
  <2> QED
    BY <1>1, <1>7, <2>1 DEF Seat, Attempt, LabelsOf
<1>8. CASE Pick(w)
  <2>1. ASSUME NEW r \in Researchers, UNCHANGED wf,
               job' = [job EXCEPT ![w].at = "activate", ![w].r = r]
        PROVE  Goal
    <3>1. job'[w].at = "activate" /\ \A v \in Workers \ {w} : job'[v] = job[v]
      BY <2>1 DEF JobShape
    <3>2. job[w].at = "pick"
      BY <1>8 DEF Pick
    <3>3. /\ "activate" \in LabelsOf("execute") /\ "pick" \notin LabelsOf("review")
          /\ "pick" \notin LabelsOf("escalate")
      BY DEF LabelsOf
    <3> QED
      BY <2>1, <3>1, <3>2, <3>3 DEF Activities
  <2> QED
    BY <1>8, <2>1 DEF Pick
<1>9. CASE Look(w)
  <2>1. PICK r \in Planned :
          job' = [job EXCEPT ![w].at = "seat", ![w].r = r, ![w].verdict = Decision(r)]
    BY <1>9 DEF Look
  <2>2. job'[w].at = "seat" /\ \A v \in Workers \ {w} : job'[v] = job[v]
    BY <2>1 DEF JobShape
  <2> QED
    BY <1>9, <2>2 DEF Look, LabelsOf, Activities
<1>10. CASE Report(w)
  BY <1>10 DEF Report
<1> QED
  BY <1>2, <1>3, <1>4, <1>5, <1>6, <1>7, <1>8, <1>9, <1>10 DEF Work

\* What follows the end of an activity is not yet in any worker's hands.
LEMMA Unassigned ==
  ASSUME WorkflowShape,
         wf' = AfterFailure \/ (\E s : wf' = AfterResult(s))
           \/ (wf.task # "none" /\ wf' = [wf EXCEPT !.task = "lost"])
  PROVE  wf'.task \in {"none", "queued", "lost"} /\ wf'.task \notin Workers
<1>0. wf \in [at : Activities \cup {"none", "closed"}, round : 0 .. MaxResearchAttempts,
             task : Workers \cup {"none", "queued", "lost"}]
  BY DEF WorkflowShape
<1>1. wf'.task \in {"none", "queued", "lost"}
  <2>1. Closed.task = "none" /\ \A a, n : Await(a, n).task = "queued"
    BY <1>0 DEF Closed, Await
  <2>2. [wf EXCEPT !.task = "lost"].task = "lost"
    BY <1>0
  <2>3. AfterFailure.task \in {"none", "queued"}
    BY <2>1 DEF AfterFailure
  <2>4. ASSUME NEW s PROVE AfterResult(s).task \in {"none", "queued"}
    BY <2>1 DEF AfterResult
  <2> QED
    BY <2>2, <2>3, <2>4
<1> QED
  BY <1>1, WorkersAssumption

\* An activity that ends is the awaited one, or changes nothing for it.
LEMMA EndActivity ==
  ASSUME JobShape, WorkflowShape, AtActivity, NEW w \in Workers,
         \/ End(w, AfterFailure)
         \/ \E s : End(w, AfterResult(s))
         \/ End(w, [wf EXCEPT !.task = "lost"])
  PROVE  AtActivity'
<1>1. /\ job' = [job EXCEPT ![w] = IdleJob] /\ w # "none"
      /\ \A v \in Workers \ {w} : job'[v] = job[v]
  BY WorkersAssumption DEF End, JobShape
<1>2. CASE wf.task = w
  <2>1. wf' = AfterFailure \/ (\E s : wf' = AfterResult(s))
           \/ (wf.task # "none" /\ wf' = [wf EXCEPT !.task = "lost"])
    BY <1>1, <1>2 DEF End
  <2> QED
    BY <2>1, Unassigned DEF AtActivity
<1>3. CASE wf.task # w
  <2>1. wf' = wf
    BY <1>3 DEF End
  <2> QED
    BY <1>1, <1>3, <2>1 DEF AtActivity
<1> QED
  BY <1>2, <1>3

\* The awaited worker stays at its activity until it ends.
LEMMA ActivityStep ==
  ASSUME JobShape, WorkflowShape, AtActivity, [DurableNext]_vars
  PROVE  AtActivity'
<1>1. CASE UNCHANGED job /\ (UNCHANGED wf \/ wf'.task \in {"none", "queued", "lost"})
  BY <1>1, WorkersAssumption DEF AtActivity
<1>2. CASE UNCHANGED vars \/ StartPlanning \/ StorePlan \/ Expire
  BY <1>1, <1>2 DEF vars, procVars, StartPlanning, StorePlan, Expire
<1>3. CASE SlowTimeout \/ LostTimeout
  BY <1>1, <1>3, Unassigned DEF SlowTimeout, LostTimeout
<1>4. ASSUME NEW w \in Workers, Poll(w) PROVE AtActivity'
  <2>1. wf.at \in Activities /\ wf' = [wf EXCEPT !.task = w]
    BY <1>4 DEF Poll, WorkflowShape
  <2>2. wf'.at = wf.at /\ wf'.task = w
    BY <2>1 DEF WorkflowShape
  <2>3. \/ wf.at = "execute" /\ Jump(w, "validate_execute")
        \/ wf.at = "review" /\ Jump(w, "validate_review")
        \/ wf.at = "escalate" /\ Jump(w, "validate_escalate")
    BY <1>4, <2>1 DEF Poll, Activities
  <2> QED
    BY <2>2, <2>3, Jumped DEF AtActivity, LabelsOf
<1>5. ASSUME NEW w \in Workers, CallDirectly(w) PROVE AtActivity'
  <2>1. PICK first \in {"begin", "look"} : Jump(w, first)
    BY <1>5 DEF CallDirectly
  <2>2. UNCHANGED wf /\ job[w].at = "idle"
    BY <1>5 DEF CallDirectly
  <2>3. wf.task # w
    BY <2>2 DEF AtActivity, LabelsOf
  <2> QED
    BY <2>1, <2>2, <2>3, Jumped DEF AtActivity
<1>6. ASSUME NEW w \in Workers, Work(w) PROVE AtActivity'
  <2>1. CASE Raise(w) \/ \E s : Return(w, s)
    BY <2>1, EndActivity DEF Raise, Return
  <2>2. CASE ~(Raise(w) \/ \E s : Return(w, s))
    <3>1. wf.task \in Workers => wf.at \in Activities
      BY WorkersAssumption DEF WorkflowShape
    <3> QED
      BY <1>6, <2>2, <3>1, Onward DEF AtActivity
  <2> QED
    BY <2>1, <2>2
<1>7. ASSUME NEW w \in Workers, Crash(w) \/ Outage(w) PROVE AtActivity'
  BY <1>7, EndActivity DEF Crash, Outage, Raise
<1>8. ASSUME NEW c \in Callers, Serve(c) PROVE AtActivity'
  <2>1. /\ UNCHANGED job
        /\ wf' = wf \/ wf' = Await("execute", 1) \/ wf' = AfterFailure
    BY <1>8 DEF Serve, ReadStatus, ReadEvents, Check, Approve, Reject, GrantRevision,
       MarkClosed, Cancel, MarkScheduled, Write, StartWorkflow, SignalCancel
  <2>2. wf' = Await("execute", 1) => wf'.task = "queued"
    BY DEF Await
  <2> QED
    BY <1>1, <2>1, <2>2, Unassigned
<1>9. ASSUME NEW c \in Callers, Abandon(c) \/ \E op \in Ops : Ask(c, op) PROVE AtActivity'
  BY <1>1, <1>9 DEF Abandon, Ask
<1> QED
  BY <1>2, <1>3, <1>4, <1>5, <1>6, <1>7, <1>8, <1>9 DEF DurableNext

\* A run that has a plan never loses it.
LEMMA PlannedOnce ==
  ASSUME TypeOK, [Next]_storeVars
  PROVE  /\ status \notin {"requested", "planning"} => status' \notin {"requested", "planning"}
         /\ status \in Terminal => status' = status
         /\ Planned \subseteq Planned'
<1> USE StepsAssumption
<1> DEFINE Goal == /\ status \notin {"requested", "planning"} => status' \notin {"requested", "planning"}
                   /\ status \in Terminal => status' = status
                   /\ Planned \subseteq Planned'
<1>0. Reviewer \in Steps /\ Researchers \subseteq Steps \ {Reviewer}
  BY DEF Steps
<1>1. ASSUME NEW next \in TransitionTargets, TransitionRun(next) PROVE Goal
  BY <1>1 DEF TransitionRun, CanTransition, ALLOWED_TRANSITIONS, TransitionTargets,
              TypeOK, Statuses, Terminal, Planned
<1>2. ASSUME NEW plan \in SUBSET Researchers, MaterializePlan(plan) PROVE Goal
  <2>1. \A s \in Steps : step'[s] = step[s] \/ step'[s] \in {"pending", "completed"}
    BY <1>2 DEF MaterializePlan
  <2> QED
    BY <1>0, <1>2, <2>1 DEF MaterializePlan, Terminal, Planned
<1>3. ASSUME NEW s \in Steps,
             \/ ActivateStep(s, "executing") \/ ActivateStep(s, "reviewing")
             \/ CompleteStep(s) \/ FailStep(s)
      PROVE  Goal
  <2>1. \A t \in Steps : step[t] # "absent" => step'[t] # "absent"
    BY <1>3 DEF ActivateStep, CompleteStep, FailStep, TypeOK
  <2>2. status' = status
    BY <1>3 DEF ActivateStep, CompleteStep, FailStep
  <2> QED
    BY <1>0, <2>1, <2>2 DEF Planned
<1>4. ASSUME NEW r \in Researchers, RequestRevision(r) \/ AuthorizeExceptionRevision(r)
      PROVE  Goal
  <2>1. \A t \in Steps : step[t] # "absent" => step'[t] # "absent"
    BY <1>4 DEF RequestRevision, AuthorizeExceptionRevision, TypeOK
  <2>2. status' = "executing" /\ status \in {"reviewing", "needs_attention"}
    BY <1>4 DEF RequestRevision, CanRevise, AuthorizeExceptionRevision, CanGrantException
  <2> QED
    BY <1>0, <2>1, <2>2 DEF Planned, Terminal
<1>5. CASE \/ \E s, t \in Steps : CreateHandoff(s, t)
           \/ \E e \in EventTypes : RecordEvent(e)
           \/ RecordSource \/ ExpireSources \/ UNCHANGED storeVars
  BY <1>5 DEF CreateHandoff, RecordEvent, RecordSource, ExpireSources, storeVars, Planned
<1> QED
  BY <1>0, <1>1, <1>2, <1>3, <1>4, <1>5 DEF Next

\* Requests move one stage at a time.
LEMMA RequestsMove ==
  ASSUME RequestShape, [DurableNext]_vars
  PROVE  \/ UNCHANGED req
         \/ \E c \in Callers :
              /\ \A d \in Callers \ {c} : req'[d] = req[d]
              /\ \/ req'[c].i = 1
                 \/ Serve(c) /\ Advance(c)
                      /\ req'[c].op = req[c].op /\ req'[c].i = req[c].i + 1
<1>1. ASSUME NEW c \in Callers, Serve(c)
      PROVE  /\ \A d \in Callers \ {c} : req'[d] = req[d]
             /\ \/ req'[c].i = 1
                \/ Serve(c) /\ Advance(c)
                     /\ req'[c].op = req[c].op /\ req'[c].i = req[c].i + 1
  <2>1. Advance(c) \/ Drop(c)
    BY <1>1 DEF Serve, ReadStatus, ReadEvents, Check, Approve, Reject, GrantRevision,
         MarkClosed, Cancel, MarkScheduled, Write, StartWorkflow, SignalCancel
  <2> QED
    BY <1>1, <2>1, RequestStep DEF IdleReq
<1>2. ASSUME NEW c \in Callers, Abandon(c) \/ \E op \in Ops : Ask(c, op)
      PROVE  req'[c].i = 1 /\ \A d \in Callers \ {c} : req'[d] = req[d]
  BY <1>2 DEF Abandon, Ask, Drop, IdleReq, RequestShape
<1>3. ASSUME \/ UNCHANGED vars \/ StartPlanning \/ StorePlan \/ Expire
             \/ SlowTimeout \/ LostTimeout
             \/ \E w \in Workers :
                  Poll(w) \/ CallDirectly(w) \/ Work(w) \/ Crash(w) \/ Outage(w)
      PROVE  UNCHANGED req
  BY <1>3 DEF vars, procVars, StartPlanning, StorePlan, Expire, SlowTimeout,
     LostTimeout, Poll, CallDirectly, Work, Crash, Outage
<1> QED
  BY <1>1, <1>2, <1>3 DEF DurableNext

\* The stages a request passes that matter to the workflow.
LEMMA StagesPassed ==
  ASSUME RequestShape, NEW c \in Callers, Serve(c), Advance(c), req'[c].op = req[c].op,
         req'[c].i = req[c].i + 1
  PROVE  /\ req[c].op = "schedule" /\ req[c].i = 1 => status = "awaiting_approval"
         /\ req[c].op = "cancel" /\ req[c].i = 3 => status' = "cancelled"
         /\ req[c].op \in {"schedule", "cancel"} => req[c].i \in Nat
<1>0. /\ req'[c] # IdleReq => ~Drop(c)
      /\ req[c].i \in Nat
  BY DEF Drop, RequestShape
<1>1. ASSUME req[c].op = "schedule", req[c].i = 1
      PROVE  status = "awaiting_approval"
  <2>1. Stages["schedule"] = <<"status", "events", "mark_scheduled", "status", "start">>
    BY DEF Stages
  <2>2. Stage(c) = "status"
    BY <1>1, <2>1 DEF Stage, IdleReq
  <2>3. ReadStatus(c)
    BY <2>2 DEF Serve, ReadStatus, ReadEvents, Check, Approve, Reject, GrantRevision,
       MarkClosed, Cancel, MarkScheduled, Write, StartWorkflow, SignalCancel
  <2>4. req'[c].i = 2
    BY <1>1
  <2>5. ~Drop(c)
    BY <1>0, <2>4 DEF IdleReq
  <2> QED
    BY <1>1, <2>3, <2>5 DEF ReadStatus, Check, StatusGate
<1>2. ASSUME req[c].op = "cancel", req[c].i = 3
      PROVE  status' = "cancelled"
  <2>1. Stages["cancel"] = <<"events", "status", "cancel", "signal">>
    BY DEF Stages
  <2>2. Stage(c) = "cancel"
    BY <1>2, <2>1 DEF Stage, IdleReq
  <2>3. Cancel(c)
    BY <2>2 DEF Serve, ReadStatus, ReadEvents, Check, Approve, Reject, GrantRevision,
       MarkClosed, Cancel, MarkScheduled, Write, StartWorkflow, SignalCancel
  <2>4. req'[c].i = 4
    BY <1>2
  <2>5. ~Drop(c)
    BY <1>0, <2>4 DEF IdleReq
  <2> QED
    BY <2>3, <2>5 DEF Cancel, Write, TransitionRun
<1> QED
  BY <1>0, <1>1, <1>2

\* The workflow is started after the plan, and interrupted after the
\* cancellation.
LEMMA OrderStep ==
  ASSUME DurableShape, PlanFirst, CancelFirst, [DurableNext]_vars
  PROVE  PlanFirst' /\ CancelFirst'
<1>0. TypeOK /\ JobShape /\ WorkflowShape /\ RequestShape /\ [Next]_storeVars
  BY StoreStep DEF DurableShape, Shape
<1>1. /\ status \notin {"requested", "planning"} => status' \notin {"requested", "planning"}
      /\ status \in Terminal => status' = status
  BY <1>0, PlannedOnce
<1>2. ASSUME NEW c \in Callers, req'[c].op = "schedule", req'[c].i > 1
      PROVE  status' \notin {"requested", "planning"}
  <2>1. CASE req'[c] = req[c]
    BY <1>1, <1>2, <2>1 DEF PlanFirst
  <2>2. CASE Serve(c) /\ Advance(c) /\ req'[c].op = req[c].op /\ req'[c].i = req[c].i + 1
    <3>1. req[c].i \in Nat /\ req[c].i # 0
      <4>1. req[c].op \in Ops /\ req[c].i \in DOMAIN Stages[req[c].op]
        BY <1>0, <1>2, <2>2 DEF RequestShape, IdleReq
      <4> QED
        BY <4>1, StageTable
    <3>2. req[c].i = 1 => status = "awaiting_approval"
      BY <1>0, <1>2, <2>2, StagesPassed
    <3> QED
      BY <1>1, <1>2, <2>2, <3>1, <3>2 DEF PlanFirst
  <2> QED
    BY <1>0, <1>2, <2>1, <2>2, RequestsMove
<1>3. ASSUME NEW c \in Callers, req'[c].op = "cancel", req'[c].i = 4
      PROVE  status' = "cancelled"
  <2>1. CASE req'[c] = req[c]
    BY <1>1, <1>3, <2>1 DEF CancelFirst, Terminal
  <2>2. CASE Serve(c) /\ Advance(c) /\ req'[c].op = req[c].op /\ req'[c].i = req[c].i + 1
    <3>1. req[c].i = 3
      BY <1>0, <1>3, <2>2 DEF RequestShape
    <3> QED
      BY <1>0, <1>3, <2>2, <3>1, StagesPassed
  <2> QED
    BY <1>0, <1>3, <2>1, <2>2, RequestsMove
<1>4. ASSUME wf'.at # "none" PROVE status' \notin {"requested", "planning"}
  <2>1. CASE wf.at # "none"
    BY <1>1, <2>1 DEF PlanFirst
  <2>2. CASE wf.at = "none"
    <3>0. wf.task = "none"
      BY <1>0, <2>2 DEF WorkflowShape, Activities
    <3>1. PICK c \in Callers : StartWorkflow(c)
      <4>1. ASSUME NEW w \in Workers,
                   Poll(w) \/ CallDirectly(w) \/ Work(w) \/ Crash(w) \/ Outage(w)
            PROVE  UNCHANGED wf
        <5>1. wf.task # w
          BY <3>0, WorkersAssumption
        <5>2. CASE Work(w)
          BY <1>0, <5>1, <5>2, Onward DEF Raise, Return, End
        <5> QED
          BY <3>0, <4>1, <5>1, <5>2 DEF Poll, CallDirectly, Crash, Outage, Raise, End
      <4>2. ASSUME NEW c \in Callers, Serve(c), ~StartWorkflow(c) PROVE UNCHANGED wf
        BY <2>2, <4>2 DEF Serve, ReadStatus, ReadEvents, Check, Approve, Reject,
           GrantRevision, MarkClosed, Cancel, MarkScheduled, Write, SignalCancel
      <4>3. ~SlowTimeout /\ ~LostTimeout
        BY <3>0, WorkersAssumption DEF SlowTimeout, LostTimeout
      <4>4. ASSUME \/ UNCHANGED vars \/ StartPlanning \/ StorePlan \/ Expire
                   \/ \E c \in Callers : Abandon(c) \/ \E op \in Ops : Ask(c, op)
            PROVE  UNCHANGED wf
        BY <4>4 DEF vars, procVars, StartPlanning, StorePlan, Expire, Abandon, Ask
      <4> QED
        BY <1>4, <2>2, <4>1, <4>2, <4>3, <4>4 DEF DurableNext
    <3>2. req[c].op = "schedule" /\ req[c].i = 5
      BY <1>0, <3>1, StageFacts, StageTable DEF StartWorkflow
    <3> QED
      BY <1>1, <3>2 DEF PlanFirst
  <2> QED
    BY <2>1, <2>2
<1> QED
  BY <1>2, <1>3, <1>4 DEF PlanFirst, CancelFirst

-----------------------------------------------------------------------------
(* Orderly runs.                                                            *)

\* Faults are never forgotten.
LEMMA FaultsKept ==
  ASSUME FaultsTyped, [DurableNext]_vars
  PROVE  /\ FaultCount \in Nat /\ FaultCount' \in Nat
         /\ faults'["timeout"] = 0 => faults["timeout"] = 0
         /\ FaultCount' >= FaultCount
         /\ (\E kind : Fault(kind)) => FaultCount' > FaultCount
         /\ SlowTimeout => faults'["timeout"] # 0
<1> DEFINE Goal == /\ FaultCount' \in Nat
                   /\ faults'["timeout"] = 0 => faults["timeout"] = 0
                   /\ FaultCount' >= FaultCount
                   /\ (\E kind : Fault(kind)) => FaultCount' > FaultCount
                   /\ SlowTimeout => faults'["timeout"] # 0
<1>1. /\ MaxFaults \in Nat /\ Faults \subseteq FaultKinds
      /\ faults["crash"] \in Nat /\ faults["outage"] \in Nat /\ faults["timeout"] \in Nat
  BY FaultAssumption DEF FaultsTyped, FaultKinds
<1>2. FaultCount \in Nat
  BY <1>1 DEF FaultCount
<1>3. ASSUME NEW kind, Fault(kind)
      PROVE  /\ FaultCount' = FaultCount + 1
             /\ faults'["timeout"] \in {faults["timeout"], faults["timeout"] + 1}
             /\ kind = "timeout" => faults'["timeout"] = faults["timeout"] + 1
  <2>1. kind \in {"crash", "outage", "timeout"} /\ faults' = [faults EXCEPT ![kind] = @ + 1]
    BY <1>1, <1>3 DEF Fault, FaultKinds
  <2>2. faults \in [{"crash", "outage", "timeout"} -> 0 .. MaxFaults]
    BY DEF FaultsTyped, FaultKinds
  <2> QED
    BY <1>1, <2>1, <2>2 DEF FaultCount
<1>4. ASSUME UNCHANGED faults, ~SlowTimeout, \A kind : ~Fault(kind) PROVE Goal
  BY <1>2, <1>4 DEF FaultCount
<1>5. CASE \E kind : Fault(kind)
  <2>1. SlowTimeout => Fault("timeout")
    BY DEF SlowTimeout
  <2>2. SlowTimeout => faults'["timeout"] = faults["timeout"] + 1
    BY <2>1, <1>3
  <2>3. FaultCount' = FaultCount + 1 /\ faults'["timeout"] \in {faults["timeout"], faults["timeout"] + 1}
    BY <1>5, <1>3
  <2> QED
    BY <1>1, <1>2, <2>2, <2>3
<1>6. CASE \A kind : ~Fault(kind)
  <2>1. ~SlowTimeout /\ \A w \in Workers : ~Crash(w) /\ ~Outage(w)
    BY <1>6 DEF SlowTimeout, Crash, Outage
  <2>2. UNCHANGED faults
    BY <2>1 DEF DurableNext, vars, procVars, StartPlanning, StorePlan, Expire,
       LostTimeout, Poll, CallDirectly, Work, Serve, Abandon, Ask
  <2> QED
    BY <1>2, <1>4, <1>6, <2>1, <2>2
<1>7. (\E kind : Fault(kind)) \/ (\A kind : ~Fault(kind))
  OBVIOUS
<1>8. Goal
  BY <1>5, <1>6, <1>7
<1> QED
  BY <1>2, <1>8

\* A run that is orderly was so before.
LEMMA OrderlyBack ==
  ASSUME DurableShape, [DurableNext]_vars, Orderly'
  PROVE  Orderly
<1>0. TypeOK /\ JobShape /\ FaultsTyped /\ [Next]_storeVars
  BY StoreStep DEF DurableShape, Shape
<1>1. events[ExceptionGranted] = 0
  <2>1. ExceptionGranted \in EventTypes /\ events[ExceptionGranted] \in Nat
    BY <1>0 DEF TypeOK, EventTypes
  <2>2. ~(events'[ExceptionGranted] > 0)
    BY DEF Orderly
  <2> QED
    BY <1>0, <2>1, <2>2, EventsKept
<1>2. status \notin Terminal /\ \A q, r \in Planned : q = r
  BY <1>0, PlannedOnce DEF Orderly, OneFailure
<1>3. FaultCount <= 1 /\ faults["timeout"] = 0
  BY <1>0, FaultsKept DEF Orderly, OneFailure
<1> QED
  BY <1>1, <1>2, <1>3 DEF Orderly, OneFailure

\* A worker at work is the one the workflow waits for, and is alone.
LEMMA Alone ==
  ASSUME Solo, NEW w \in Workers, job[w].at # "idle"
  PROVE  wf.task = w /\ \A v \in Workers \ {w} : job[v].at = "idle"
BY DEF Solo

\* Only a worker that is at work takes a step.
LEMMA Busy ==
  ASSUME NEW w \in Workers, Work(w)
  PROVE  job[w].at # "idle"
BY DEF Work, Begin, Gate, Enter, Pick, Activate, Search, Extract, Remember,
       Complete, Submit, Fail, Abort, ValidateExecute, ValidateReview, Look, Seat,
       Accept, Close, Revise, Unresolved, Unseat, HandOver, ValidateEscalate, Flag,
       Halt, Report, Attempt, Read

\* The signal is the last stage of a cancellation.
LEMMA SignalLast ==
  ASSUME RequestShape, NEW c \in Callers, SignalCancel(c)
  PROVE  req[c].op = "cancel" /\ req[c].i = 4
<1>1. /\ Stages["approve"] = <<"status", "events", "approve">>
      /\ Stages["reject"] = <<"status", "reject">>
      /\ Stages["revise"] = <<"status", "events", "grant">>
      /\ Stages["close"] = <<"status", "mark_closed", "cancel">>
      /\ Stages["cancel"] = <<"events", "status", "cancel", "signal">>
      /\ Stages["schedule"] = <<"status", "events", "mark_scheduled", "status", "start">>
      /\ Ops = {"approve", "reject", "revise", "close", "cancel", "schedule"}
  BY DEF Stages, Ops
<1>2. Stage(c) = "signal"
  BY DEF SignalCancel
<1> QED
  BY <1>1, <1>2, StageFacts

\* In an orderly run nobody works beside the awaited worker.
LEMMA SoloStep ==
  ASSUME DurableShape, CancelFirst, Orderly, Orderly', Solo, [DurableNext]_vars
  PROVE  Solo'
<1>0. JobShape /\ WorkflowShape /\ RequestShape /\ FaultsTyped
  BY DEF DurableShape, Shape
<1>1. CASE UNCHANGED job /\ (UNCHANGED wf \/ wf.task \notin Workers)
  BY <1>1 DEF Solo
<1>2. ASSUME NEW w \in Workers, job[w].at # "idle", job' = [job EXCEPT ![w] = IdleJob]
      PROVE  Solo'
  <2>1. job'[w].at = "idle" /\ \A v \in Workers \ {w} : job'[v] = job[v]
    BY <1>0, <1>2 DEF JobShape, IdleJob
  <2> QED
    BY <1>2, <2>1, Alone DEF Solo
<1>3. CASE UNCHANGED vars \/ StartPlanning \/ StorePlan \/ Expire
  BY <1>1, <1>3 DEF vars, procVars, StartPlanning, StorePlan, Expire
<1>4. ASSUME NEW w \in Workers, Poll(w) PROVE Solo'
  <2>1. wf.task \notin Workers /\ wf'.task = w
    BY <1>0, <1>4, WorkersAssumption DEF Poll, WorkflowShape
  <2>2. \A v \in Workers \ {w} : job'[v] = job[v]
    BY <1>0, <1>4, Jumped DEF Poll
  <2> QED
    BY <2>1, <2>2 DEF Solo
<1>5. ASSUME NEW w \in Workers, Work(w) PROVE Solo'
  <2>1. job[w].at # "idle"
    BY <1>5, Busy
  <2>2. CASE Raise(w) \/ \E s : Return(w, s)
    BY <1>2, <2>1, <2>2 DEF Raise, Return, End
  <2>3. CASE ~(Raise(w) \/ \E s : Return(w, s))
    <3>1. UNCHANGED wf /\ \A v \in Workers \ {w} : job'[v] = job[v]
      BY <1>0, <1>5, <2>3, Onward
    <3> QED
      BY <2>1, <3>1, Alone DEF Solo
  <2> QED
    BY <2>2, <2>3
<1>6. ASSUME NEW w \in Workers, Crash(w) \/ Outage(w) PROVE Solo'
  BY <1>2, <1>6 DEF Crash, Outage, Raise, End
<1>7. CASE SlowTimeout
  BY <1>0, <1>7, FaultsKept DEF Orderly, OneFailure
<1>8. CASE LostTimeout
  BY <1>1, <1>8, WorkersAssumption DEF LostTimeout
<1>9. ASSUME NEW c \in Callers, Serve(c) PROVE Solo'
  <2>1. CASE StartWorkflow(c)
    <3>1. UNCHANGED wf \/ wf.task = "none"
      BY <1>0, <2>1 DEF StartWorkflow, WorkflowShape, Activities
    <3> QED
      BY <1>1, <1>9, <3>1, WorkersAssumption DEF Serve
  <2>2. CASE SignalCancel(c)
    BY <1>0, <2>2, SignalLast DEF CancelFirst, Orderly, Terminal
  <2>3. CASE ~StartWorkflow(c) /\ ~SignalCancel(c)
    <3>1. UNCHANGED job /\ UNCHANGED wf
      BY <1>9, <2>3 DEF Serve, ReadStatus, ReadEvents, Check, Approve, Reject,
         GrantRevision, MarkClosed, Cancel, MarkScheduled, Write
    <3> QED
      BY <1>1, <3>1
  <2> QED
    BY <2>1, <2>2, <2>3
<1>10. ASSUME NEW c \in Callers, Abandon(c) \/ \E op \in Ops : Ask(c, op) PROVE Solo'
  BY <1>1, <1>10 DEF Abandon, Ask
<1>11. \A w \in Workers : ~CallDirectly(w)
  BY DEF CallDirectly, Orderly, OneFailure
<1> QED
  BY <1>3, <1>4, <1>5, <1>6, <1>7, <1>8, <1>9, <1>10, <1>11 DEF DurableNext

-----------------------------------------------------------------------------
(* Where an orderly run goes from where it is.                              *)

\* What is proved of every state, orderly or not.
Sound ==
  /\ DurableShape /\ BudgetInv /\ HeldInv /\ StartInv
  /\ PlanBehindGate /\ WorkIsApproved

OnCourse == Sound /\ EscalationInv /\ Orderly

\* What an orderly run stands on.
LEMMA Footing ==
  ASSUME OnCourse
  PROVE  /\ TypeOK /\ JobShape /\ WorkflowShape /\ RequestShape /\ FaultsTyped
         /\ Solo /\ OnTrack /\ AtActivity
         /\ Reviewer \in Steps /\ Researchers \subseteq Steps \ {Reviewer}
         /\ Planned \subseteq Researchers /\ \A q, r \in Planned : q = r
         /\ wf.round \in Nat /\ status \in Statuses \ Terminal
         /\ FaultCount \in Nat /\ FaultCount <= 1
<1>1. /\ TypeOK /\ JobShape /\ WorkflowShape /\ RequestShape /\ FaultsTyped
      /\ Solo /\ OnTrack /\ AtActivity
  BY DEF OnCourse, Sound, DurableShape, Shape, EscalationInv
<1>2. Reviewer \in Steps /\ Researchers \subseteq Steps \ {Reviewer}
  BY StepsAssumption DEF Steps
<1>3. Planned \subseteq Researchers /\ \A q, r \in Planned : q = r
  BY DEF OnCourse, Orderly, OneFailure, Planned
<1>4. wf.round \in Nat
  <2>1. wf.round \in 0 .. MaxResearchAttempts /\ MaxResearchAttempts \in Nat
    BY <1>1, BudgetAssumption DEF WorkflowShape
  <2> QED
    BY <2>1
<1>5. status \in Statuses \ Terminal
  BY <1>1 DEF TypeOK, OnCourse, Orderly
<1>6. FaultCount \in Nat /\ FaultCount <= 1
  <2>1. /\ faults["crash"] \in Nat /\ faults["outage"] \in Nat /\ faults["timeout"] \in Nat
    BY <1>1, FaultAssumption DEF FaultsTyped, FaultKinds
  <2>2. FaultCount \in Nat
    BY <2>1 DEF FaultCount
  <2> QED
    BY <2>2 DEF OnCourse, Orderly, OneFailure
<1> QED
  BY <1>1, <1>2, <1>3, <1>4, <1>5, <1>6

\* Steps elsewhere leave the run on track.
LEMMA Undisturbed ==
  ASSUME OnTrack, UNCHANGED <<status, step, attempts, job, wf, faults>>
  PROVE  OnTrack'
<1>1. /\ Here' = Here /\ Planned' = Planned /\ FaultCount' = FaultCount
      /\ Waiting' = Waiting
  BY DEF Here, Planned, FaultCount, Waiting
<1>2. \A n : Ready(n)' = Ready(n) /\ \A v : Ran(n, v)' = Ran(n, v)
  BY <1>1 DEF Ready, Ran
<1>3. \A w : Revisable(w)' = Revisable(w)
  BY <1>1 DEF Revisable
<1>4. NotStarted' = NotStarted /\ Escalating' = Escalating
  BY <1>1, <1>2 DEF NotStarted, Escalating
<1>5. Executing => Executing'
  BY <1>1, <1>2 DEF Executing
<1>6. Reviewing => Reviewing'
  BY <1>1, <1>2, <1>3 DEF Reviewing
<1> QED
  BY <1>1, <1>4, <1>5, <1>6 DEF OnTrack

\* A failure is escalated, or strikes the escalation of a run that waits.
LEMMA Struck ==
  ASSUME WorkflowShape, wf.at \in Activities, wf' = AfterFailure, UNCHANGED status,
         wf.at = "escalate" => Waiting,
         Waiting \/ FaultCount' = 1
  PROVE  OnTrack'
<1>1. CASE wf.at # "escalate"
  <2>1. wf' = [at |-> "escalate", round |-> wf.round, task |-> "queued"]
    BY <1>1 DEF AfterFailure, Await, Activities
  <2>2. wf'.at = "escalate" /\ Here' = "queued"
    BY <2>1, WorkersAssumption DEF Here
  <2> QED
    BY <2>2 DEF OnTrack, Escalating, Waiting
<1>2. CASE wf.at = "escalate"
  <2>1. wf'.at = "closed"
    BY <1>2 DEF AfterFailure, Closed, WorkflowShape
  <2> QED
    BY <1>2, <2>1 DEF OnTrack, Waiting
<1> QED
  BY <1>1, <1>2

\* The awaited worker goes on.
LEMMA Onwards ==
  ASSUME JobShape, NEW w \in Workers, wf.task = w, UNCHANGED wf
  PROVE  /\ Here = job[w].at /\ Here' = job'[w].at
         /\ wf'.task = w /\ wf'.at = wf.at /\ wf'.round = wf.round
BY DEF Here

\* What the steps of the plan have gone through is told by their state.
LEMMA SameSteps ==
  ASSUME UNCHANGED <<step, attempts>>
  PROVE  /\ Planned' = Planned
         /\ \A n : Ready(n)' = Ready(n)
         /\ \A n, v : Ran(n, v)' = Ran(n, v)
<1>1. Planned' = Planned
  BY DEF Planned
<1> QED
  BY <1>1 DEF Ready, Ran

\* A worker that gives up a run that waits has it escalated or closed.
LEMMA GivesUp ==
  ASSUME WorkflowShape, NEW w \in Workers, Raise(w), wf.task = w, Waiting
  PROVE  OnTrack'
<1>1. wf.at \in Activities
  BY WorkersAssumption DEF WorkflowShape
<1> QED
  BY <1>1, Struck DEF Raise, End, storeVars

\* A worker that executes an orderly run.
LEMMA ExecutingStep ==
  ASSUME OnCourse, Orderly', NEW w \in Workers, Work(w), wf.at = "execute"
  PROVE  OnTrack'
<1> USE Footing
<1>0. /\ wf.task = w /\ Here = job[w].at /\ Executing
      /\ job[w].at \in LabelsOf("execute")
  <2>1. wf.task = w
    BY Busy, Alone
  <2> QED
    BY <2>1 DEF OnTrack, Here, AtActivity
<1>1. ASSUME UNCHANGED wf, Executing' PROVE OnTrack'
  BY <1>1 DEF OnTrack
<1>2. ASSUME NEW next, Jump(w, next), UNCHANGED wf
      PROVE  /\ Here' = next /\ job'[w].r = job[w].r
             /\ wf'.task = w /\ wf'.round = wf.round
  BY <1>0, <1>2, Jumped, Onwards
<1>3. UNCHANGED FaultCount
  BY DEF Work, FaultCount
<1>4. Raise(w) /\ Waiting => OnTrack'
  BY <1>0, GivesUp
<1>5. status # "cancelled"
  BY DEF Terminal
<1>6. status \in {"awaiting_approval", "executing"} => Planned # {}
  BY DEF OnCourse, Sound, PlanBehindGate, Planned
<1>7. CASE ValidateExecute(w)
  <2>1. CASE status \in {"awaiting_approval", "executing"}
    <3>1. Jump(w, "begin") /\ UNCHANGED wf /\ UNCHANGED storeVars
      BY <1>5, <1>7, <2>1 DEF ValidateExecute, Read
    <3>2. Ready(wf.round - 1)
      BY <1>0, <1>7, <2>1 DEF Executing, ValidateExecute, Waiting
    <3>3. Ready(wf.round - 1)' /\ Here' = "begin" /\ status' = status
      BY <1>2, <3>1, <3>2, SameSteps DEF storeVars
    <3> QED
      BY <1>1, <2>1, <3>1, <3>3 DEF Executing, AtWork
  <2>2. CASE status \notin {"awaiting_approval", "executing"}
    BY <1>0, <1>4, <1>5, <1>7, <2>2 DEF ValidateExecute, Executing
  <2> QED
    BY <2>1, <2>2
<1>8. CASE Begin(w) \/ Gate(w) \/ Enter(w)
  <2>1. status \in {"awaiting_approval", "executing"} /\ Ready(wf.round - 1)
    BY <1>0, <1>8 DEF Begin, Gate, Enter, Attempt, Executing
  <2>2. ASSUME NEW next \in {"gate", "enter", "pick"}, Jump(w, next), UNCHANGED wf,
               UNCHANGED <<step, attempts>>,
               IF next = "pick" THEN status' = "executing"
                                ELSE status' = "awaiting_approval"
        PROVE  OnTrack'
    <3>1. Here' = next /\ Ready(wf.round - 1)'
      BY <1>2, <2>1, <2>2, SameSteps
    <3> QED
      BY <1>1, <2>2, <3>1 DEF Executing, AtWork
  <2>3. CASE Begin(w)
    BY <2>1, <2>2, <2>3 DEF Begin, Read, storeVars
  <2>4. CASE Gate(w)
    <3>1. status = "awaiting_approval" /\ events[Approved] > 0
      BY <1>0, <2>4 DEF Executing, Gate, OnCourse, Sound, WorkIsApproved
    <3> QED
      BY <2>2, <2>4, <3>1 DEF Gate, Read, storeVars
  <2>5. CASE Enter(w)
    <3>1. status = "awaiting_approval" /\ CanTransition("executing")
      BY <1>0, <2>5 DEF Executing, Enter, Attempt, CanTransition, ALLOWED_TRANSITIONS
    <3> QED
      BY <2>2, <2>5, <3>1 DEF Enter, Attempt, TransitionRun
  <2> QED
    BY <1>8, <2>3, <2>4, <2>5
<1>9. CASE Pick(w)
  <2>1. status = "executing" /\ Ready(wf.round - 1) /\ job[w].at = "pick"
    BY <1>0, <1>9 DEF Executing, Pick
  <2>2. {r \in Researchers : step[r] = "pending"} # {}
    BY <1>6, <2>1 DEF Ready
  <2>3. PICK r \in Planned :
          job' = [job EXCEPT ![w].at = "activate", ![w].r = r] /\ UNCHANGED <<storeVars, wf>>
    BY <1>9, <2>1, <2>2 DEF Pick, Planned
  <2>4. job'[w].at = "activate" /\ job'[w].r = r
    BY <2>3 DEF JobShape
  <2>5. Here' = "activate" /\ wf'.task = w
    BY <1>0, <2>3, <2>4, Onwards
  <2>6. Planned' = Planned /\ Ready(wf.round - 1)' /\ status' = "executing"
    BY <2>1, <2>3, SameSteps DEF storeVars
  <2> QED
    BY <1>1, <2>3, <2>4, <2>5, <2>6 DEF Executing, AtWork
<1>10. CASE Activate(w)
  <2> DEFINE r == job[w].r
  <2>1. status = "executing" /\ Ready(wf.round - 1) /\ r \in Planned
    BY <1>0, <1>10 DEF Executing, Activate, Attempt
  <2>2. CanActivate(r, "executing")
    BY <2>1 DEF CanActivate, Ready
  <2>3. ActivateStep(r, "executing") /\ Jump(w, "search") /\ UNCHANGED wf
    BY <1>10, <2>2 DEF Activate, Attempt
  <2>4. r \in Steps \ {Reviewer} /\ attempts[r] = wf.round - 1
    BY <2>1 DEF Ready
  <2>5. /\ status' = "executing" /\ step'[Reviewer] = "pending"
        /\ attempts'[r] = wf.round /\ step'[r] = "active"
        /\ \A s \in Steps \ {r} : step'[s] = step[s]
    BY <2>1, <2>3, <2>4 DEF ActivateStep, TypeOK, Ready
  <2>6. Planned' = {r}
    BY <2>1, <2>4, <2>5 DEF Planned
  <2>7. Here' = "search" /\ wf'.round = wf.round
    BY <1>2, <2>3
  <2> QED
    BY <1>1, <2>3, <2>5, <2>6, <2>7 DEF Executing, AtWork
<1>11. CASE Search(w) \/ Extract(w) \/ Remember(w) \/ Fail(w)
  <2>1. /\ job[w].at \in AtWork /\ status = "executing" /\ step[Reviewer] = "pending"
        /\ \A r \in Planned : attempts[r] = wf.round
    BY <1>0, <1>11 DEF Executing, AtWork, Search, Extract, Remember, Fail, Attempt, Read
  <2>2. CASE Search(w) \/ Extract(w) \/ Remember(w)
    <3>1. PICK next \in AtWork : Jump(w, next)
      BY <2>2 DEF AtWork, Search, Extract, Remember, Attempt, Read
    <3>2. UNCHANGED <<status, step, attempts, wf>>
      BY <2>2 DEF Search, Extract, Remember, Attempt, Read, RecordSource, storeVars
    <3>3. Here' = next /\ Planned' = Planned /\ wf'.round = wf.round
      BY <1>2, <3>1, <3>2 DEF Planned
    <3> QED
      BY <1>1, <2>1, <3>1, <3>2, <3>3 DEF Executing, AtWork
  <2>3. CASE Fail(w)
    <3>1. Jump(w, "abort") /\ UNCHANGED wf /\ UNCHANGED status
      BY <2>3 DEF Fail, Attempt, FailStep
    <3>2. Here' = "abort"
      BY <1>2, <3>1
    <3> QED
      BY <1>1, <2>1, <3>1, <3>2 DEF Executing, AtWork
  <2> QED
    BY <1>11, <2>2, <2>3
<1>12. CASE Complete(w)
  <2> DEFINE r == job[w].r
  <2>1. /\ job[w].at = "complete" /\ status = "executing" /\ step[Reviewer] = "pending"
        /\ \A q \in Planned : attempts[q] = wf.round
    BY <1>0, <1>12 DEF Executing, AtWork, Complete, Attempt
  <2>2. step[r] = "active" /\ r \in Researchers
    BY <2>1 DEF OnCourse, Sound, HeldInv, OneWorkerPerStep, Holds, JobShape, AtResearcher
  <2>3. CompleteStep(r) /\ Jump(w, "submit") /\ UNCHANGED wf
    BY <1>12, <2>2 DEF Complete, Attempt, CanComplete
  <2>4. /\ UNCHANGED <<status, attempts>> /\ step'[Reviewer] = "pending"
        /\ step'[r] = "completed" /\ \A s \in Steps \ {r} : step'[s] = step[s]
    BY <2>1, <2>2, <2>3 DEF CompleteStep, TypeOK
  <2>5. Planned' = {r} /\ r \in Planned
    BY <2>2, <2>4 DEF Planned
  <2>6. Here' = "submit" /\ wf'.round = wf.round
    BY <1>2, <2>3
  <2>7. Ran(wf.round, "pending")'
    BY <2>1, <2>4, <2>5, <2>6 DEF Ran
  <2> QED
    BY <1>1, <2>1, <2>3, <2>4, <2>6, <2>7 DEF Executing, AtWork
<1>13. CASE Submit(w)
  <2>1. status = "executing" /\ Ran(wf.round, "pending") /\ CanTransition("reviewing")
    BY <1>0, <1>13 DEF Executing, Submit, Attempt, CanTransition, ALLOWED_TRANSITIONS
  <2>2. TransitionRun("reviewing") /\ Jump(w, "return") /\ UNCHANGED wf
    BY <1>13, <2>1 DEF Submit, Attempt
  <2>3. Here' = "return" /\ Ran(wf.round, "pending")' /\ status' = "reviewing"
    BY <1>2, <2>1, <2>2, SameSteps DEF TransitionRun
  <2> QED
    BY <1>1, <2>2, <2>3 DEF Executing, AtWork
<1>14. CASE Abort(w)
  <2>1. CanTransition("failed")
    BY <1>0, <1>14 DEF Executing, Abort, Attempt, CanTransition, ALLOWED_TRANSITIONS
  <2>2. status' = "failed"
    BY <1>14, <2>1 DEF Abort, Attempt, TransitionRun
  <2> QED
    BY <2>2 DEF Orderly, Terminal
<1>15. CASE Report(w)
  <2>1. status = "reviewing" /\ Ran(wf.round, "pending")
    BY <1>0, <1>15 DEF Executing, Report
  <2>2. wf' = Await("review", wf.round) /\ UNCHANGED storeVars
    BY <1>0, <1>15, <2>1 DEF Report, Return, End, AfterResult
  <2>3. wf'.at = "review" /\ wf'.round = wf.round /\ Here' = "queued"
    BY <2>2, WorkersAssumption DEF Await, Here
  <2>4. status' = "reviewing" /\ Ran(wf.round, "pending")'
    BY <2>1, <2>2, <2>3, SameSteps DEF storeVars
  <2> QED
    BY <2>3, <2>4 DEF OnTrack, Reviewing, AtReview
<1>16. job[w].at \notin LabelsOf("review") \cup LabelsOf("escalate") \/ job[w].at = "return"
  BY <1>0 DEF LabelsOf
<1>17. \/ ValidateExecute(w) \/ Begin(w) \/ Gate(w) \/ Enter(w) \/ Pick(w) \/ Activate(w)
       \/ Search(w) \/ Extract(w) \/ Remember(w) \/ Complete(w) \/ Submit(w) \/ Fail(w)
       \/ Abort(w) \/ Report(w)
  BY <1>16 DEF Work, LabelsOf, ValidateReview, Look, Seat, Accept, Close, Revise,
     Unresolved, Unseat, HandOver, ValidateEscalate, Flag, Halt, Attempt
<1> QED
  BY <1>7, <1>8, <1>9, <1>10, <1>11, <1>12, <1>13, <1>14, <1>15, <1>17

\* A worker that reviews an orderly run.
LEMMA ReviewingStep ==
  ASSUME OnCourse, Orderly', NEW w \in Workers, Work(w), wf.at = "review"
  PROVE  OnTrack'
<1> USE Footing
<1>0. /\ wf.task = w /\ Here = job[w].at /\ Reviewing
      /\ job[w].at \in LabelsOf("review")
  <2>1. wf.task = w
    BY Busy, Alone
  <2> QED
    BY <2>1 DEF OnTrack, Here, AtActivity
<1>1. ASSUME UNCHANGED wf, Reviewing' PROVE OnTrack'
  BY <1>1 DEF OnTrack
<1>2. ASSUME NEW next, Jump(w, next), UNCHANGED wf
      PROVE  /\ Here' = next /\ job'[w].r = job[w].r
             /\ wf'.task = w /\ wf'.round = wf.round
  BY <1>0, <1>2, Jumped, Onwards
<1>3. CASE ValidateReview(w)
  <2>1. status = "reviewing" /\ Ran(wf.round, "pending")
    BY <1>0, <1>3 DEF Reviewing, ValidateReview
  <2>2. Jump(w, "look") /\ UNCHANGED wf /\ UNCHANGED storeVars
    BY <1>3, <2>1 DEF ValidateReview, Read
  <2>3. Here' = "look" /\ Ran(wf.round, "pending")' /\ status' = "reviewing"
    BY <1>2, <2>1, <2>2, SameSteps DEF storeVars
  <2> QED
    BY <1>1, <2>2, <2>3 DEF Reviewing, AtReview
<1>4. CASE Look(w)
  <2>1. status = "reviewing" /\ Ran(wf.round, "pending")
    BY <1>0, <1>4 DEF Reviewing, Look
  <2>2. PICK r \in Planned :
          job' = [job EXCEPT ![w].at = "seat", ![w].r = r, ![w].verdict = Decision(r)]
    BY <1>4 DEF Look
  <2>3. job'[w].at = "seat" /\ job'[w].r = r /\ job'[w].verdict = Decision(r)
    BY <2>2 DEF JobShape
  <2>4. UNCHANGED wf /\ UNCHANGED storeVars
    BY <1>4 DEF Look
  <2>5. Here' = "seat" /\ Ran(wf.round, "pending")' /\ status' = "reviewing"
    BY <1>0, <2>1, <2>3, <2>4, SameSteps, Onwards DEF storeVars
  <2>6. Decision(r) = "revision_requested" => wf.round < 2
    BY <2>1 DEF Decision, Ran
  <2>7. job'[w].verdict = "revision_requested" => Revisable(w)'
    BY <2>3, <2>4, <2>6, SameSteps DEF Revisable, storeVars
  <2> QED
    BY <1>0, <1>1, <2>4, <2>5, <2>7 DEF Reviewing, AtReview
<1>5. CASE Seat(w)
  <2>1. /\ status = "reviewing" /\ Ran(wf.round, "pending") /\ job[w].at = "seat"
        /\ job[w].verdict = "revision_requested" => Revisable(w)
    BY <1>0, <1>5 DEF Reviewing, Seat, Attempt
  <2>2. ActivateStep(Reviewer, "reviewing") /\ Jump(w, job[w].verdict) /\ UNCHANGED wf
    BY <1>5, <2>1 DEF Seat, Attempt, CanActivate, Ran
  <2>3. job[w].verdict \in {"accepted", "revision_requested", "needs_attention"}
    BY <2>1 DEF JobShape, Verdicts
  <2>4. /\ status' = "reviewing" /\ step'[Reviewer] = "active"
        /\ \A r \in Researchers : step'[r] = step[r] /\ attempts'[r] = attempts[r]
    BY <2>1, <2>2 DEF ActivateStep, TypeOK
  <2>5. Planned' = Planned
    BY <2>4 DEF Planned
  <2>6. Ran(wf.round, "active")'
    BY <2>1, <2>2, <2>4, <2>5 DEF Ran
  <2>7. Here' = job[w].verdict /\ wf'.task = w
    BY <1>2, <2>2
  <2>8. Here' = "revision_requested" => Revisable(w)'
    BY <1>2, <2>1, <2>2, <2>5, <2>7 DEF Revisable
  <2> QED
    BY <1>1, <2>2, <2>3, <2>4, <2>6, <2>7, <2>8 DEF Reviewing, AtReview
<1>6. ASSUME job[w].at \in AtReview
      PROVE  step[Reviewer] = "active" /\ status = "reviewing" /\ Ran(wf.round, "active")
  BY <1>0, <1>6 DEF Reviewing, Ran
<1>7. CASE Accept(w) \/ Unseat(w)
  <2>1. status = "reviewing" /\ CanComplete(Reviewer)
    BY <1>6, <1>7 DEF Accept, Unseat, Attempt, AtReview, CanComplete
  <2>2. PICK next \in {"close", "hand_over"} :
          CompleteStep(Reviewer) /\ Jump(w, next) /\ UNCHANGED wf
    BY <1>7, <2>1 DEF Accept, Unseat, Attempt
  <2>3. Here' = next /\ status' = "reviewing"
    BY <1>2, <2>1, <2>2 DEF CompleteStep
  <2> QED
    BY <1>1, <2>2, <2>3 DEF Reviewing, AtReview
<1>8. CASE Close(w)
  <2>1. CanTransition("completed")
    BY <1>0, <1>8 DEF Reviewing, Close, Attempt, CanTransition, ALLOWED_TRANSITIONS
  <2>2. status' = "completed"
    BY <1>8, <2>1 DEF Close, Attempt, TransitionRun
  <2> QED
    BY <2>2 DEF Orderly, Terminal
<1>9. CASE Revise(w)
  <2> DEFINE r == job[w].r
  <2>1. /\ status = "reviewing" /\ Ran(wf.round, "active") /\ r \in Planned /\ wf.round < 2
    BY <1>0, <1>6, <1>9 DEF Reviewing, Revise, Attempt, AtReview, Revisable
  <2>2. r \in Steps \ {Reviewer} /\ step[r] = "completed" /\ attempts[r] = wf.round
    BY <2>1 DEF Ran
  <2>3. attempts[r] < MaxResearchAttempts
    BY <2>1, <2>2, ReviewAssumption, BudgetAssumption
  <2>4. CanRevise(r)
    BY <2>1, <2>2, <2>3 DEF CanRevise, Ran
  <2>5. RequestRevision(r) /\ Jump(w, "return") /\ UNCHANGED wf
    BY <1>9, <2>4 DEF Revise, Attempt
  <2>6. /\ status' = "executing" /\ UNCHANGED attempts
        /\ step'[Reviewer] = "pending" /\ step'[r] = "pending"
        /\ \A s \in Steps \ {r, Reviewer} : step'[s] = step[s]
    BY <2>2, <2>5 DEF RequestRevision, TypeOK
  <2>7. Planned' = {r}
    BY <2>1, <2>2, <2>6 DEF Planned
  <2>8. Ready(wf.round)'
    BY <2>2, <2>5, <2>6, <2>7 DEF Ready
  <2>9. Here' = "return" /\ wf'.round = wf.round
    BY <1>2, <2>5
  <2> QED
    BY <1>1, <2>1, <2>5, <2>6, <2>8, <2>9 DEF Reviewing, AtReview
<1>10. CASE Unresolved(w)
  <2>1. status = "reviewing" /\ Ran(wf.round, "active")
    BY <1>6, <1>10 DEF Unresolved, Attempt, AtReview
  <2>2. Jump(w, "unseat") /\ UNCHANGED <<wf, status, step, attempts>>
    BY <1>10 DEF Unresolved, Attempt, RecordEvent
  <2>3. Here' = "unseat" /\ Ran(wf.round, "active")' /\ status' = "reviewing"
    BY <1>2, <2>1, <2>2, SameSteps
  <2> QED
    BY <1>1, <2>2, <2>3 DEF Reviewing, AtReview
<1>11. CASE HandOver(w)
  <2>1. CanTransition("needs_attention")
    BY <1>0, <1>11 DEF Reviewing, HandOver, Attempt, CanTransition, ALLOWED_TRANSITIONS
  <2>2. Jump(w, "return") /\ UNCHANGED wf /\ status' = "needs_attention"
    BY <1>11, <2>1 DEF HandOver, Attempt, TransitionRun
  <2>3. Here' = "return" /\ Waiting'
    BY <1>2, <2>2 DEF Waiting
  <2> QED
    BY <1>1, <2>2, <2>3 DEF Reviewing, AtReview
<1>12. CASE Report(w)
  <2>1. /\ Waiting \/ (status = "executing" /\ Ready(wf.round) /\ wf.round < 2)
        /\ UNCHANGED storeVars /\ wf' = AfterResult(status)
    BY <1>0, <1>12 DEF Reviewing, Report, Return, End
  <2>2. CASE Waiting
    <3>1. wf' = Closed
      BY <1>0, <2>1, <2>2 DEF AfterResult, Waiting
    <3>2. wf'.at = "closed" /\ Waiting'
      BY <2>1, <2>2, <3>1 DEF Closed, Waiting, WorkflowShape, storeVars
    <3> QED
      BY <3>2 DEF OnTrack
  <2>3. CASE status = "executing" /\ Ready(wf.round) /\ wf.round < 2
    <3>1. wf.round < MaxResearchAttempts
      BY <2>3, ReviewAssumption, BudgetAssumption
    <3>2. wf' = Await("execute", wf.round + 1)
      BY <2>1, <2>3, <3>1 DEF AfterResult
    <3>3. /\ wf'.at = "execute" /\ wf'.round = wf.round + 1 /\ Here' = "queued"
          /\ wf'.round - 1 = wf.round
      BY <3>2, WorkersAssumption DEF Await, Here
    <3>4. status' = "executing" /\ Ready(wf.round - 1)'
      BY <2>1, <2>3, <3>3, SameSteps DEF storeVars, Ready
    <3> QED
      BY <3>3, <3>4 DEF OnTrack, Executing, AtWork
  <2> QED
    BY <2>1, <2>2, <2>3
<1>13. \/ ValidateReview(w) \/ Look(w) \/ Seat(w) \/ Accept(w) \/ Close(w) \/ Revise(w)
       \/ Unresolved(w) \/ Unseat(w) \/ HandOver(w) \/ Report(w)
  BY <1>0 DEF Work, LabelsOf, ValidateExecute, Begin, Gate, Enter, Pick, Activate, Search,
     Extract, Remember, Complete, Submit, Fail, Abort, ValidateEscalate, Flag, Halt,
     Attempt, Read
<1> QED
  BY <1>3, <1>4, <1>5, <1>7, <1>8, <1>9, <1>10, <1>11, <1>12, <1>13

\* A worker that escalates an orderly run.
LEMMA EscalatingStep ==
  ASSUME OnCourse, Orderly', NEW w \in Workers, Work(w), wf.at = "escalate"
  PROVE  OnTrack'
<1> USE Footing
<1>0. /\ wf.task = w /\ Here = job[w].at /\ Escalating
      /\ job[w].at \in LabelsOf("escalate")
  <2>1. wf.task = w
    BY Busy, Alone
  <2> QED
    BY <2>1 DEF OnTrack, Here, AtActivity
<1>1. ASSUME UNCHANGED wf, Escalating' PROVE OnTrack'
  BY <1>1 DEF OnTrack
<1>2. ASSUME NEW next, Jump(w, next), UNCHANGED wf PROVE Here' = next
  BY <1>0, <1>2, Jumped, Onwards
<1>3. UNCHANGED FaultCount
  BY DEF Work, FaultCount
<1>4. ASSUME NEW s, Return(w, s), Waiting PROVE OnTrack'
  <2>1. wf' = Closed /\ UNCHANGED storeVars
    BY <1>0, <1>4 DEF Return, End, AfterResult
  <2>2. wf'.at = "closed" /\ Waiting'
    BY <1>4, <2>1 DEF Closed, Waiting, WorkflowShape, storeVars
  <2> QED
    BY <2>2 DEF OnTrack
<1>5. CASE ValidateEscalate(w)
  <2>1. CASE Waiting
    BY <1>4, <1>5, <2>1 DEF ValidateEscalate, Waiting
  <2>2. CASE ~Waiting
    <3>1. FaultCount = 1
      BY <1>0, <1>5, <2>2 DEF Escalating, ValidateEscalate
    <3>2. Jump(w, "flag") /\ UNCHANGED wf
      BY <1>5, <2>2 DEF ValidateEscalate, Read, Waiting
    <3> QED
      BY <1>1, <1>2, <1>3, <3>1, <3>2 DEF Escalating
  <2> QED
    BY <2>1, <2>2
<1>6. CASE Flag(w)
  <2>1. FaultCount = 1 /\ Jump(w, "halt") /\ UNCHANGED wf
    BY <1>0, <1>6 DEF Escalating, Flag, Attempt
  <2> QED
    BY <1>1, <1>2, <1>3, <2>1 DEF Escalating
<1>7. CASE Halt(w)
  <2>1. CASE CanTransition("needs_attention")
    <3>1. Jump(w, "return") /\ UNCHANGED wf /\ Waiting'
      BY <1>7, <2>1 DEF Halt, Attempt, TransitionRun, Waiting
    <3> QED
      BY <1>1, <1>2, <3>1 DEF Escalating
  <2>2. CASE ~CanTransition("needs_attention")
    <3>1. Raise(w)
      BY <1>7, <2>2 DEF Halt, Attempt
    <3>2. status \notin {"requested", "planning"}
      BY DEF OnCourse, EscalationInv, PlanFirst
    <3>3. Waiting
      BY <2>2, <3>2 DEF CanTransition, ALLOWED_TRANSITIONS, Statuses, Terminal, Waiting
    <3> QED
      BY <1>0, <3>1, <3>3, GivesUp
  <2> QED
    BY <2>1, <2>2
<1>8. CASE Report(w)
  BY <1>0, <1>4, <1>8 DEF Report, Escalating
<1>9. ValidateEscalate(w) \/ Flag(w) \/ Halt(w) \/ Report(w)
  BY <1>0 DEF Work, LabelsOf, ValidateExecute, Begin, Gate, Enter, Pick, Activate, Search,
     Extract, Remember, Complete, Submit, Fail, Abort, ValidateReview, Look, Seat, Accept,
     Close, Revise, Unresolved, Unseat, HandOver, Attempt, Read
<1> QED
  BY <1>5, <1>6, <1>7, <1>8, <1>9

\* A worker takes the queued activity.
LEMMA PollingStep ==
  ASSUME OnCourse, NEW w \in Workers, Poll(w)
  PROVE  OnTrack'
<1> USE Footing
<1>1. wf.task = "queued" /\ wf.at \in Activities /\ Here = "queued"
  BY WorkersAssumption DEF Poll, WorkflowShape, Here
<1>2. UNCHANGED <<status, step, attempts, faults>>
  BY DEF Poll, storeVars
<1>3. wf'.at = wf.at /\ wf'.round = wf.round /\ wf'.task = w
  BY DEF Poll, WorkflowShape
<1>4. PICK next : Jump(w, next) /\ next = CASE wf.at = "execute"  -> "validate_execute"
                                            [] wf.at = "review"   -> "validate_review"
                                            [] wf.at = "escalate" -> "validate_escalate"
  BY DEF Poll
<1>5. Here' = next
  BY <1>3, <1>4, Jumped DEF Here
<1>6. Waiting' = Waiting /\ FaultCount' = FaultCount
  BY <1>2 DEF Waiting, FaultCount
<1>7. CASE wf.at = "execute"
  <2>1. next = "validate_execute"
    BY <1>4, <1>7
  <2>2. Waiting \/ (status \in {"awaiting_approval", "executing"} /\ Ready(wf.round - 1))
    BY <1>1, <1>7 DEF OnTrack, Executing
  <2>3. Ready(wf.round - 1) => Ready(wf.round - 1)'
    BY <1>2, <1>3, SameSteps
  <2> QED
    BY <1>2, <1>3, <1>5, <1>6, <1>7, <2>1, <2>2, <2>3 DEF OnTrack, Executing, AtWork
<1>8. CASE wf.at = "review"
  <2>1. next = "validate_review"
    BY <1>4, <1>8
  <2>2. status = "reviewing" /\ Ran(wf.round, "pending")
    BY <1>1, <1>8 DEF OnTrack, Reviewing
  <2>3. Ran(wf.round, "pending")'
    BY <1>2, <1>3, <2>2, SameSteps
  <2> QED
    BY <1>2, <1>3, <1>5, <1>8, <2>1, <2>2, <2>3 DEF OnTrack, Reviewing, AtReview
<1>9. CASE wf.at = "escalate"
  <2>1. next = "validate_escalate"
    BY <1>4, <1>9
  <2> QED
    BY <1>1, <1>3, <1>5, <1>6, <1>9, <2>1 DEF OnTrack, Escalating
<1> QED
  BY <1>1, <1>7, <1>8, <1>9 DEF Activities

\* The one failure strikes, or is noticed.
LEMMA FailureStep ==
  ASSUME OnCourse, Orderly', [DurableNext]_vars,
         LostTimeout \/ \E w \in Workers : Crash(w) \/ Outage(w)
  PROVE  OnTrack'
<1> USE Footing
<1>1. ASSUME NEW w \in Workers, Crash(w) \/ Outage(w)
      PROVE  /\ wf.task = w /\ wf.at \in Activities /\ Here = job[w].at
             /\ FaultCount = 0 /\ FaultCount' = 1
             /\ job[w].at \in LabelsOf(wf.at)
             /\ UNCHANGED status
  <2>1. wf.task = w
    BY <1>1, Alone DEF Crash, Outage
  <2>2. wf.at \in Activities
    BY <2>1, WorkersAssumption DEF WorkflowShape
  <2>3. \E kind : Fault(kind)
    BY <1>1 DEF Crash, Outage
  <2>4. FaultCount' \in Nat /\ FaultCount' > FaultCount /\ FaultCount' <= 1
    BY <2>3, FaultsKept DEF Orderly, OneFailure
  <2> QED
    BY <1>1, <2>1, <2>2, <2>4 DEF Here, AtActivity, Crash, Outage, Raise, storeVars
<1>2. ASSUME NEW w \in Workers, Crash(w) \/ Outage(w), wf.at = "escalate" PROVE Waiting
  BY <1>1, <1>2 DEF OnTrack, Escalating, LabelsOf
<1>3. ASSUME NEW w \in Workers, Crash(w) PROVE OnTrack'
  <2>1. wf' = [wf EXCEPT !.task = "lost"]
    BY <1>1, <1>3 DEF Crash, End
  <2>2. wf'.at = wf.at /\ wf'.task = "lost" /\ Here' = "lost"
    BY <2>1, WorkersAssumption DEF WorkflowShape, Here
  <2>3. FaultCount' = 1 /\ (wf.at = "escalate" => Waiting') /\ wf.at \in Activities
    BY <1>1, <1>2, <1>3 DEF Waiting
  <2> QED
    BY <2>2, <2>3 DEF OnTrack, Executing, Reviewing, Escalating, AtWork, AtReview, Activities
<1>4. ASSUME NEW w \in Workers, Outage(w) PROVE OnTrack'
  <2>1. wf' = AfterFailure
    BY <1>1, <1>4 DEF Outage, Raise, End
  <2> QED
    BY <1>1, <1>2, <1>4, <2>1, Struck
<1>5. CASE LostTimeout
  <2>1. /\ wf.task = "lost" /\ Here = "lost" /\ wf.at \in Activities
        /\ wf' = AfterFailure /\ UNCHANGED status /\ UNCHANGED FaultCount
    BY <1>5, WorkersAssumption DEF LostTimeout, WorkflowShape, Here, storeVars, FaultCount
  <2>2. /\ wf.at = "escalate" => Waiting
        /\ wf.at # "escalate" => FaultCount = 1
    BY <2>1 DEF OnTrack, Executing, Reviewing, Escalating, Activities
  <2> QED
    BY <2>1, <2>2, Struck
<1> QED
  BY <1>3, <1>4, <1>5

\* Requests start the workflow of an orderly run, or leave the run alone.
LEMMA ServingStep ==
  ASSUME OnCourse, Orderly', NEW c \in Callers, Serve(c)
  PROVE  OnTrack'
<1> USE Footing
<1>0. UNCHANGED <<job, faults>>
  BY DEF Serve
<1>1. CASE ReadStatus(c) \/ ReadEvents(c) \/ Approve(c) \/ MarkClosed(c) \/ MarkScheduled(c)
  BY <1>0, <1>1, Undisturbed DEF ReadStatus, ReadEvents, Check, Approve, MarkClosed,
     MarkScheduled, Write, RecordEvent, storeVars
<1>2. CASE Reject(c) \/ Cancel(c)
  <2>1. UNCHANGED wf /\ (UNCHANGED storeVars \/ status' \in Terminal)
    BY <1>2 DEF Reject, Cancel, Write, TransitionRun, Terminal
  <2> QED
    BY <1>0, <2>1, Undisturbed DEF Orderly, storeVars
<1>3. CASE GrantRevision(c)
  <2>1. UNCHANGED wf /\ (UNCHANGED storeVars \/ AppendEvent(ExceptionGranted))
    BY <1>3 DEF GrantRevision, Write, AuthorizeExceptionRevision
  <2>2. ~AppendEvent(ExceptionGranted)
    <3>1. ExceptionGranted \in EventTypes /\ EventCap \in Nat /\ EventCap # 0
      BY BudgetAssumption DEF EventTypes
    <3>2. events[ExceptionGranted] = 0 /\ events'[ExceptionGranted] = 0
      BY DEF OnCourse, Orderly
    <3> QED
      BY <3>1, <3>2 DEF AppendEvent, TypeOK
  <2> QED
    BY <1>0, <2>1, <2>2, Undisturbed DEF storeVars
<1>4. CASE StartWorkflow(c)
  <2>1. CASE wf.at = "none"
    <3>1. wf' = Await("execute", 1) /\ UNCHANGED storeVars
      BY <1>4, <2>1 DEF StartWorkflow
    <3>2. wf'.at = "execute" /\ wf'.round = 1 /\ Here' = "queued" /\ wf'.round - 1 = 0
      BY <3>1, WorkersAssumption DEF Await, Here
    <3>3. status \notin {"requested", "planning"}
      <4>1. req[c].op = "schedule" /\ req[c].i = 5
        BY <1>4, StageFacts, StageTable DEF StartWorkflow
      <4> QED
        BY <4>1 DEF OnCourse, EscalationInv, PlanFirst
    <3>4. status = "awaiting_approval" /\ Ready(0)
      BY <2>1, <3>3 DEF OnTrack, NotStarted
    <3>5. status' = "awaiting_approval" /\ Ready(wf.round - 1)'
      BY <3>1, <3>2, <3>4 DEF Ready, Planned, storeVars
    <3> QED
      BY <3>2, <3>5 DEF OnTrack, Executing, AtWork
  <2>2. CASE wf.at = "closed"
    <3>1. wf' = Await("execute", 1) /\ UNCHANGED storeVars /\ Waiting
      BY <1>4, <2>2 DEF StartWorkflow, OnTrack
    <3>2. wf'.at = "execute" /\ Here' = "queued"
      BY <3>1, WorkersAssumption DEF Await, Here
    <3>3. Waiting'
      BY <3>1 DEF Waiting, storeVars
    <3> QED
      BY <3>2, <3>3 DEF OnTrack, Executing, AtWork
  <2>3. CASE wf.at \notin {"none", "closed"}
    BY <1>0, <1>4, <2>3, Undisturbed DEF StartWorkflow, storeVars
  <2> QED
    BY <2>1, <2>2, <2>3
<1>5. ~SignalCancel(c)
  BY SignalLast DEF OnCourse, EscalationInv, CancelFirst, Orderly, Terminal
<1> QED
  BY <1>1, <1>2, <1>3, <1>4, <1>5 DEF Serve

\* The plan of an orderly run is stored before its workflow is started.
LEMMA PlanningStep ==
  ASSUME OnCourse, Orderly', StartPlanning \/ StorePlan
  PROVE  OnTrack'
<1> USE Footing
<1>1. status \in {"requested", "planning"} /\ wf.at = "none" /\ UNCHANGED procVars
  <2>1. status \in {"requested", "planning"} /\ UNCHANGED procVars
    BY DEF StartPlanning, StorePlan, MaterializePlan
  <2> QED
    BY <2>1 DEF OnCourse, EscalationInv, PlanFirst
<1>2. wf'.at = "none"
  BY <1>1 DEF procVars
<1>3. CASE StartPlanning
  BY <1>2, <1>3 DEF StartPlanning, TransitionRun, OnTrack, NotStarted
<1>4. CASE StorePlan
  <2>1. PICK plan \in SUBSET Researchers : MaterializePlan(plan)
    BY <1>4 DEF StorePlan
  <2>2. \A r \in Researchers : step[r] = "absent" /\ attempts[r] = 0
    BY <1>1 DEF OnCourse, Sound, BudgetInv
  <2>3. /\ step'[Reviewer] = "pending" /\ UNCHANGED attempts
        /\ \A r \in Researchers : step'[r] \in {"absent", "pending"}
    BY <2>1, <2>2, StepsAssumption DEF MaterializePlan
  <2>4. Ready(0)'
    BY <2>2, <2>3 DEF Ready, Planned
  <2>5. status' = "awaiting_approval"
    BY <2>1 DEF MaterializePlan
  <2> QED
    BY <1>2, <2>4, <2>5 DEF OnTrack, NotStarted
<1> QED
  BY <1>3, <1>4

\* Every step of the runtime keeps the invariant.
LEMMA EscalationStep ==
  Sound /\ EscalationInv /\ [DurableNext]_vars => EscalationInv'
<1> SUFFICES ASSUME Sound, EscalationInv, [DurableNext]_vars PROVE EscalationInv'
  OBVIOUS
<1>0. DurableShape /\ AtActivity /\ PlanFirst /\ CancelFirst
  BY DEF Sound, EscalationInv
<1>1. AtActivity' /\ PlanFirst' /\ CancelFirst'
  BY <1>0, ActivityStep, OrderStep DEF DurableShape, Shape
<1>2. ASSUME Orderly' PROVE Solo' /\ OnTrack'
  <2>1. OnCourse
    BY <1>0, <1>2, OrderlyBack DEF OnCourse
  <2>2. Solo /\ OnTrack /\ WorkflowShape /\ FaultsTyped
    BY <2>1, Footing
  <2>3. Solo'
    BY <1>0, <1>2, <2>1, <2>2, SoloStep DEF OnCourse
  <2>4. ASSUME NEW w \in Workers, Work(w) PROVE OnTrack'
    <3>1. wf.task = w
      BY <2>2, <2>4, Busy, Alone
    <3>2. wf.at \in Activities
      BY <2>2, <3>1, WorkersAssumption DEF WorkflowShape
    <3> QED
      BY <1>2, <2>1, <2>4, <3>2, ExecutingStep, ReviewingStep, EscalatingStep DEF Activities
  <2>5. CASE \/ UNCHANGED vars \/ Expire
             \/ \E c \in Callers : Abandon(c) \/ \E op \in Ops : Ask(c, op)
    <3>1. UNCHANGED <<status, step, attempts, job, wf, faults>>
      BY <2>5 DEF vars, procVars, storeVars, Expire, ExpireSources, Abandon, Ask
    <3> QED
      BY <2>2, <2>3, <3>1, Undisturbed
  <2>6. ~SlowTimeout /\ \A w \in Workers : ~CallDirectly(w)
    BY <1>2, <2>2, FaultsKept DEF Orderly, OneFailure, CallDirectly
  <2> QED
    BY <1>2, <2>1, <2>3, <2>4, <2>5, <2>6, PollingStep, FailureStep, ServingStep,
       PlanningStep DEF DurableNext
<1> QED
  BY <1>1, <1>2 DEF EscalationInv

\* It holds when nothing has happened yet.
LEMMA EscalationInit == DurableInit => EscalationInv
<1> SUFFICES ASSUME DurableInit PROVE EscalationInv
  OBVIOUS
<1>1. /\ status = "requested" /\ wf.at = "none" /\ wf.task = "none"
      /\ \A w \in Workers : job[w].at = "idle"
      /\ \A c \in Callers : req[c].op = "none"
  BY DEF DurableInit, Init, NoWorkflow, IdleJob, IdleReq
<1>2. AtActivity
  BY <1>1, WorkersAssumption DEF AtActivity
<1>3. Solo /\ OnTrack
  BY <1>1 DEF Solo, OnTrack, NotStarted
<1> QED
  BY <1>1, <1>2, <1>3 DEF EscalationInv, PlanFirst, CancelFirst

\* What the invariant rests on holds in every state.
LEMMA SoundAlways == DurableSpec => []Sound
<1>1. DurableSpec => []StartInv
  BY Held, DoneInit, StartStep, PTL DEF DurableSpec
<1>2. DurableSpec => []PlanBehindGate
  BY RuntimeImplementsStore, PlanStoredBehindGate, PTL
<1> QED
  BY <1>1, <1>2, Held, ApprovalCorrect, PTL DEF Sound

\* When the workflow has ended after one failure at most, the run is at an end
\* or waits for an operator (durable_execution/workflows.py:21-53,
\* activities.py, docs/durable-execution.md:71-73).
THEOREM OneFailureEscalates == DurableSpec => []UncertainOutcomeEscalates
<1>1. DurableSpec => []EscalationInv
  BY SoundAlways, EscalationInit, EscalationStep, PTL DEF DurableSpec
<1>2. EscalationInv => UncertainOutcomeEscalates
  BY DEF EscalationInv, Orderly, OnTrack, Waiting, UncertainOutcomeEscalates
<1> QED
  BY <1>1, <1>2, PTL

-----------------------------------------------------------------------------
(* A workflow runs out: StepsLeft falls with every step of the workflow and *)
(* of the activity it awaits, and rises with none.                          *)

LEMMA DepthTable ==
  /\ Depth("idle") = 0 /\ Depth("return") = 1
  /\ Depth("validate_execute") = 12 /\ Depth("begin") = 11 /\ Depth("gate") = 10
  /\ Depth("enter") = 9 /\ Depth("pick") = 8 /\ Depth("activate") = 7
  /\ Depth("search") = 6 /\ Depth("extract") = 5 /\ Depth("remember") = 4
  /\ Depth("complete") = 3 /\ Depth("submit") = 2 /\ Depth("fail") = 3 /\ Depth("abort") = 2
  /\ Depth("validate_review") = 7 /\ Depth("look") = 6 /\ Depth("seat") = 5
  /\ Depth("accepted") = 3 /\ Depth("close") = 2 /\ Depth("revision_requested") = 2
  /\ Depth("needs_attention") = 4 /\ Depth("unseat") = 3 /\ Depth("hand_over") = 2
  /\ Depth("validate_escalate") = 4 /\ Depth("flag") = 3 /\ Depth("halt") = 2
BY DEF Depth

LEMMA DepthBounds ==
  \A at \in JobLabels : Depth(at) \in 0 .. 12 /\ (at # "idle" => Depth(at) > 0)
BY DepthTable DEF JobLabels

\* A worker's step ends its activity or brings it closer to its end.
LEMMA Downward ==
  ASSUME JobShape, NEW w \in Workers, Work(w)
  PROVE  /\ job[w].at # "idle"
         /\ \/ Raise(w) \/ \E s : Return(w, s)
            \/ /\ UNCHANGED wf
               /\ \A v \in Workers \ {w} : job'[v] = job[v]
               /\ Depth(job'[w].at) < Depth(job[w].at)
<1> DEFINE Goal == /\ UNCHANGED wf
                   /\ \A v \in Workers \ {w} : job'[v] = job[v]
                   /\ Depth(job'[w].at) < Depth(job[w].at)
<1>1. ASSUME NEW next, Jump(w, next), UNCHANGED wf, Depth(next) < Depth(job[w].at)
      PROVE  Goal
  BY <1>1, Jumped
<1> DEFINE Down == job[w].at # "idle" /\ (Raise(w) \/ (\E s : Return(w, s)) \/ Goal)
<1>2. CASE ValidateExecute(w) \/ ValidateReview(w) \/ ValidateEscalate(w) \/ Begin(w) \/ Gate(w)
  BY <1>1, <1>2, DepthTable
     DEF ValidateExecute, ValidateReview, ValidateEscalate, Begin, Gate, Read
<1>3. CASE Search(w) \/ Extract(w)
  BY <1>1, <1>3, DepthTable DEF Search, Extract, Read
<1>4. CASE Enter(w) \/ Activate(w) \/ Remember(w) \/ Complete(w) \/ Submit(w) \/ Fail(w) \/ Abort(w)
  BY <1>1, <1>4, DepthTable
     DEF Enter, Activate, Remember, Complete, Submit, Fail, Abort, Attempt
<1>5. CASE Accept(w) \/ Close(w) \/ Revise(w) \/ Unresolved(w) \/ Unseat(w) \/ HandOver(w)
  BY <1>1, <1>5, DepthTable
     DEF Accept, Close, Revise, Unresolved, Unseat, HandOver, Attempt
<1>6. CASE Flag(w) \/ Halt(w)
  BY <1>1, <1>6, DepthTable DEF Flag, Halt, Attempt
<1>7. CASE Seat(w)
  <2>1. job[w].verdict \in {"accepted", "revision_requested", "needs_attention"}
    BY <1>7 DEF Seat, Attempt, JobShape, Verdicts
  <2>2. Depth(job[w].verdict) < Depth("seat")
    BY <2>1, DepthTable
  <2> QED
    BY <1>1, <1>7, <2>2 DEF Seat, Attempt
<1>8. CASE Pick(w)
  <2>1. ASSUME NEW r \in Researchers, UNCHANGED wf, job[w].at = "pick",
               job' = [job EXCEPT ![w].at = "activate", ![w].r = r]
        PROVE  Goal
    <3>1. job'[w].at = "activate" /\ \A v \in Workers \ {w} : job'[v] = job[v]
      BY <2>1 DEF JobShape
    <3>2. Depth("activate") < Depth("pick")
      BY DepthTable
    <3> QED
      BY <2>1, <3>1, <3>2, Zenon
  <2> QED
    BY <1>8, <2>1 DEF Pick
<1>9. CASE Look(w)
  <2>1. PICK r \in Planned :
          job' = [job EXCEPT ![w].at = "seat", ![w].r = r, ![w].verdict = Decision(r)]
    BY <1>9, Zenon DEF Look
  <2>2. job'[w].at = "seat" /\ \A v \in Workers \ {w} : job'[v] = job[v]
    BY <2>1 DEF JobShape
  <2>3. Depth("seat") < Depth("look") /\ job[w].at = "look" /\ UNCHANGED wf
    BY <1>9, DepthTable DEF Look
  <2> QED
    BY <2>2, <2>3, Zenon
<1>10. CASE Report(w)
  BY <1>10 DEF Report
<1> QED
  BY <1>2, <1>3, <1>4, <1>5, <1>6, <1>7, <1>8, <1>9, <1>10 DEF Work

\* What remains of a task is less than an activity.
LEMMA TaskBounds ==
  ASSUME JobShape, WorkflowShape
  PROVE  /\ TaskLeft \in 0 .. 13
         /\ wf.task \in Workers => TaskLeft = Depth(job[wf.task].at)
         /\ wf.task = "queued" => TaskLeft = 13
         /\ wf.task = "lost" => TaskLeft = 0
<1>1. \A w \in Workers : Depth(job[w].at) \in 0 .. 12
  BY DepthBounds DEF JobShape
<1> QED
  BY <1>1, WorkersAssumption DEF TaskLeft

LEMMA ActivitiesBounds ==
  ASSUME WorkflowShape
  PROVE  ActivitiesLeft \in Nat
<1>1. wf.round \in 0 .. MaxResearchAttempts /\ MaxResearchAttempts \in Nat
  BY BudgetAssumption DEF WorkflowShape
<1> QED
  BY <1>1 DEF ActivitiesLeft

\* The result of an activity, and its failure, leave fewer activities.
LEMMA FewerActivities ==
  ASSUME WorkflowShape, wf.at \in Activities,
         wf' = AfterFailure \/ \E s : wf' = AfterResult(s)
  PROVE  ActivitiesLeft' < ActivitiesLeft
<1>1. wf.round \in 0 .. MaxResearchAttempts /\ MaxResearchAttempts \in Nat
  BY BudgetAssumption DEF WorkflowShape
<1>2. CASE wf' = Closed
  <2>1. wf'.at = "closed"
    BY <1>2 DEF Closed, WorkflowShape
  <2> QED
    BY <1>1, <2>1 DEF ActivitiesLeft, Activities
<1>3. CASE wf' = Await("escalate", wf.round) /\ wf.at \in {"execute", "review"}
  <2>1. wf'.at = "escalate"
    BY <1>3 DEF Await
  <2> QED
    BY <1>1, <1>3, <2>1 DEF ActivitiesLeft
<1>4. CASE wf' = Await("review", wf.round) /\ wf.at = "execute"
  <2>1. wf'.at = "review" /\ wf'.round = wf.round
    BY <1>4 DEF Await
  <2> QED
    BY <1>1, <1>4, <2>1 DEF ActivitiesLeft
<1>5. CASE wf' = Await("execute", wf.round + 1) /\ wf.at = "review"
  <2>1. wf'.at = "execute" /\ wf'.round = wf.round + 1
    BY <1>5 DEF Await
  <2> QED
    BY <1>1, <1>5, <2>1 DEF ActivitiesLeft
<1> QED
  BY <1>2, <1>3, <1>4, <1>5 DEF AfterFailure, AfterResult

\* The same bounds after a step.
LEMMA BoundsAfter ==
  /\ (JobShape /\ WorkflowShape =>
        /\ TaskLeft \in 0 .. 13
        /\ wf.task \in Workers => TaskLeft = Depth(job[wf.task].at)
        /\ wf.task = "lost" => TaskLeft = 0)'
  /\ (WorkflowShape => ActivitiesLeft \in Nat)'
<1>1. JobShape /\ WorkflowShape =>
        /\ TaskLeft \in 0 .. 13
        /\ wf.task \in Workers => TaskLeft = Depth(job[wf.task].at)
        /\ wf.task = "lost" => TaskLeft = 0
  BY TaskBounds
<1>2. WorkflowShape => ActivitiesLeft \in Nat
  BY ActivitiesBounds
<1> QED
  BY <1>1, <1>2, PTL

\* The two ways in which a step leaves the workflow with no more to do.
RunsOut ==
  wf.at \in Activities => StepsLeft' < StepsLeft \/ UNCHANGED <<wf, StepsLeft>>

NobodyGoesBack ==
  \A w \in Workers : job[w].at # "idle" =>
    job'[w].at = job[w].at \/ Depth(job'[w].at) < Depth(job[w].at)

\* The awaited activity returned, raised, timed out or was cancelled.
LEMMA ActivityOver ==
  ASSUME JobShape, WorkflowShape, JobShape', WorkflowShape',
         wf' = AfterFailure \/ \E s : wf' = AfterResult(s)
  PROVE  RunsOut
<1> SUFFICES ASSUME wf.at \in Activities PROVE StepsLeft' < StepsLeft
  BY DEF RunsOut
<1>1. ActivitiesLeft' < ActivitiesLeft
  BY FewerActivities
<1>2. ActivitiesLeft \in Nat /\ TaskLeft \in Nat
  BY ActivitiesBounds, TaskBounds
<1>3. ActivitiesLeft' \in Nat
  BY BoundsAfter
<1>4. TaskLeft' \in 0 .. 13
  BY BoundsAfter
<1>5. \A a, b \in Nat : \A t \in Nat : \A u \in 0 .. 13 :
        b < a => 14 * b + u < 14 * a + t
  OBVIOUS
<1>6. 14 * ActivitiesLeft' + TaskLeft' < 14 * ActivitiesLeft + TaskLeft
  BY <1>1, <1>2, <1>3, <1>4, <1>5, Zenon
<1> QED
  BY <1>6 DEF StepsLeft

\* The workflow goes on waiting, and its task got further.
LEMMA TaskFurther ==
  ASSUME JobShape, WorkflowShape, JobShape', WorkflowShape',
         wf'.at = wf.at, wf'.round = wf.round, TaskLeft' < TaskLeft
  PROVE  RunsOut
<1>1. ActivitiesLeft' = ActivitiesLeft
  BY DEF ActivitiesLeft
<1>2. ActivitiesLeft \in Nat /\ TaskLeft \in Nat
  BY ActivitiesBounds, TaskBounds
<1>3. TaskLeft' \in 0 .. 13
  BY BoundsAfter
<1>4. \A a, t, u \in Nat : u < t => 14 * a + u < 14 * a + t
  OBVIOUS
<1>5. TaskLeft' \in Nat
  BY <1>3
<1>6. 14 * ActivitiesLeft' + TaskLeft' < 14 * ActivitiesLeft + TaskLeft
  BY <1>1, <1>2, <1>4, <1>5, Zenon
<1> QED
  BY <1>6 DEF StepsLeft, RunsOut

\* Neither the workflow nor the activity it awaits moved.
LEMMA TaskStays ==
  ASSUME UNCHANGED wf, wf.task \in Workers => job'[wf.task] = job[wf.task]
  PROVE  RunsOut
BY DEF RunsOut, StepsLeft, ActivitiesLeft, TaskLeft

\* The activity of a worker ends, whether or not the workflow awaits it.
LEMMA EndRunsOut ==
  ASSUME JobShape, WorkflowShape, JobShape', WorkflowShape', NEW w \in Workers,
         job[w].at # "idle",
         \/ End(w, AfterFailure)
         \/ \E s : End(w, AfterResult(s))
         \/ End(w, [wf EXCEPT !.task = "lost"])
  PROVE  RunsOut /\ NobodyGoesBack
<1>1. job'[w].at = "idle" /\ \A v \in Workers \ {w} : job'[v] = job[v]
  BY DEF End, JobShape, IdleJob
<1>2. Depth(job[w].at) \in Nat /\ Depth(job[w].at) > 0 /\ Depth("idle") = 0
  BY DepthBounds, DepthTable DEF JobShape
<1>3. NobodyGoesBack
  BY <1>1, <1>2 DEF NobodyGoesBack
<1>4. CASE wf.task # w
  <2>1. UNCHANGED wf
    BY <1>4 DEF End
  <2> QED
    BY <1>1, <1>3, <1>4, <2>1, TaskStays
<1>5. CASE wf.task = w
  <2>1. CASE wf' = AfterFailure \/ \E s : wf' = AfterResult(s)
    BY <1>3, <2>1, ActivityOver
  <2>2. CASE wf' = [wf EXCEPT !.task = "lost"]
    <3>1. wf'.task = "lost" /\ wf'.at = wf.at /\ wf'.round = wf.round
      BY <2>2 DEF WorkflowShape
    <3>2. TaskLeft = Depth(job[w].at)
      BY <1>5, TaskBounds
    <3>3. TaskLeft' = 0
      BY <3>1, BoundsAfter
    <3>4. TaskLeft' < TaskLeft
      BY <1>2, <3>2, <3>3
    <3> QED
      BY <1>3, <3>1, <3>4, TaskFurther
  <2> QED
    BY <1>5, <2>1, <2>2 DEF End
<1> QED
  BY <1>4, <1>5

LEMMA RunsOutStep ==
  ASSUME DurableShape, DurableShape', AtActivity, [DurableNext]_vars
  PROVE  RunsOut /\ NobodyGoesBack
<1>0. JobShape /\ WorkflowShape /\ JobShape' /\ WorkflowShape'
  BY DEF DurableShape, Shape
<1>1. CASE UNCHANGED <<job, wf>>
  BY <1>1, TaskStays DEF NobodyGoesBack
<1>2. CASE UNCHANGED vars \/ StartPlanning \/ StorePlan \/ Expire
  BY <1>1, <1>2 DEF vars, procVars, StartPlanning, StorePlan, Expire
<1>3. CASE SlowTimeout \/ LostTimeout
  BY <1>0, <1>3, ActivityOver DEF SlowTimeout, LostTimeout, NobodyGoesBack
<1>4. ASSUME NEW w \in Workers, Poll(w) PROVE RunsOut /\ NobodyGoesBack
  <2>1. /\ wf.at \in Activities /\ wf' = [wf EXCEPT !.task = w]
        /\ wf.task = "queued" /\ job[w].at = "idle"
    BY <1>0, <1>4 DEF Poll, WorkflowShape
  <2>2. wf'.at = wf.at /\ wf'.task = w /\ wf'.round = wf.round
    BY <1>0, <2>1 DEF WorkflowShape
  <2>3. PICK next \in {"validate_execute", "validate_review", "validate_escalate"} :
          Jump(w, next)
    BY <1>4, <2>1 DEF Poll, Activities
  <2>4. job'[w].at = next /\ \A v \in Workers \ {w} : job'[v] = job[v]
    BY <1>0, <2>3, Jumped
  <2>5. Depth(next) < 13
    BY DepthTable
  <2>6. TaskLeft = 13
    BY <1>0, <2>1, TaskBounds
  <2>7. TaskLeft' = Depth(next)
    BY <1>0, <2>2, <2>4, BoundsAfter
  <2>8. TaskLeft' < TaskLeft
    BY <2>5, <2>6, <2>7
  <2> QED
    BY <1>0, <2>1, <2>2, <2>4, <2>8, TaskFurther DEF NobodyGoesBack
<1>5. ASSUME NEW w \in Workers, CallDirectly(w) PROVE RunsOut /\ NobodyGoesBack
  <2>1. PICK first \in {"begin", "look"} : Jump(w, first)
    BY <1>5 DEF CallDirectly
  <2>2. UNCHANGED wf /\ job[w].at = "idle"
    BY <1>5 DEF CallDirectly
  <2>3. wf.task # w
    BY <2>2 DEF AtActivity, LabelsOf
  <2>4. \A v \in Workers \ {w} : job'[v] = job[v]
    BY <1>0, <2>1, Jumped
  <2> QED
    BY <2>2, <2>3, <2>4, TaskStays DEF NobodyGoesBack
<1>6. ASSUME NEW w \in Workers, Work(w) PROVE RunsOut /\ NobodyGoesBack
  <2>1. job[w].at # "idle"
    BY <1>0, <1>6, Downward
  <2>2. CASE Raise(w) \/ \E s : Return(w, s)
    BY <1>0, <2>1, <2>2, EndRunsOut DEF Raise, Return
  <2>3. CASE ~(Raise(w) \/ \E s : Return(w, s))
    <3>1. /\ UNCHANGED wf /\ \A v \in Workers \ {w} : job'[v] = job[v]
          /\ Depth(job'[w].at) < Depth(job[w].at)
      BY <1>0, <1>6, <2>3, Downward
    <3>2. NobodyGoesBack
      BY <3>1 DEF NobodyGoesBack
    <3>3. CASE wf.task # w
      BY <3>1, <3>2, <3>3, TaskStays
    <3>4. CASE wf.task = w
      <4>1. TaskLeft = Depth(job[w].at)
        BY <1>0, <3>4, TaskBounds
      <4>2. TaskLeft' = Depth(job'[w].at)
        BY <1>0, <3>1, <3>4, BoundsAfter
      <4>3. TaskLeft' < TaskLeft
        BY <3>1, <4>1, <4>2
      <4> QED
        BY <1>0, <3>1, <3>2, <4>3, TaskFurther
    <3> QED
      BY <3>3, <3>4
  <2> QED
    BY <2>2, <2>3
<1>7. ASSUME NEW w \in Workers, Crash(w) \/ Outage(w) PROVE RunsOut /\ NobodyGoesBack
  BY <1>0, <1>7, EndRunsOut DEF Crash, Outage, Raise
<1>8. ASSUME NEW c \in Callers, Serve(c) PROVE RunsOut /\ NobodyGoesBack
  <2>1. UNCHANGED job
    BY <1>8 DEF Serve
  <2>2. \/ wf' = wf \/ wf' = AfterFailure
        \/ wf.at \notin Activities
    BY <1>8 DEF Serve, ReadStatus, ReadEvents, Check, Approve, Reject, GrantRevision,
       MarkClosed, Cancel, MarkScheduled, Write, StartWorkflow, SignalCancel, Activities
  <2>3. NobodyGoesBack
    BY <2>1 DEF NobodyGoesBack
  <2>4. wf.at \notin Activities => RunsOut
    BY DEF RunsOut
  <2> QED
    BY <1>0, <1>1, <2>1, <2>2, <2>3, <2>4, ActivityOver
<1>9. ASSUME NEW c \in Callers, Abandon(c) \/ \E op \in Ops : Ask(c, op)
      PROVE  RunsOut /\ NobodyGoesBack
  BY <1>1, <1>9 DEF Abandon, Ask
<1> QED
  BY <1>2, <1>3, <1>4, <1>5, <1>6, <1>7, <1>8, <1>9 DEF DurableNext

\* A started workflow has a bounded number of steps left, which nothing raises:
\* not a revision, not an operator's exception, not a fault, not another worker
\* (durable_execution/workflows.py:24-49).
THEOREM WorkflowsRunOut == DurableSpec => WorkflowRunsOut
<1>1. DurableSpec => []AtActivity
  <2>1. DurableInit => AtActivity
    BY EscalationInit DEF EscalationInv
  <2>2. DurableShape /\ AtActivity /\ [DurableNext]_vars => AtActivity'
    BY ActivityStep DEF DurableShape, Shape
  <2> QED
    BY <2>1, <2>2, DurableShaped, PTL DEF DurableSpec
<1>2. ASSUME DurableShape, DurableShape', AtActivity, [DurableNext]_vars
      PROVE  [/\ wf.at \notin {"none", "closed"} =>
                   StepsLeft' < StepsLeft \/ UNCHANGED <<wf, StepsLeft>>
              /\ \A w \in Workers : job[w].at # "idle" =>
                   job'[w].at = job[w].at \/ Depth(job'[w].at) < Depth(job[w].at)]_vars
  <2>1. wf.at \notin {"none", "closed"} => wf.at \in Activities
    BY <1>2 DEF DurableShape, Shape, WorkflowShape
  <2> QED
    BY <1>2, <2>1, RunsOutStep DEF RunsOut, NobodyGoesBack
<1> QED
  BY <1>1, <1>2, DurableShaped, PTL DEF DurableSpec, WorkflowRunsOut
=============================================================================
