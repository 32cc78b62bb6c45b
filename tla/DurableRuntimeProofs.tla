-------------------------- MODULE DurableRuntimeProofs --------------------------
(***************************************************************************)
(* Theorems about DurableRuntime: for any number of workers, callers,      *)
(* researchers and faults, with and without direct calls.                  *)
(***************************************************************************)
EXTENDS DurableRuntime, RuntimeStoreProofs

-----------------------------------------------------------------------------
(* Shape of the process state.  DurableTypeOK is not inductive: what an     *)
(* activity remembers depends on where it is, and a queued task on what the *)
(* workflow awaits.                                                         *)

Verdicts == {"accepted", "revision_requested", "needs_attention"}

\* The labels at which an activity acts on the researcher it remembers.
AtResearcher ==
  {"activate", "search", "extract", "remember", "complete", "fail", "abort",
   "seat", "revision_requested"}

JobShape ==
  /\ job \in [Workers -> [at : JobLabels, r : Researchers \cup {"none"},
                          verdict : Verdicts \cup {"none"}]]
  /\ \A w \in Workers :
       /\ job[w].at \in AtResearcher => job[w].r \in Researchers
       /\ job[w].at = "seat" => job[w].verdict # "none"

Activities == {"execute", "review", "escalate"}

WorkflowShape ==
  /\ wf \in [at : Activities \cup {"none", "closed"},
             round : 0 .. MaxResearchAttempts,
             task : Workers \cup {"none", "queued", "lost"}]
  /\ wf.task # "none" => wf.at \in Activities

RequestShape ==
  /\ req \in [Callers -> [op : Ops \cup {"none"}, i : Nat]]
  /\ \A c \in Callers :
       \/ req[c] = IdleReq
       \/ req[c].op \in Ops /\ req[c].i \in DOMAIN Stages[req[c].op]

Shape == JobShape /\ WorkflowShape /\ RequestShape

\* An activity that moves on within its labels keeps what it remembers.
LEMMA JumpShape ==
  ASSUME JobShape, NEW w \in Workers, NEW next \in JobLabels, Jump(w, next),
         next \in AtResearcher => job[w].r \in Researchers,
         next = "seat" => job[w].verdict # "none"
  PROVE  JobShape'
<1>1. job' \in [Workers -> [at : JobLabels, r : Researchers \cup {"none"},
                            verdict : Verdicts \cup {"none"}]]
  BY DEF JobShape, Jump
<1>2. /\ job'[w].at = next /\ job'[w].r = job[w].r
      /\ job'[w].verdict = job[w].verdict
      /\ \A v \in Workers \ {w} : job'[v] = job[v]
  BY DEF JobShape, Jump
<1> QED
  BY <1>1, <1>2 DEF JobShape

\* An activity that ends leaves an idle worker.
LEMMA IdleShape ==
  ASSUME JobShape, NEW w \in Workers, job' = [job EXCEPT ![w] = IdleJob]
  PROVE  JobShape'
<1>1. IdleJob \in [at : JobLabels, r : Researchers \cup {"none"},
                   verdict : Verdicts \cup {"none"}]
  BY DEF IdleJob, JobLabels
<1>2. IdleJob.at \notin AtResearcher /\ IdleJob.at # "seat"
  BY DEF IdleJob, AtResearcher
<1> QED
  BY <1>1, <1>2 DEF JobShape

\* What the workflow awaits after a result or a failure is well formed.
LEMMA AfterShape ==
  ASSUME WorkflowShape,
         wf' = AfterFailure \/ (\E s : wf' = AfterResult(s))
           \/ (wf.task # "none" /\ wf' = [wf EXCEPT !.task = "lost"])
  PROVE  WorkflowShape'
<1> DEFINE Tasks == Workers \cup {"none", "queued", "lost"}
           Workflows == [at : Activities \cup {"none", "closed"},
                         round : 0 .. MaxResearchAttempts, task : Tasks]
<1>1. /\ wf \in Workflows /\ wf.round \in 0 .. MaxResearchAttempts
      /\ wf.task \in Tasks
  BY DEF WorkflowShape
<1>2. /\ Closed \in Workflows /\ Closed.task = "none"
  BY <1>1 DEF Closed
<1>3. ASSUME NEW a \in Activities, NEW n \in 0 .. MaxResearchAttempts, wf' = Await(a, n)
      PROVE  WorkflowShape'
  BY <1>3 DEF Await, WorkflowShape
<1>4. CASE wf' = Closed
  BY <1>2, <1>4 DEF WorkflowShape
<1>5. CASE wf' = AfterFailure
  BY <1>1, <1>3, <1>4, <1>5 DEF AfterFailure, Activities
<1>6. CASE \E s : wf' = AfterResult(s)
  <2>1. PICK s : wf' = AfterResult(s)
    BY <1>6
  <2>2. CASE wf' = Await("review", wf.round)
    BY <2>2, <1>1, <1>3 DEF Activities
  <2>3. CASE wf' = Await("execute", wf.round + 1) /\ wf.round < MaxResearchAttempts
    <3>1. wf.round + 1 \in 0 .. MaxResearchAttempts
      BY <2>3, <1>1, BudgetAssumption
    <3> QED
      BY <2>3, <3>1, <1>3 DEF Activities
  <2> QED
    BY <2>1, <2>2, <2>3, <1>4 DEF AfterResult
<1>7. CASE wf.task # "none" /\ wf' = [wf EXCEPT !.task = "lost"]
  <2>1. wf' \in Workflows /\ wf'.at = wf.at
    BY <1>1, <1>7
  <2> QED
    BY <2>1, <1>7 DEF WorkflowShape
<1> QED
  BY <1>5, <1>6, <1>7

\* The workflow takes notice of the end of the activity it awaits only.
LEMMA EndShape ==
  ASSUME JobShape, WorkflowShape, NEW w \in Workers,
         \/ End(w, AfterFailure)
         \/ \E s : End(w, AfterResult(s))
         \/ End(w, [wf EXCEPT !.task = "lost"])
  PROVE  JobShape' /\ WorkflowShape'
<1>1. job' = [job EXCEPT ![w] = IdleJob]
  BY DEF End
<1>2. \/ wf' = wf
      \/ wf' = AfterFailure \/ (\E s : wf' = AfterResult(s))
      \/ (wf.task = w /\ wf' = [wf EXCEPT !.task = "lost"])
  BY DEF End
<1>3. w # "none"
  BY WorkersAssumption
<1>4. CASE wf' = wf
  BY <1>1, <1>4, IdleShape DEF WorkflowShape
<1> QED
  BY <1>1, <1>2, <1>3, <1>4, IdleShape, AfterShape

\* Every step of an activity, performed or refused, keeps the shape.
LEMMA WorkShape ==
  ASSUME JobShape, WorkflowShape, NEW w \in Workers, Work(w)
  PROVE  JobShape' /\ WorkflowShape'
<1> DEFINE Goal == JobShape' /\ WorkflowShape'
<1>1. ASSUME Raise(w) \/ (\E s : Return(w, s)) PROVE Goal
  BY <1>1, EndShape DEF Raise, Return
<1>2. ASSUME NEW next \in JobLabels, Jump(w, next), UNCHANGED wf,
             next \in AtResearcher => job[w].r \in Researchers,
             next = "seat" => job[w].verdict # "none"
      PROVE  Goal
  BY <1>2, JumpShape DEF WorkflowShape
<1>3. job[w].at \in AtResearcher => job[w].r \in Researchers
  BY DEF JobShape
<1>4. CASE ValidateExecute(w) \/ ValidateReview(w) \/ ValidateEscalate(w)
  BY <1>4, <1>1, <1>2
     DEF ValidateExecute, ValidateReview, ValidateEscalate, Read, JobLabels, AtResearcher
<1>5. CASE Begin(w) \/ Gate(w)
  BY <1>5, <1>1, <1>2 DEF Begin, Gate, Read, JobLabels, AtResearcher
<1>6. CASE Enter(w) \/ Submit(w) \/ Abort(w)
  BY <1>6, <1>1, <1>2 DEF Enter, Submit, Abort, Attempt, JobLabels, AtResearcher
<1>7. CASE Activate(w) \/ Remember(w) \/ Complete(w) \/ Fail(w)
  BY <1>7, <1>1, <1>2, <1>3
     DEF Activate, Remember, Complete, Fail, Attempt, JobLabels, AtResearcher
<1>8. CASE Search(w) \/ Extract(w)
  BY <1>8, <1>2, <1>3 DEF Search, Extract, Read, JobLabels, AtResearcher
<1>9. CASE Accept(w) \/ Close(w) \/ Revise(w)
  BY <1>9, <1>1, <1>2 DEF Accept, Close, Revise, Attempt, JobLabels, AtResearcher
<1>10. CASE Unresolved(w) \/ Unseat(w) \/ HandOver(w)
  BY <1>10, <1>1, <1>2 DEF Unresolved, Unseat, HandOver, Attempt, JobLabels, AtResearcher
<1>11. CASE Flag(w) \/ Halt(w)
  BY <1>11, <1>1, <1>2 DEF Flag, Halt, Attempt, JobLabels, AtResearcher
<1>12. CASE Seat(w)
  <2>1. job[w].at = "seat" /\ job[w].r \in Researchers /\ job[w].verdict \in Verdicts
    BY <1>12, <1>3 DEF Seat, Attempt, JobShape, AtResearcher
  <2>2. job[w].verdict \in JobLabels /\ job[w].verdict # "seat"
    BY <2>1 DEF JobLabels, Verdicts
  <2> QED
    BY <1>12, <1>1, <1>2, <2>1, <2>2 DEF Seat, Attempt
<1>13. CASE Pick(w)
  <2>1. CASE Raise(w)
    BY <2>1, <1>1
  <2>2. ASSUME NEW r \in Researchers, UNCHANGED wf,
               job' = [job EXCEPT ![w].at = "activate", ![w].r = r]
        PROVE  Goal
    <3> DEFINE Jobs == [at : JobLabels, r : Researchers \cup {"none"},
                        verdict : Verdicts \cup {"none"}]
               new == [job[w] EXCEPT !.at = "activate", !.r = r]
    <3>1. job \in [Workers -> Jobs] /\ "activate" \in JobLabels
      BY DEF JobShape, JobLabels
    <3>2. new \in Jobs /\ new.at = "activate" /\ new.r = r
      BY <3>1
    <3>3. job' = [job EXCEPT ![w] = new]
      BY <2>2, <3>1
    <3> HIDE DEF Jobs, new
    <3>4. /\ job'[w] = new /\ job' \in [Workers -> Jobs]
          /\ \A v \in Workers \ {w} : job'[v] = job[v]
      BY <3>1, <3>2, <3>3
    <3> QED
      BY <2>2, <3>2, <3>4 DEF JobShape, WorkflowShape, Jobs
  <2> QED
    BY <1>13, <2>1, <2>2 DEF Pick
<1>14. CASE Look(w)
  <2>1. PICK r \in Planned :
          job' = [job EXCEPT ![w].at = "seat", ![w].r = r, ![w].verdict = Decision(r)]
    BY <1>14 DEF Look
  <2>2. Decision(r) \in Verdicts /\ Decision(r) # "none" /\ r \in Researchers
    BY DEF Decision, Verdicts, Planned
  <2>3. /\ job'[w].at = "seat" /\ job'[w].r = r /\ job'[w].verdict = Decision(r)
        /\ \A v \in Workers \ {w} : job'[v] = job[v]
        /\ job' \in [Workers -> [at : JobLabels, r : Researchers \cup {"none"},
                                 verdict : Verdicts \cup {"none"}]]
    <3>1. "seat" \in JobLabels
      BY DEF JobLabels
    <3> QED
      BY <2>1, <2>2, <3>1 DEF JobShape
  <2> QED
    BY <1>14, <2>2, <2>3 DEF JobShape, WorkflowShape, Look
<1>15. CASE Report(w)
  BY <1>15, <1>1 DEF Report
<1> QED
  BY <1>4, <1>5, <1>6, <1>7, <1>8, <1>9, <1>10, <1>11, <1>12, <1>13, <1>14, <1>15
     DEF Work

\* The last stage of every request.
LEMMA StageIndex ==
  ASSUME NEW op \in Ops
  PROVE  /\ Len(Stages[op]) \in {2, 3, 4, 5}
         /\ DOMAIN Stages[op] = 1 .. Len(Stages[op])
         /\ op # "none"
<1>1. Ops = {"approve", "reject", "revise", "close", "cancel", "schedule"}
  BY DEF Ops, Stages
<1>2. CASE op \in {"approve", "revise", "close"}
  <2>1. PICK x, y, z : Stages[op] = <<x, y, z>>
    <3>1. /\ Stages["approve"] = <<"status", "events", "approve">>
          /\ Stages["revise"] = <<"status", "events", "grant">>
          /\ Stages["close"] = <<"status", "mark_closed", "cancel">>
      BY DEF Stages
    <3> QED
      BY <1>2, <3>1, Zenon
  <2>2. Len(Stages[op]) = 3 /\ DOMAIN Stages[op] = 1 .. 3
    BY <2>1
  <2> QED
    BY <1>2, <2>2
<1>3. CASE op = "reject"
  <2>1. Stages["reject"] = <<"status", "reject">>
    BY DEF Stages
  <2> QED
    BY <1>3, <2>1
<1>4. CASE op = "cancel"
  <2>1. Stages["cancel"] = <<"events", "status", "cancel", "signal">>
    BY DEF Stages
  <2> QED
    BY <1>4, <2>1
<1>5. CASE op = "schedule"
  <2>1. Stages["schedule"] =
          <<"status", "events", "mark_scheduled", "status", "start">>
    BY DEF Stages
  <2>2. Len(Stages["schedule"]) = 5 /\ DOMAIN Stages["schedule"] = 1 .. 5
    BY <2>1
  <2> QED
    BY <1>5, <2>2
<1> QED
  BY <1>1, <1>2, <1>3, <1>4, <1>5

\* A request that moves on stays within its stages, or is done.
LEMMA RequestMoves ==
  ASSUME RequestShape, NEW c \in Callers, req[c] # IdleReq,
         Advance(c) \/ Drop(c)
  PROVE  RequestShape'
<1>1. IdleReq \in [op : Ops \cup {"none"}, i : Nat]
  BY DEF IdleReq
<1>2. req[c].op \in Ops /\ req[c].i \in DOMAIN Stages[req[c].op] /\ req[c].i \in Nat
  BY DEF RequestShape
<1>3. CASE Drop(c)
  BY <1>1, <1>3 DEF Drop, RequestShape
<1>4. CASE Advance(c) /\ req[c].i # Len(Stages[req[c].op])
  <2> DEFINE next == [op |-> req[c].op, i |-> req[c].i + 1]
  <2>1. req' = [req EXCEPT ![c] = next]
    BY <1>4 DEF Advance
  <2>2. req[c].i + 1 \in DOMAIN Stages[req[c].op] /\ req[c].i + 1 \in Nat
    BY <1>2, <1>4, StageIndex
  <2>3. next \in [op : Ops \cup {"none"}, i : Nat]
    BY <1>2, <2>2
  <2>4. next.op \in Ops /\ next.i \in DOMAIN Stages[next.op]
    BY <1>2, <2>2
  <2> HIDE DEF next
  <2> QED
    BY <2>1, <2>3, <2>4 DEF RequestShape
<1> QED
  BY <1>3, <1>4 DEF Advance

\* Requests start the workflow, interrupt it, or leave it alone.
LEMMA ServeShape ==
  ASSUME WorkflowShape, RequestShape, NEW c \in Callers, Serve(c)
  PROVE  WorkflowShape' /\ RequestShape'
<1>1. req[c] # IdleReq
  BY DEF Serve, ReadStatus, ReadEvents, Check, Approve, Reject, GrantRevision,
         MarkClosed, Cancel, MarkScheduled, Write, StartWorkflow, SignalCancel, Stage
<1>2. Advance(c) \/ Drop(c)
  BY DEF Serve, ReadStatus, ReadEvents, Check, Approve, Reject, GrantRevision,
         MarkClosed, Cancel, MarkScheduled, Write, StartWorkflow, SignalCancel
<1>3. wf' = wf \/ wf' = Await("execute", 1) \/ wf' = AfterFailure
  BY DEF Serve, ReadStatus, ReadEvents, Check, Approve, Reject, GrantRevision,
         MarkClosed, Cancel, MarkScheduled, Write, StartWorkflow, SignalCancel
<1>4. wf' = Await("execute", 1) => WorkflowShape'
  BY BudgetAssumption DEF WorkflowShape, Await, Activities
<1>5. wf' = wf => WorkflowShape'
  BY DEF WorkflowShape
<1> QED
  BY <1>1, <1>2, <1>3, <1>4, <1>5, RequestMoves, AfterShape

FaultsTyped == faults \in [FaultKinds -> 0 .. MaxFaults]

\* Faults are counted up to their bound.
LEMMA FaultsStep ==
  ASSUME FaultsTyped, NEW kind, Fault(kind)
  PROVE  FaultsTyped'
<1>1. kind \in FaultKinds /\ MaxFaults \in Nat
  BY FaultAssumption DEF Fault
<1>2. /\ faults["crash"] \in 0 .. MaxFaults /\ faults["outage"] \in 0 .. MaxFaults
      /\ faults["timeout"] \in 0 .. MaxFaults /\ faults[kind] \in 0 .. MaxFaults
  BY <1>1 DEF FaultsTyped, FaultKinds
<1>3. faults[kind] + 1 \in 0 .. MaxFaults
  BY <1>1, <1>2 DEF Fault, FaultCount, FaultKinds
<1> QED
  BY <1>3 DEF Fault, FaultsTyped

\* Every step of the runtime keeps the shape of the process state.
LEMMA ShapeStep ==
  Shape /\ FaultsTyped /\ [DurableNext]_vars => Shape' /\ FaultsTyped'
<1> SUFFICES ASSUME Shape, FaultsTyped, [DurableNext]_vars
             PROVE  Shape' /\ FaultsTyped'
  OBVIOUS
<1>0. JobShape /\ WorkflowShape /\ RequestShape
  BY DEF Shape
<1>1. UNCHANGED job => JobShape'
  BY <1>0 DEF JobShape
<1>2. UNCHANGED wf => WorkflowShape'
  BY <1>0 DEF WorkflowShape
<1>3. UNCHANGED req => RequestShape'
  BY <1>0 DEF RequestShape
<1>4. UNCHANGED faults => FaultsTyped'
  BY DEF FaultsTyped
<1>5. CASE StartPlanning \/ StorePlan \/ Expire \/ UNCHANGED vars
  BY <1>5, <1>1, <1>2, <1>3, <1>4
     DEF StartPlanning, StorePlan, Expire, vars, procVars, Shape
<1>6. ASSUME NEW w \in Workers, Poll(w) PROVE Shape' /\ FaultsTyped'
  <2>1. wf.at \in Activities /\ wf.task = "queued" /\ wf' = [wf EXCEPT !.task = w]
    BY <1>6, <1>0 DEF Poll, WorkflowShape
  <2>2. WorkflowShape'
    BY <2>1, <1>0 DEF WorkflowShape
  <2>3. PICK next \in {"validate_execute", "validate_review", "validate_escalate"} :
          Jump(w, next)
    BY <2>1, <1>6 DEF Poll, Activities
  <2>4. JobShape'
    <3>1. next \in JobLabels /\ next \notin AtResearcher /\ next # "seat"
      BY DEF JobLabels, AtResearcher
    <3> QED
      BY <2>3, <3>1, <1>0, JumpShape
  <2> QED
    BY <2>2, <2>4, <1>6, <1>3, <1>4 DEF Poll, Shape
<1>7. ASSUME NEW w \in Workers, CallDirectly(w) PROVE Shape' /\ FaultsTyped'
  <2>1. PICK next \in {"begin", "look"} : Jump(w, next)
    BY <1>7 DEF CallDirectly
  <2>2. next \in JobLabels /\ next \notin AtResearcher /\ next # "seat"
    BY DEF JobLabels, AtResearcher
  <2>3. JobShape'
    BY <2>1, <2>2, <1>0, JumpShape
  <2> QED
    BY <2>3, <1>7, <1>2, <1>3, <1>4 DEF CallDirectly, Shape
<1>8. ASSUME NEW w \in Workers, Work(w) PROVE Shape' /\ FaultsTyped'
  <2>1. UNCHANGED <<req, faults>>
    BY <1>8 DEF Work
  <2> QED
    BY <2>1, <1>8, <1>0, <1>3, <1>4, WorkShape DEF Shape
<1>9. ASSUME NEW w \in Workers, Crash(w) \/ Outage(w) PROVE Shape' /\ FaultsTyped'
  <2>1. End(w, [wf EXCEPT !.task = "lost"]) \/ End(w, AfterFailure)
    BY <1>9 DEF Crash, Outage, Raise
  <2>2. UNCHANGED req /\ (Fault("crash") \/ Fault("outage"))
    BY <1>9 DEF Crash, Outage
  <2> QED
    BY <2>1, <2>2, <1>0, <1>3, EndShape, FaultsStep DEF Shape
<1>10. CASE SlowTimeout \/ LostTimeout
  <2>1. wf' = AfterFailure /\ UNCHANGED <<job, req>>
    BY <1>10 DEF SlowTimeout, LostTimeout
  <2>2. FaultsTyped'
    BY <1>10, <1>4, FaultsStep DEF SlowTimeout, LostTimeout
  <2> QED
    BY <2>1, <2>2, <1>0, <1>1, <1>3, AfterShape DEF Shape
<1>11. ASSUME NEW c \in Callers, Serve(c) PROVE Shape' /\ FaultsTyped'
  <2>1. UNCHANGED <<job, faults>>
    BY <1>11 DEF Serve
  <2> QED
    BY <2>1, <1>11, <1>0, <1>1, <1>4, ServeShape DEF Shape
<1>12. ASSUME NEW c \in Callers, Abandon(c) PROVE Shape' /\ FaultsTyped'
  BY <1>12, <1>0, <1>1, <1>2, <1>4, RequestMoves DEF Abandon, Shape
<1>13. ASSUME NEW c \in Callers, NEW op \in Ops, Ask(c, op) PROVE Shape' /\ FaultsTyped'
  <2>1. req' = [req EXCEPT ![c] = [op |-> op, i |-> 1]]
    BY <1>13 DEF Ask
  <2>2. 1 \in DOMAIN Stages[op]
    BY StageIndex
  <2>3. RequestShape'
    BY <2>1, <2>2, <1>0 DEF RequestShape
  <2> QED
    BY <2>3, <1>13, <1>1, <1>2, <1>4 DEF Ask, Shape
<1> QED
  BY <1>5, <1>6, <1>7, <1>8, <1>9, <1>10, <1>11, <1>12, <1>13 DEF DurableNext

-----------------------------------------------------------------------------
(* Whatever acts on a run, it acts through the store's transactions.        *)

\* A step of an activity is a store transaction or leaves the store alone.
LEMMA WorkStore ==
  ASSUME JobShape, NEW w \in Workers, Work(w) PROVE [Next]_storeVars
<1>1. job[w].at \in AtResearcher => job[w].r \in Researchers
  BY DEF JobShape
<1>2. ASSUME Raise(w) \/ (\E s : Return(w, s)) PROVE UNCHANGED storeVars
  BY <1>2 DEF Raise, Return
<1>3. CASE \/ ValidateExecute(w) \/ ValidateReview(w) \/ ValidateEscalate(w)
           \/ Begin(w) \/ Gate(w) \/ Pick(w) \/ Search(w) \/ Extract(w)
           \/ Look(w) \/ Report(w)
  BY <1>3, <1>2
     DEF ValidateExecute, ValidateReview, ValidateEscalate, Begin, Gate, Pick,
         Search, Extract, Look, Report, Read
<1>4. CASE Enter(w) \/ Submit(w) \/ Abort(w) \/ Close(w) \/ HandOver(w) \/ Halt(w)
  <2>1. \/ UNCHANGED storeVars
        \/ \E next \in {"executing", "reviewing", "failed", "completed", "needs_attention"} :
             TransitionRun(next)
    BY <1>4, <1>2 DEF Enter, Submit, Abort, Close, HandOver, Halt, Attempt
  <2> QED
    BY <2>1 DEF Next, TransitionTargets
<1>5. CASE Activate(w) \/ Complete(w) \/ Fail(w) \/ Revise(w)
  <2>1. job[w].r \in Researchers
    BY <1>1, <1>5 DEF Activate, Complete, Fail, Revise, Attempt, AtResearcher
  <2>2. \/ UNCHANGED storeVars
        \/ ActivateStep(job[w].r, "executing") \/ CompleteStep(job[w].r)
        \/ FailStep(job[w].r) \/ RequestRevision(job[w].r)
    BY <1>5, <1>2 DEF Activate, Complete, Fail, Revise, Attempt
  <2> QED
    BY <2>1, <2>2 DEF Next
<1>6. CASE Seat(w) \/ Accept(w) \/ Unseat(w)
  BY <1>6, <1>2 DEF Seat, Accept, Unseat, Attempt, Next
<1>7. CASE Remember(w) \/ Unresolved(w) \/ Flag(w)
  <2>1. \/ UNCHANGED storeVars \/ RecordSource
        \/ RecordEvent(ReviewUnresolved) \/ RecordEvent(DurableAmbiguity)
    BY <1>7, <1>2 DEF Remember, Unresolved, Flag, Attempt
  <2>2. {ReviewUnresolved, DurableAmbiguity} \subseteq EventTypes \ {ExceptionGranted}
    BY DEF EventTypes, ReviewUnresolved, DurableAmbiguity, ExceptionGranted
  <2> QED
    BY <2>1, <2>2 DEF Next
<1> QED
  BY <1>3, <1>4, <1>5, <1>6, <1>7 DEF Work

\* So is a stage of a request.
LEMMA ServeStore ==
  ASSUME NEW c \in Callers, Serve(c) PROVE [Next]_storeVars
<1>1. CASE ReadStatus(c) \/ ReadEvents(c) \/ StartWorkflow(c) \/ SignalCancel(c)
  BY <1>1 DEF ReadStatus, ReadEvents, Check, StartWorkflow, SignalCancel
<1>2. CASE Reject(c) \/ Cancel(c)
  <2>1. \/ UNCHANGED storeVars
        \/ \E next \in {"rejected", "cancelled"} : TransitionRun(next)
    BY <1>2 DEF Reject, Cancel, Write
  <2> QED
    BY <2>1 DEF Next, TransitionTargets
<1>3. CASE GrantRevision(c)
  BY <1>3 DEF GrantRevision, Planned, Write, Next
<1>4. CASE Approve(c) \/ MarkClosed(c) \/ MarkScheduled(c)
  <2>1. \E e \in {Approved, AttentionClosed, Scheduled} : RecordEvent(e)
    BY <1>4 DEF Approve, MarkClosed, MarkScheduled, Write
  <2>2. {Approved, AttentionClosed, Scheduled} \subseteq EventTypes \ {ExceptionGranted}
    BY DEF EventTypes, Approved, AttentionClosed, Scheduled, ExceptionGranted
  <2> QED
    BY <2>1, <2>2 DEF Next
<1> QED
  BY <1>1, <1>2, <1>3, <1>4 DEF Serve

\* Every step of the runtime is a store transaction or leaves the store alone.
LEMMA StoreStep == JobShape /\ [DurableNext]_vars => [Next]_storeVars
<1> SUFFICES ASSUME JobShape, [DurableNext]_vars PROVE [Next]_storeVars
  OBVIOUS
<1>1. CASE StartPlanning \/ StorePlan \/ Expire
  BY <1>1 DEF StartPlanning, StorePlan, Expire, Next, TransitionTargets
<1>2. CASE \/ UNCHANGED vars \/ SlowTimeout \/ LostTimeout
           \/ \E w \in Workers : Poll(w) \/ CallDirectly(w) \/ Crash(w) \/ Outage(w)
           \/ \E c \in Callers : Abandon(c) \/ \E op \in Ops : Ask(c, op)
  BY <1>2 DEF vars, SlowTimeout, LostTimeout, Poll, CallDirectly, Crash, Outage,
              Raise, Abandon, Ask
<1> QED
  BY <1>1, <1>2, WorkStore, ServeStore DEF DurableNext

\* The runtime starts in the shape its steps keep.
LEMMA ShapeInit == DurableInit => TypeOK /\ Shape /\ FaultsTyped
<1> SUFFICES ASSUME DurableInit PROVE TypeOK /\ Shape /\ FaultsTyped
  OBVIOUS
<1>1. TypeOK
  BY TypeInit DEF DurableInit
<1>2. JobShape
  BY DEF DurableInit, JobShape, IdleJob, JobLabels, AtResearcher
<1>3. WorkflowShape
  BY BudgetAssumption DEF DurableInit, WorkflowShape, NoWorkflow
<1>4. RequestShape
  BY DEF DurableInit, RequestShape, IdleReq
<1>5. FaultsTyped
  BY FaultAssumption DEF DurableInit, FaultsTyped
<1> QED
  BY <1>1, <1>2, <1>3, <1>4, <1>5 DEF Shape

\* Every run of the runtime is a run of its store: requests, activities, the
\* workflow and direct calls, in any interleaving and with any faults, change
\* the persisted state by the store's transactions only.
THEOREM RuntimeImplementsStore == DurableSpec => Spec
<1>1. DurableInit => Init
  BY DEF DurableInit
<1> QED
  BY <1>1, ShapeInit, ShapeStep, StoreStep, PTL DEF DurableSpec, Spec, Shape

\* The state every property of the runtime rests on.
DurableShape == TypeOK /\ Shape /\ FaultsTyped

\* Its shape and its types hold in every state of the runtime.
LEMMA DurableShaped == DurableSpec => []DurableShape
BY ShapeInit, ShapeStep, StoreStep, TypeStep, PTL DEF DurableSpec, Shape, DurableShape

\* Every state of the runtime is well typed, whatever faults strike.
THEOREM DurableTyped == DurableSpec => []DurableTypeOK
<1>1. DurableShape => DurableTypeOK
  BY DEF DurableShape, Shape, JobShape, WorkflowShape, RequestShape, FaultsTyped,
         DurableTypeOK, Verdicts, Activities
<1> QED
  BY <1>1, DurableShaped, PTL

\* No interleaving of activities, requests and late workers starts a
\* researcher more often than its budget and the operators' grants allow.
THEOREM RuntimeWithinBudget == DurableSpec => []AttemptBudget
BY RuntimeImplementsStore, AttemptsWithinBudget, PTL

\* The whole runtime implements the governed run.
THEOREM RuntimeIsGoverned == DurableSpec => ImplementsGovernedRun
BY RuntimeImplementsStore, StoreImplementsGovernedRun

-----------------------------------------------------------------------------
(* Approval.  The invariant says what is still untouched while no approval  *)
(* is on record; WorkIsApproved alone is not inductive, since activities    *)
(* and requests act on what they read earlier.                              *)

OnRecord == events[Approved] > 0

\* Where an activity may be while no approval is on record.
Ungated == {"idle", "begin", "gate", "look", "seat"}

Untouched ==
  /\ wf.at = "none"
  /\ status \notin {"executing", "reviewing", "completed", "needs_attention"}
  /\ \A r \in Researchers : attempts[r] = 0
  /\ \A w \in Workers : job[w].at \in Ungated
  /\ \A c \in Callers : req[c].op = "schedule" => req[c].i <= 2

ApprovalInv == OnRecord \/ Untouched

\* What each stage of a request is, by operation and index.
LEMMA StageTable ==
  ASSUME NEW op \in Ops, NEW i \in DOMAIN Stages[op]
  PROVE  /\ i \in 1 .. 5
         /\ Stages[op][i] = "status" =>
              \/ i = 1 /\ op # "cancel"
              \/ i = 2 /\ op = "cancel"
              \/ i = 4 /\ op = "schedule"
         /\ Stages[op][i] = "events" =>
              \/ i = 1 /\ op = "cancel"
              \/ i = 2 /\ op \in {"approve", "revise", "schedule"}
         /\ Stages[op][i] = "approve" => op = "approve"
         /\ Stages[op][i] = "grant" => i = 3 /\ op = "revise"
         /\ Stages[op][i] = "mark_scheduled" => i = 3 /\ op = "schedule"
         /\ Stages[op][i] = "start" => i = 5 /\ op = "schedule"
<1>1. Ops = {"approve", "reject", "revise", "close", "cancel", "schedule"}
  BY DEF Ops, Stages
<1>2. CASE op = "approve"
  <2>1. Stages[op] = <<"status", "events", "approve">>
    BY <1>2 DEF Stages
  <2> QED
    BY <1>2, <2>1
<1>3. CASE op = "reject"
  <2>1. Stages[op] = <<"status", "reject">>
    BY <1>3 DEF Stages
  <2> QED
    BY <1>3, <2>1
<1>4. CASE op = "revise"
  <2>1. Stages[op] = <<"status", "events", "grant">>
    BY <1>4 DEF Stages
  <2> QED
    BY <1>4, <2>1
<1>5. CASE op = "close"
  <2>1. Stages[op] = <<"status", "mark_closed", "cancel">>
    BY <1>5 DEF Stages
  <2> QED
    BY <1>5, <2>1
<1>6. CASE op = "cancel"
  <2>1. Stages[op] = <<"events", "status", "cancel", "signal">>
    BY <1>6 DEF Stages
  <2> QED
    BY <1>6, <2>1
<1>7. CASE op = "schedule"
  <2>1. Stages[op] = <<"status", "events", "mark_scheduled", "status", "start">>
    BY <1>7 DEF Stages
  <2> QED
    BY <1>7, <2>1
<1> QED
  BY <1>1, <1>2, <1>3, <1>4, <1>5, <1>6, <1>7

\* What a stage of a request says of the operation it belongs to.
LEMMA StageFacts ==
  ASSUME RequestShape, NEW c \in Callers, Stage(c) # "none"
  PROVE  /\ req[c] # IdleReq
         /\ req[c].op \in Ops /\ req[c].i \in DOMAIN Stages[req[c].op]
         /\ Stage(c) = Stages[req[c].op][req[c].i]
BY DEF RequestShape, Stage

\* A request that moves on keeps its operation and takes the next index; one
\* that is done or dropped leaves an idle caller.
LEMMA RequestStep ==
  ASSUME RequestShape, NEW c \in Callers, Advance(c) \/ Drop(c)
  PROVE  /\ \A d \in Callers \ {c} : req'[d] = req[d]
         /\ \/ req'[c] = IdleReq
            \/ Advance(c) /\ req'[c].op = req[c].op /\ req'[c].i = req[c].i + 1
BY DEF RequestShape, Advance, Drop

\* Where an activity is tells which action it takes next.
LEMMA UngatedWork ==
  ASSUME NEW w \in Workers, Work(w), job[w].at \in Ungated
  PROVE  \/ job[w].at = "begin" /\ Begin(w)
         \/ job[w].at = "gate" /\ Gate(w)
         \/ job[w].at = "look" /\ Look(w)
         \/ job[w].at = "seat" /\ Seat(w)
BY DEF Work, Begin, Gate, Enter, Pick, Activate, Search, Extract, Remember,
       Complete, Submit, Fail, Abort, ValidateExecute, ValidateReview, Look, Seat,
       Accept, Close, Revise, Unresolved, Unseat, HandOver, ValidateEscalate, Flag,
       Halt, Report, Attempt, Read, Ungated

\* With no approval on record, an activity gets no further than the gate.
LEMMA UntouchedWork ==
  ASSUME Shape, TypeOK, ~OnRecord, Untouched, NEW w \in Workers, Work(w)
  PROVE  Untouched'
<1>0. JobShape /\ WorkflowShape
  BY DEF Shape
<1>1. wf.task # w
  BY <1>0, WorkersAssumption DEF WorkflowShape, Untouched, Activities
<1>2. job[w].at \in Ungated
  BY DEF Untouched
<1>3. ASSUME NEW next \in Ungated, Jump(w, next), UNCHANGED wf, UNCHANGED storeVars
      PROVE  Untouched'
  <2>1. \A v \in Workers : job'[v].at \in Ungated
    BY <1>0, <1>3 DEF Jump, JobShape, Untouched
  <2> QED
    BY <1>3, <2>1 DEF Untouched, storeVars, Work
<1>4. CASE Raise(w) \/ (\E s : Return(w, s))
  <2>1. UNCHANGED wf /\ UNCHANGED storeVars /\ job' = [job EXCEPT ![w] = IdleJob]
    BY <1>1, <1>4 DEF Raise, Return, End
  <2>2. \A v \in Workers : job'[v].at \in Ungated
    BY <1>0, <2>1 DEF JobShape, Untouched, IdleJob, Ungated
  <2> QED
    BY <2>1, <2>2 DEF Untouched, storeVars, Work
<1>5. CASE job[w].at = "begin"
  <2>1. Raise(w) \/ Read(w, "begin", "gate")
    BY <1>2, <1>5, UngatedWork DEF Begin, Untouched
  <2> QED
    BY <2>1, <1>3, <1>4 DEF Read, Ungated
<1>6. CASE job[w].at = "gate"
  <2>1. ~(events[Approved] > 0)
    BY DEF OnRecord
  <2>2. Gate(w)
    BY <1>2, <1>6, UngatedWork
  <2> QED
    BY <2>1, <2>2, <1>4 DEF Gate
<1>7. CASE job[w].at = "look"
  <2>1. Look(w)
    BY <1>2, <1>7, UngatedWork
  <2>2. \A v \in Workers : job'[v].at \in Ungated
    BY <1>0, <2>1 DEF Look, JobShape, Untouched, Ungated
  <2> QED
    BY <2>1, <2>2 DEF Look, Untouched, storeVars, Work
<1>8. CASE job[w].at = "seat"
  <2>1. Seat(w)
    BY <1>2, <1>8, UngatedWork
  <2>2. ~CanActivate(Reviewer, "reviewing")
    BY DEF CanActivate, Untouched
  <2> QED
    BY <2>1, <2>2, <1>4 DEF Seat, Attempt
<1>9. job[w].at # "idle"
  BY <1>2, UngatedWork
<1> QED
  BY <1>2, <1>5, <1>6, <1>7, <1>8, <1>9 DEF Ungated

\* Nor does a request get further than the check of the events, except to
\* approve, reject or cancel.
LEMMA UntouchedServe ==
  ASSUME Shape, TypeOK, ~OnRecord, Untouched, NEW c \in Callers, Serve(c)
  PROVE  Untouched' \/ OnRecord'
<1> DEFINE Early == \A d \in Callers : req[d].op = "schedule" => req[d].i <= 2
           op == req[c].op
<1>0. RequestShape /\ WorkflowShape /\ JobShape
  BY DEF Shape
<1>1. UNCHANGED job
  BY DEF Serve
<1>2. Stage(c) \notin {"start", "mark_scheduled"}
  <2>1. SUFFICES ASSUME Stage(c) \in {"start", "mark_scheduled"} PROVE FALSE
    OBVIOUS
  <2>2. req[c].op = "schedule" /\ req[c].i > 2
    BY <1>0, <2>1, StageFacts, StageTable
  <2> QED
    BY <2>2, <1>0 DEF Untouched, RequestShape
<1>3. ASSUME Advance(c) \/ Drop(c), op = "schedule" => Drop(c) \/ req[c].i = 1
      PROVE  Early'
  <2>1. Drop(c) => req'[c] = IdleReq
    BY <1>0 DEF Drop, RequestShape
  <2>2. req'[c].op = "schedule" => req'[c].i <= 2
    BY <2>1, <1>0, <1>3, RequestStep DEF IdleReq
  <2>3. \A d \in Callers \ {c} : req'[d] = req[d]
    BY <1>0, <1>3, RequestStep
  <2> QED
    BY <2>2, <2>3 DEF Untouched
<1>4. ASSUME Early', UNCHANGED <<wf, attempts>>,
             status' \in {status, "rejected", "cancelled"}
      PROVE  Untouched'
  BY <1>1, <1>4 DEF Untouched
<1>5. Stage(c) \in {"reject", "cancel", "mark_closed", "signal"} => op # "schedule"
  <2>1. Stages["schedule"] = <<"status", "events", "mark_scheduled", "status", "start">>
    BY DEF Stages
  <2> QED
    BY <2>1, <1>0, StageFacts
<1> HIDE DEF Early, op
<1>6. CASE Approve(c)
  <2>1. AppendEvent(Approved) /\ events[Approved] \in 0 .. EventCap
    BY <1>6 DEF Approve, Write, RecordEvent, TypeOK, EventTypes
  <2>2. events'[Approved] > 0
    BY <2>1, BudgetAssumption DEF AppendEvent, TypeOK, EventTypes
  <2> QED
    BY <2>2 DEF OnRecord
<1>7. CASE GrantRevision(c)
  <2>1. UNCHANGED storeVars /\ Drop(c) /\ UNCHANGED wf
    BY <1>7 DEF GrantRevision, Write, CanGrantException, Untouched
  <2> QED
    BY <2>1, <1>3, <1>4 DEF storeVars
<1>8. CASE Reject(c) \/ Cancel(c) \/ MarkClosed(c) \/ SignalCancel(c)
  <2>1. /\ UNCHANGED <<wf, attempts>>
        /\ status' \in {status, "rejected", "cancelled"}
        /\ Advance(c) \/ Drop(c)
        /\ Stage(c) \in {"reject", "cancel", "mark_closed", "signal"}
    BY <1>8 DEF Reject, Cancel, MarkClosed, SignalCancel, Write, TransitionRun,
                RecordEvent, storeVars, Untouched
  <2> QED
    BY <2>1, <1>3, <1>4, <1>5
<1>9. CASE ReadStatus(c)
  <2>1. UNCHANGED <<storeVars, wf>> /\ (Advance(c) \/ Drop(c)) /\ Stage(c) = "status"
    BY <1>9 DEF ReadStatus, Check
  <2>2. op = "schedule" => req[c].i = 1
    BY <1>0, <2>1, StageFacts, StageTable DEF Untouched, op
  <2> QED
    BY <2>1, <2>2, <1>3, <1>4 DEF storeVars
<1>10. CASE ReadEvents(c)
  <2>1. UNCHANGED <<storeVars, wf>> /\ (Advance(c) \/ Drop(c))
    BY <1>10 DEF ReadEvents, Check
  <2>2. op = "schedule" => ~EventGate(req[c].op)
    BY DEF EventGate, OnRecord, op
  <2>3. op = "schedule" => Drop(c)
    BY <2>2, <1>10 DEF ReadEvents, Check
  <2> QED
    BY <2>1, <2>3, <1>3, <1>4 DEF storeVars
<1> QED
  BY <1>2, <1>6, <1>7, <1>8, <1>9, <1>10
     DEF Serve, MarkScheduled, StartWorkflow, Write

\* While no approval is on record the run stays untouched by its runtime.
LEMMA ApprovalStep ==
  DurableShape /\ ApprovalInv /\ [DurableNext]_vars => ApprovalInv'
<1> SUFFICES ASSUME DurableShape, ApprovalInv, [DurableNext]_vars PROVE ApprovalInv'
  OBVIOUS
<1>0. TypeOK /\ Shape /\ JobShape /\ WorkflowShape /\ RequestShape
  BY DEF DurableShape, Shape
<1>1. CASE OnRecord
  BY <1>0, <1>1, StoreStep, EventsKept DEF OnRecord, ApprovalInv, EventTypes
<1>2. CASE ~OnRecord
  <2>0. Untouched
    BY <1>2 DEF ApprovalInv
  <2>1. wf.at = "none" /\ wf.task = "none"
    BY <1>0, <2>0 DEF Untouched, WorkflowShape, Activities
  <2>2. CASE UNCHANGED vars
    BY <2>0, <2>2 DEF vars, procVars, storeVars, Untouched, ApprovalInv
  <2>3. CASE StartPlanning \/ StorePlan \/ Expire
    BY <2>0, <2>3 DEF StartPlanning, StorePlan, Expire, TransitionRun,
       MaterializePlan, ExpireSources, procVars, Untouched, ApprovalInv
  <2>4. CASE SlowTimeout \/ LostTimeout \/ \E w \in Workers : Poll(w)
    BY <2>1, <2>4, WorkersAssumption DEF SlowTimeout, LostTimeout, Poll
  <2>5. ASSUME NEW w \in Workers, CallDirectly(w) PROVE ApprovalInv'
    <3>1. \A v \in Workers : job'[v].at \in Ungated
      BY <1>0, <2>0, <2>5 DEF CallDirectly, Jump, JobShape, Untouched, Ungated
    <3> QED
      BY <2>0, <2>5, <3>1 DEF CallDirectly, storeVars, Untouched, ApprovalInv
  <2>6. ASSUME NEW w \in Workers, Work(w) PROVE ApprovalInv'
    BY <1>0, <1>2, <2>0, <2>6, UntouchedWork DEF ApprovalInv
  <2>7. ASSUME NEW w \in Workers, Crash(w) \/ Outage(w) PROVE ApprovalInv'
    <3>1. /\ UNCHANGED <<storeVars, req>> /\ job' = [job EXCEPT ![w] = IdleJob]
          /\ UNCHANGED wf
      BY <2>1, <2>7, WorkersAssumption DEF Crash, Outage, Raise, End
    <3>2. \A v \in Workers : job'[v].at \in Ungated
      BY <1>0, <2>0, <3>1 DEF JobShape, IdleJob, Untouched, Ungated
    <3> QED
      BY <2>0, <3>1, <3>2 DEF storeVars, Untouched, ApprovalInv
  <2>8. ASSUME NEW c \in Callers, Serve(c) PROVE ApprovalInv'
    BY <1>0, <1>2, <2>0, <2>8, UntouchedServe DEF ApprovalInv
  <2>9. ASSUME NEW c \in Callers, Abandon(c) \/ \E op \in Ops : Ask(c, op)
        PROVE ApprovalInv'
    <3>1. UNCHANGED <<storeVars, job, wf>>
      BY <2>9 DEF Abandon, Ask
    <3>2. /\ req'[c].i = 1
          /\ \A d \in Callers \ {c} : req'[d] = req[d]
      BY <1>0, <2>9 DEF Abandon, Ask, Drop, IdleReq, RequestShape
    <3> QED
      BY <2>0, <3>1, <3>2 DEF storeVars, Untouched, ApprovalInv
  <2> QED
    BY <2>2, <2>3, <2>4, <2>5, <2>6, <2>7, <2>8, <2>9 DEF DurableNext
<1> QED
  BY <1>1, <1>2

\* A new run is untouched.
LEMMA ApprovalInit == DurableInit => ApprovalInv
<1> SUFFICES ASSUME DurableInit PROVE Untouched
  BY DEF ApprovalInv
<1>1. \A r \in Researchers : attempts[r] = 0
  BY DEF DurableInit, Init, Steps
<1> QED
  BY <1>1 DEF DurableInit, Init, NoWorkflow, IdleJob, IdleReq, Untouched, Ungated

\* No workflow and no researcher starts without an operator's approval on
\* record, whatever stale reads activities, requests and direct calls act on.
THEOREM ApprovalCorrect == DurableSpec => []WorkIsApproved
<1>1. DurableShape /\ ApprovalInv => WorkIsApproved
  <2> SUFFICES ASSUME DurableShape, Untouched PROVE WorkIsApproved
    BY DEF ApprovalInv, OnRecord, WorkIsApproved
  <2> QED
    BY DEF Untouched, WorkIsApproved
<1>2. DurableSpec => []ApprovalInv
  BY ApprovalInit, ApprovalStep, DurableShaped, PTL DEF DurableSpec
<1> QED
  BY <1>1, <1>2, DurableShaped, PTL

-----------------------------------------------------------------------------
(* Steps and their workers.                                                 *)

\* No step of a plan exists before the plan.
Drafted == status \in {"requested", "planning"} => step[Reviewer] = "absent"

\* The reviewer's step, like the researchers', comes into being with the plan.
LEMMA DraftedStep ==
  TypeOK /\ Drafted /\ [Next]_storeVars => Drafted'
<1> SUFFICES ASSUME TypeOK, Drafted, [Next]_storeVars,
                    status' \in {"requested", "planning"}
             PROVE  step'[Reviewer] = "absent"
  BY DEF Drafted
<1> USE StepsAssumption
<1>0. Reviewer \in Steps /\ Researchers \subseteq Steps \ {Reviewer}
  BY DEF Steps
<1>1. CASE \E next \in TransitionTargets : TransitionRun(next)
  BY <1>1 DEF TransitionRun, CanTransition, ALLOWED_TRANSITIONS, TypeOK, Statuses, Drafted
<1>2. ASSUME NEW s \in Steps,
             \/ ActivateStep(s, "executing") \/ ActivateStep(s, "reviewing")
             \/ CompleteStep(s) \/ FailStep(s)
      PROVE  step'[Reviewer] = "absent"
  <2>1. status' = status /\ step[Reviewer] = "absent"
    BY <1>2 DEF ActivateStep, CompleteStep, FailStep, Drafted
  <2> QED
    BY <1>0, <1>2, <2>1
       DEF ActivateStep, CanActivate, CompleteStep, CanComplete, FailStep, TypeOK
<1>3. ASSUME \/ \E plan \in SUBSET Researchers : MaterializePlan(plan)
             \/ \E r \in Researchers : RequestRevision(r) \/ AuthorizeExceptionRevision(r)
      PROVE  FALSE
  BY <1>3 DEF MaterializePlan, RequestRevision, AuthorizeExceptionRevision
<1>4. CASE \/ \E s, t \in Steps : CreateHandoff(s, t)
           \/ \E e \in EventTypes : RecordEvent(e)
           \/ RecordSource \/ ExpireSources \/ UNCHANGED storeVars
  BY <1>4 DEF CreateHandoff, RecordEvent, RecordSource, ExpireSources, storeVars, Drafted
<1> QED
  BY <1>0, <1>1, <1>2, <1>3, <1>4 DEF Next

\* Only researchers' steps and the reviewer's are ever held.
LEMMA HoldsSteps ==
  ASSUME JobShape, NEW w \in Workers
  PROVE  Holds(w) \subseteq Researchers \cup {Reviewer}
BY DEF Holds, JobShape, AtResearcher

\* One worker moves: what it holds afterwards is active and nobody else's, and
\* what the others hold stays active.
LEMMA OneMoves ==
  ASSUME OneWorkerPerStep, NEW w \in Workers,
         \A v \in Workers \ {w} : job'[v] = job[v],
         \A s \in Holds(w)' : step'[s] = "active" /\ \A v \in Workers \ {w} : s \notin Holds(v),
         \A v \in Workers \ {w} : \A s \in Holds(v) : step'[s] = "active"
  PROVE  OneWorkerPerStep'
<1>1. \A v \in Workers \ {w} : Holds(v)' = Holds(v)
  BY DEF Holds
<1> QED
  BY <1>1 DEF OneWorkerPerStep

\* A worker that moves without touching a step, to where it holds no more.
LEMMA LightMove ==
  ASSUME JobShape, OneWorkerPerStep, NEW w \in Workers, UNCHANGED step,
         \A v \in Workers \ {w} : job'[v] = job[v],
         Holds(w)' \subseteq Holds(w)
  PROVE  OneWorkerPerStep'
<1>1. \A s \in Holds(w) :
        step[s] = "active" /\ \A v \in Workers \ {w} : s \notin Holds(v)
  BY DEF OneWorkerPerStep
<1>2. \A v \in Workers \ {w} : \A s \in Holds(v) : step'[s] = "active"
  BY DEF OneWorkerPerStep
<1> QED
  BY <1>1, <1>2, OneMoves

\* An activity that ends holds nothing any more.
LEMMA EndHeld ==
  ASSUME JobShape, OneWorkerPerStep, NEW w \in Workers, UNCHANGED step,
         job' = [job EXCEPT ![w] = IdleJob]
  PROVE  OneWorkerPerStep'
<1>1. job'[w] = IdleJob /\ \A v \in Workers \ {w} : job'[v] = job[v]
  BY DEF JobShape
<1>2. Holds(w)' = {}
  BY <1>1 DEF Holds, IdleJob
<1> QED
  BY <1>1, <1>2, LightMove

\* A worker that activates a pending step is its only worker.
LEMMA GrabHeld ==
  ASSUME TypeOK, JobShape, OneWorkerPerStep, NEW w \in Workers, NEW s \in Steps,
         step[s] = "pending", step' = [step EXCEPT ![s] = "active"],
         \A v \in Workers \ {w} : job'[v] = job[v],
         Holds(w)' \subseteq {s}
  PROVE  OneWorkerPerStep'
<1>1. step'[s] = "active" /\ \A t \in Steps \ {s} : step'[t] = step[t]
  BY DEF TypeOK
<1>2. \A v \in Workers : s \notin Holds(v)
  BY DEF OneWorkerPerStep
<1>3. ASSUME NEW v \in Workers, NEW t \in Holds(v) PROVE step'[t] = "active"
  BY <1>1, <1>2, <1>3, HoldsSteps DEF OneWorkerPerStep, Steps
<1> QED
  BY <1>1, <1>2, <1>3, OneMoves

\* A worker gives up the step it holds, and reopens only steps nobody holds.
LEMMA ReleaseHeld ==
  ASSUME TypeOK, JobShape, OneWorkerPerStep, NEW w \in Workers,
         \A v \in Workers \ {w} : job'[v] = job[v],
         Holds(w)' = {},
         \A t \in Steps : t \in Holds(w) \/ step[t] # "active" \/ step'[t] = step[t]
  PROVE  OneWorkerPerStep'
<1>1. ASSUME NEW v \in Workers \ {w}, NEW t \in Holds(v) PROVE step'[t] = "active"
  <2>1. t \in Steps /\ step[t] = "active" /\ t \notin Holds(w)
    BY <1>1, HoldsSteps DEF OneWorkerPerStep, Steps
  <2> QED
    BY <2>1
<1> QED
  BY <1>1, OneMoves

\* A step of the store that touches no active step while no activity moves.
LEMMA StillHeld ==
  ASSUME TypeOK, JobShape, OneWorkerPerStep, UNCHANGED job,
         \A t \in Steps : step[t] # "active" \/ step'[t] = step[t]
  PROVE  OneWorkerPerStep'
<1>1. \A v \in Workers : Holds(v)' = Holds(v)
  BY DEF Holds
<1>2. \A v \in Workers : \A t \in Holds(v) : step'[t] = "active"
  BY HoldsSteps DEF OneWorkerPerStep, Steps
<1> QED
  BY <1>1, <1>2 DEF OneWorkerPerStep

\* A worker that moves on keeps what it remembers and leaves the others alone.
LEMMA Jumped ==
  ASSUME JobShape, NEW w \in Workers, NEW next, Jump(w, next)
  PROVE  /\ job'[w].at = next /\ job'[w].r = job[w].r
         /\ job'[w].verdict = job[w].verdict
         /\ \A v \in Workers \ {w} : job'[v] = job[v]
BY DEF JobShape, Jump

\* The labels at which an activity holds the step of its researcher, and
\* those at which it holds the reviewer's.
AtWork == {"search", "extract", "remember", "complete", "fail"}
AtReview == {"accepted", "revision_requested", "needs_attention", "unseat"}

\* No activity takes over a step another one holds.
LEMMA WorkHeld ==
  ASSUME TypeOK, JobShape, OneWorkerPerStep, NEW w \in Workers, Work(w)
  PROVE  OneWorkerPerStep'
<1> USE StepsAssumption
<1>0. /\ Reviewer \in Steps /\ Researchers \subseteq Steps \ {Reviewer}
      /\ job[w].at \in AtResearcher => job[w].r \in Researchers
  BY DEF Steps, JobShape
<1>1. CASE Raise(w) \/ (\E s : Return(w, s))
  BY <1>1, EndHeld DEF Raise, Return, End, storeVars
<1>2. ASSUME NEW next, Jump(w, next), UNCHANGED step, next \notin AtWork \cup AtReview
      PROVE  OneWorkerPerStep'
  <2>1. Holds(w)' = {}
    BY <1>2, Jumped DEF Holds, AtWork, AtReview
  <2> QED
    BY <1>2, <2>1, Jumped, LightMove
<1>3. CASE \/ ValidateExecute(w) \/ ValidateReview(w) \/ ValidateEscalate(w)
           \/ Begin(w) \/ Gate(w)
  BY <1>3, <1>1, <1>2
     DEF ValidateExecute, ValidateReview, ValidateEscalate, Begin, Gate, Read,
         storeVars, AtWork, AtReview
<1>4. CASE Enter(w) \/ Submit(w) \/ Abort(w) \/ Close(w) \/ HandOver(w) \/ Halt(w) \/ Flag(w)
  BY <1>4, <1>1, <1>2
     DEF Enter, Submit, Abort, Close, HandOver, Halt, Flag, Attempt, TransitionRun,
         RecordEvent, AtWork, AtReview
<1>5. CASE Search(w) \/ Extract(w) \/ Remember(w)
  <2>1. PICK next \in {"extract", "remember", "complete", "fail"} : Jump(w, next)
    BY <1>5 DEF Search, Extract, Remember, Attempt, Read
  <2>2. UNCHANGED step
    BY <1>5 DEF Search, Extract, Remember, Attempt, Read, RecordSource, storeVars
  <2>3. Holds(w)' = Holds(w)
    <3>1. job[w].at \in {"search", "extract", "remember"}
      BY <1>5 DEF Search, Extract, Remember, Attempt, Read
    <3> QED
      BY <2>1, <3>1, Jumped DEF Holds
  <2> QED
    BY <2>1, <2>2, <2>3, Jumped, LightMove
<1>6. CASE Unresolved(w)
  <2>1. Jump(w, "unseat") /\ UNCHANGED step /\ job[w].at = "needs_attention"
    BY <1>6 DEF Unresolved, Attempt, RecordEvent
  <2>2. Holds(w)' = Holds(w)
    BY <2>1, Jumped DEF Holds
  <2> QED
    BY <2>1, <2>2, Jumped, LightMove
<1>7. CASE Activate(w)
  <2>1. CASE Raise(w)
    BY <2>1, <1>1
  <2>2. CASE ActivateStep(job[w].r, "executing") /\ Jump(w, "search")
    <3>1. job[w].r \in Researchers
      BY <1>0, <1>7 DEF Activate, Attempt, AtResearcher
    <3>2. Holds(w)' \subseteq {job[w].r}
      BY <2>2, Jumped DEF Holds
    <3> QED
      BY <1>0, <2>2, <3>1, <3>2, Jumped, GrabHeld DEF ActivateStep, CanActivate
  <2> QED
    BY <1>7, <2>1, <2>2 DEF Activate, Attempt
<1>8. CASE Seat(w)
  <2>1. CASE Raise(w)
    BY <2>1, <1>1
  <2>2. CASE ActivateStep(Reviewer, "reviewing") /\ Jump(w, job[w].verdict)
    <3>1. job[w].verdict \in Verdicts
      BY <1>8 DEF Seat, Attempt, JobShape
    <3>2. Holds(w)' \subseteq {Reviewer}
      BY <2>2, <3>1, Jumped DEF Holds, Verdicts
    <3> QED
      BY <1>0, <2>2, <3>2, Jumped, GrabHeld DEF ActivateStep, CanActivate
  <2> QED
    BY <1>8, <2>1, <2>2 DEF Seat, Attempt
<1>9. CASE Complete(w) \/ Fail(w)
  <2>1. CASE Raise(w)
    BY <2>1, <1>1
  <2>2. CASE /\ CompleteStep(job[w].r) \/ FailStep(job[w].r)
             /\ Jump(w, "submit") \/ Jump(w, "abort")
    <3>1. Holds(w) = {job[w].r}
      BY <1>9 DEF Complete, Fail, Attempt, Holds
    <3>2. Holds(w)' = {}
      BY <2>2, Jumped DEF Holds
    <3>3. \A t \in Steps \ {job[w].r} : step'[t] = step[t]
      BY <2>2 DEF CompleteStep, FailStep, TypeOK
    <3> QED
      BY <2>2, <3>1, <3>2, <3>3, Jumped, ReleaseHeld
  <2> QED
    BY <1>9, <2>1, <2>2 DEF Complete, Fail, Attempt
<1>10. CASE Accept(w) \/ Unseat(w)
  <2>1. CASE Raise(w)
    BY <2>1, <1>1
  <2>2. CASE /\ CompleteStep(Reviewer)
             /\ Jump(w, "close") \/ Jump(w, "hand_over")
    <3>1. Holds(w) = {Reviewer}
      BY <1>10 DEF Accept, Unseat, Attempt, Holds
    <3>2. Holds(w)' = {}
      BY <2>2, Jumped DEF Holds
    <3>3. \A t \in Steps \ {Reviewer} : step'[t] = step[t]
      BY <2>2 DEF CompleteStep, TypeOK
    <3> QED
      BY <2>2, <3>1, <3>2, <3>3, Jumped, ReleaseHeld
  <2> QED
    BY <1>10, <2>1, <2>2 DEF Accept, Unseat, Attempt
<1>11. CASE Revise(w)
  <2>1. CASE Raise(w)
    BY <2>1, <1>1
  <2>2. CASE RequestRevision(job[w].r) /\ Jump(w, "return")
    <3>1. Holds(w) = {Reviewer}
      BY <1>11 DEF Revise, Attempt, Holds
    <3>2. Holds(w)' = {}
      BY <2>2, Jumped DEF Holds
    <3>3. /\ \A t \in Steps \ {Reviewer, job[w].r} : step'[t] = step[t]
          /\ step[job[w].r] = "completed"
      BY <2>2 DEF RequestRevision, CanRevise, TypeOK
    <3> QED
      BY <2>2, <3>1, <3>2, <3>3, Jumped, ReleaseHeld
  <2> QED
    BY <1>11, <2>1, <2>2 DEF Revise, Attempt
<1>12. CASE Pick(w)
  <2>1. CASE Raise(w)
    BY <2>1, <1>1
  <2>2. ASSUME NEW r \in Researchers, UNCHANGED storeVars,
               job' = [job EXCEPT ![w].at = "activate", ![w].r = r]
        PROVE  OneWorkerPerStep'
    <3>1. job'[w].at = "activate" /\ \A v \in Workers \ {w} : job'[v] = job[v]
      BY <2>2 DEF JobShape
    <3>2. Holds(w)' = {}
      BY <3>1 DEF Holds
    <3> QED
      BY <2>2, <3>1, <3>2, LightMove DEF storeVars
  <2> QED
    BY <1>12, <2>1, <2>2 DEF Pick
<1>13. CASE Look(w)
  <2>1. PICK r \in Planned :
          job' = [job EXCEPT ![w].at = "seat", ![w].r = r, ![w].verdict = Decision(r)]
    BY <1>13 DEF Look
  <2>2. job'[w].at = "seat" /\ \A v \in Workers \ {w} : job'[v] = job[v]
    BY <2>1 DEF JobShape
  <2>3. Holds(w)' = {}
    BY <2>2 DEF Holds
  <2> QED
    BY <1>13, <2>2, <2>3, LightMove DEF Look, storeVars
<1>14. CASE Report(w)
  BY <1>14, <1>1 DEF Report
<1> QED
  BY <1>3, <1>4, <1>5, <1>6, <1>7, <1>8, <1>9, <1>10, <1>11, <1>12, <1>13, <1>14
     DEF Work

\* Requests reopen steps nobody works on.
LEMMA ServeHeld ==
  ASSUME TypeOK, JobShape, OneWorkerPerStep, NEW c \in Callers, Serve(c)
  PROVE  OneWorkerPerStep'
<1>1. UNCHANGED job
  BY DEF Serve
<1>2. CASE UNCHANGED step
  BY <1>1, <1>2, StillHeld
<1>3. CASE GrantRevision(c)
  <2>1. PICK r \in Researchers : UNCHANGED step \/ AuthorizeExceptionRevision(r)
    BY <1>3 DEF GrantRevision, Write, Planned, storeVars
  <2>2. ASSUME AuthorizeExceptionRevision(r), NEW t \in Steps, step[t] = "active"
        PROVE  step'[t] = step[t]
    BY <2>2 DEF AuthorizeExceptionRevision, CanGrantException, TypeOK
  <2> QED
    BY <1>1, <1>2, <2>1, <2>2, StillHeld
<1>4. UNCHANGED step \/ GrantRevision(c)
  BY DEF Serve, ReadStatus, ReadEvents, Check, Approve, Reject, MarkClosed, Cancel,
         MarkScheduled, Write, StartWorkflow, SignalCancel, TransitionRun,
         RecordEvent, storeVars
<1> QED
  BY <1>2, <1>3, <1>4

HeldInv == Drafted /\ OneWorkerPerStep

\* No step of the runtime takes a step of the plan away from its worker.
LEMMA HeldStep ==
  DurableShape /\ BudgetInv /\ HeldInv /\ [DurableNext]_vars => HeldInv'
<1> SUFFICES ASSUME DurableShape, BudgetInv, HeldInv, [DurableNext]_vars PROVE HeldInv'
  OBVIOUS
<1>0. TypeOK /\ JobShape /\ Drafted /\ OneWorkerPerStep
  BY DEF DurableShape, Shape, HeldInv
<1>1. Drafted'
  BY <1>0, StoreStep, DraftedStep
<1>2. CASE UNCHANGED <<job, step>>
  BY <1>0, <1>1, <1>2, StillHeld DEF HeldInv
<1>3. CASE UNCHANGED vars \/ StartPlanning \/ Expire \/ SlowTimeout \/ LostTimeout
  BY <1>2, <1>3 DEF vars, storeVars, procVars, StartPlanning, TransitionRun, Expire,
                    ExpireSources, SlowTimeout, LostTimeout
<1>4. CASE StorePlan
  <2>1. PICK plan \in SUBSET Researchers : MaterializePlan(plan) /\ UNCHANGED job
    BY <1>4 DEF StorePlan, procVars
  <2>2. \A t \in Researchers \cup {Reviewer} : step[t] = "absent"
    BY <1>0, <2>1 DEF MaterializePlan, Drafted, BudgetInv
  <2>3. \A v \in Workers : Holds(v) = {}
    BY <1>0, <2>2, HoldsSteps DEF OneWorkerPerStep
  <2>4. \A v \in Workers : Holds(v)' = {}
    BY <2>1, <2>3 DEF Holds
  <2> QED
    BY <1>1, <2>4 DEF HeldInv, OneWorkerPerStep
<1>5. ASSUME NEW w \in Workers, Poll(w) \/ CallDirectly(w) PROVE HeldInv'
  <2>1. UNCHANGED step
    BY <1>5 DEF Poll, CallDirectly, storeVars
  <2>2. PICK next : Jump(w, next) /\ next \notin AtWork \cup AtReview
    <3>1. CASE CallDirectly(w)
      <4>1. PICK first \in {"begin", "look"} : Jump(w, first)
        BY <3>1 DEF CallDirectly
      <4> QED
        BY <4>1 DEF AtWork, AtReview
    <3>2. CASE Poll(w)
      <4>1. wf.at \in Activities
        BY <3>2 DEF Poll, DurableShape, Shape, WorkflowShape
      <4>2. \E first \in {"validate_execute", "validate_review", "validate_escalate"} :
              Jump(w, first)
        BY <3>2, <4>1 DEF Poll, Activities
      <4> QED
        BY <4>2 DEF AtWork, AtReview
    <3> QED
      BY <1>5, <3>1, <3>2
  <2>3. Holds(w)' = {}
    BY <1>0, <2>2, Jumped DEF Holds, AtWork, AtReview
  <2> QED
    BY <1>0, <1>1, <2>1, <2>2, <2>3, Jumped, LightMove DEF HeldInv
<1>6. ASSUME NEW w \in Workers, Work(w) PROVE HeldInv'
  BY <1>0, <1>1, <1>6, WorkHeld DEF HeldInv
<1>7. ASSUME NEW w \in Workers, Crash(w) \/ Outage(w) PROVE HeldInv'
  <2>1. UNCHANGED step /\ job' = [job EXCEPT ![w] = IdleJob]
    BY <1>7 DEF Crash, Outage, Raise, End, storeVars
  <2> QED
    BY <1>0, <1>1, <2>1, EndHeld DEF HeldInv
<1>8. ASSUME NEW c \in Callers, Serve(c) PROVE HeldInv'
  BY <1>0, <1>1, <1>8, ServeHeld DEF HeldInv
<1>9. ASSUME NEW c \in Callers, Abandon(c) \/ \E op \in Ops : Ask(c, op) PROVE HeldInv'
  BY <1>2, <1>9 DEF Abandon, Ask, storeVars
<1> QED
  BY <1>3, <1>4, <1>5, <1>6, <1>7, <1>8, <1>9 DEF DurableNext

\* In a new run nobody works on anything.
LEMMA HeldInit == DurableInit => HeldInv
<1> SUFFICES ASSUME DurableInit PROVE HeldInv
  OBVIOUS
<1>1. step[Reviewer] = "absent"
  BY StepsAssumption DEF DurableInit, Init, Steps
<1>2. \A w \in Workers : Holds(w) = {}
  BY DEF DurableInit, IdleJob, Holds
<1> QED
  BY <1>1, <1>2 DEF HeldInv, Drafted, OneWorkerPerStep

\* The inductive invariant of the steps and their workers holds throughout.
LEMMA Held == DurableSpec => [](DurableShape /\ BudgetInv /\ HeldInv)
<1>1. DurableSpec => []BudgetInv
  BY RuntimeImplementsStore, BudgetCorrect, PTL
<1> QED
  BY <1>1, DurableShaped, HeldInit, HeldStep, PTL DEF DurableSpec

\* A step is worked on by one activity at a time and stays active until that
\* activity gives it up: neither a timed-out activity, nor a direct call beside
\* it, nor an operator's revision takes a step away from its worker.
THEOREM StepsHaveOneWorker == DurableSpec => []OneWorkerPerStep
<1>1. HeldInv => OneWorkerPerStep
  BY DEF HeldInv
<1> QED
  BY <1>1, Held, PTL

=============================================================================
