----------------------------- MODULE GovernedRun -----------------------------
(***************************************************************************)
(* What the agent runtime promises about one run, whatever order its       *)
(* callers, workers and operators act in: work happens only in the working *)
(* phase, every researcher attempt is paid for by the routine budget or by *)
(* an operator grant, and an ended run stays as it is.  RuntimeStore       *)
(* implements this specification (phase, attempts and grants are what is   *)
(* left of its state when steps, handoffs, memories and events are hidden) *)
(***************************************************************************)
EXTENDS Naturals

CONSTANTS
  Researchers,            \* researcher steps a plan of the run may hold
  MaxResearchAttempts,    \* attempts a researcher has without an operator
  MaxOperatorRevisions    \* grants operators may make in the run's lifetime

VARIABLES
  phase,      \* coarse position of the run
  attempts,   \* times each researcher step has been started
  granted     \* operator grants made so far

vars == <<phase, attempts, granted>>

Phases == {"drafting", "gated", "working", "waiting", "ended"}

Successors ==
  [drafting |-> {"gated", "ended"},
   gated    |-> {"working", "waiting", "ended"},
   working  |-> {"waiting", "ended"},
   waiting  |-> {"working", "ended"},
   ended    |-> {}]

Init ==
  /\ phase = "drafting"
  /\ attempts = [r \in Researchers |-> 0]
  /\ granted = 0

Move ==
  /\ phase' \in Successors[phase]
  /\ UNCHANGED <<attempts, granted>>

Research(r) ==
  /\ phase = "working"
  /\ attempts[r] < MaxResearchAttempts + granted
  /\ attempts' = [attempts EXCEPT ![r] = @ + 1]
  /\ UNCHANGED <<phase, granted>>

Grant ==
  /\ phase = "waiting"
  /\ granted < MaxOperatorRevisions
  /\ phase' = "working"
  /\ granted' = granted + 1
  /\ UNCHANGED attempts

Next == Move \/ Grant \/ \E r \in Researchers : Research(r)

Spec == Init /\ [][Next]_vars
=============================================================================
