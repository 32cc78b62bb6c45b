SPECIFICATION Spec
CONSTANTS
  Planner = planner
  Reviewer = reviewer
  Researchers = {r1, r2}
  MaxResearchAttempts = 2
  MaxOperatorRevisions = 1
  EventCap = 2
SYMMETRY ResearcherSymmetry
INVARIANTS
  TypeOK
  BudgetInv
  AttemptBudget
  PlanBehindGate
PROPERTIES
  EndedRunStartsNothing
  ImplementsGovernedRun
