SPECIFICATION DurableSpec
CONSTANTS
  Planner = planner
  Reviewer = reviewer
  Researchers = {r1, r2}
  MaxResearchAttempts = 2
  MaxOperatorRevisions = 0
  EventCap = 2
  Workers = {w1, w2}
  Callers = {c1}
  Faults = {}
  MaxFaults = 0
  DirectCalls = TRUE
SYMMETRY RunSymmetry
INVARIANTS
  WorkIsApproved
  OneWorkerPerStep
