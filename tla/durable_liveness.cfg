SPECIFICATION FairSpec
CONSTANTS
  Planner = planner
  Reviewer = reviewer
  Researchers = {r1}
  MaxResearchAttempts = 3
  MaxOperatorRevisions = 1
  EventCap = 2
  Workers = {w1, w2}
  Callers = {c1}
  Faults = {"crash", "outage", "timeout"}
  MaxFaults = 2
  DirectCalls = FALSE
INVARIANT
  UncertainOutcomeEscalates
PROPERTIES
  WorkflowEnds
  ScheduledRunSettles
