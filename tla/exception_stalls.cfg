SPECIFICATION ScheduledSpec
CONSTANTS
  Planner = planner
  Reviewer = reviewer
  Researchers = {r1}
  MaxResearchAttempts = 3
  MaxOperatorRevisions = 1
  EventCap = 2
  Workers = {w1, w2}
  Callers = {c1}
  Faults = {}
  MaxFaults = 0
  DirectCalls = FALSE
PROPERTY ExceptionResumesExecution
