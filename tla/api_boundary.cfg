SPECIFICATION BoundarySpec
CONSTANTS
  Emails = {e1, e2}
  Tokens = {t1, t2}
  Names = {n1}
  Procs = {p1, p2}
  MaxAsked = 4
  Priorities = {"high", "urgent"}
  Offered = {"high"}
SYMMETRY BoundarySymmetry
INVARIANTS
  BoundaryTypeOK
  OneAdministrator
  RevocationIsImmediate
  EventsAreTrue
  ToolAnswersAreAudited
  DraftAnswersAreTrue
  UnsupportedPriorityMakesNothing
