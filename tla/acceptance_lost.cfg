SPECIFICATION ResearchSpec
CONSTANTS
  Runs = {r1, r2}
  Urls = {"a", "b"}
  Versions = {"a_short", "a_long", "b_plain"}
  Facts <- SiteFacts
  Page <- SitePages
  Serves <- SiteServes
  DirectLimit = 1
  Procs = {p1, p2}
  MaxAsked = 3
INVARIANT AcceptanceStands
