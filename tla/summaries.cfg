SPECIFICATION SummarySpec
CONSTANTS
  Runs = {r1, r2}
  Versions = {"a_short", "a_new", "a_long"}
  Facts <- SiteFacts
  ChunkCharacters = 5
  OverlapCharacters = 2
  Budget = 8
  MaxLength = 24
  MaxItems = 4
  Sources = {"a", "b"}
  Page <- SitePages
  Preflighted <- SitePreflight
  Length <- SiteLengths
  Executions = {x1, x2}
  Procs = {p1, p2}
  MaxAsked = 4
SYMMETRY SummarySymmetry
INVARIANTS
  SummaryTypeOK
  OnlyClearedTextIsSummarized
  SummaryIsOfItsVersion
  CompletedIsSummarized
  QuietExecutionIsSettled
  ChunksCoverText
  GroupsFitBudget
