SPECIFICATION SceneSpec
CONSTANTS
  ant = ant  oai = oai  a1 = a1  a2 = a2  o1 = o1  c1 = c1  w1 = w1  h1 = h1
  Null = Null
  Providers <- Both
  Anthropic <- TheAnthropic
  Rows <- AllRows
  UsageRows <- AllUsage
  ClaudeRows <- AllClaude
  Workers <- OneWorker
  Handlers <- OneHandler
  MaxAmount = 1
  MaxCrashes = 1
INVARIANTS TypeOK NeverOvercounts
PROPERTIES SyncedMeansStored SwitchedOffStaysOff Converges
