SPECIFICATION FairSpec
CONSTANTS
  ant = ant  oai = oai  a1 = a1  a2 = a2  o1 = o1  c1 = c1  w1 = w1  h1 = h1
  Null = Null
  Providers <- TheAnthropic
  Anthropic <- TheAnthropic
  Rows <- OneKeyRows
  UsageRows <- OneKeyUsage
  ClaudeRows <- OneKeyClaude
  Workers <- OneWorker
  Handlers <- Nobody
  MaxAmount = 1
  MaxCrashes = 0
PROPERTY CostIsReported
