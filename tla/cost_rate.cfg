SPECIFICATION Spec
CONSTANTS
  o1 = o1  o2 = o2  g1 = g1  cheap = cheap  dear = dear
  w1 = w1  w2 = w2  h1 = h1
  Null = Null
  Orgs <- OneOrg
  Gpus <- OneGpu
  Entries <- TwoEntries
  HourlyRate <- Rates
  Matches <- MatchAll
  Workers <- OneWorker
  Handlers <- OneHandler
  MaxRate = 2
  MaxBeats = 2
  Period = 2
  MaxCrashes = 0
INVARIANT RateIsHourly
