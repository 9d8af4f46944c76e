SPECIFICATION Spec
CONSTANTS
  o1 = o1  o2 = o2  g1 = g1  cheap = cheap  dear = dear
  w1 = w1  w2 = w2  h1 = h1
  Null = Null
  Orgs <- TwoOrgs
  Gpus <- OneGpu
  Entries <- OneEntry
  HourlyRate <- Rates
  Matches <- MatchAll
  Workers <- TwoWorkers
  Handlers <- OneHandler
  MaxRate = 2
  MaxBeats = 2
  Period = 1
  MaxCrashes = 1
SYMMETRY Symmetry
INVARIANTS TypeOK NeverOverbilled OnePriceListPerRun
PROPERTIES KeepsLedger SteadyGpusBilled PageAddsUp
