SPECIFICATION SceneSpec
CONSTANTS
  r1 = r1  r2 = r2  e1 = e1  e2 = e2  w1 = w1  w2 = w2  o1 = o1
  Null = Null
  Rules <- TwoRules
  EventIds <- TwoEvents
  Workers <- OneWorker
  Operators <- OneOperator
  SlackRules <- OneRule
  MaxCrashes = 1
INVARIANTS TypeOK NoOrphanEvent SentMeansAccepted
PROPERTIES OnlyFormsRevive KeepsPromise BreachIsRaised
