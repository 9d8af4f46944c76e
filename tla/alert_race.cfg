SPECIFICATION Spec
CONSTANTS
  r1 = r1  r2 = r2  e1 = e1  e2 = e2  w1 = w1  w2 = w2  o1 = o1
  Null = Null
  Rules <- OneRule
  EventIds <- TwoEvents
  Workers <- TwoWorkers
  Operators <- NobodyElse
  SlackRules <- NobodyElse
  MaxCrashes = 0
INVARIANT AtMostOneUnlessManual
