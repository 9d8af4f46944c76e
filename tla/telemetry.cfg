SPECIFICATION FairSpec
CONSTANTS
  h1 = h1  h2 = h2
  Null = Null
  Handlers <- TwoHandlers
  MaxSamples = 2
INVARIANTS TypeOK BoundedDuplicates
PROPERTIES NeverStalls KeepsDelivery
