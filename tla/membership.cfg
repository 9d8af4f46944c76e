SPECIFICATION Spec
CONSTANTS
  h1 = h1  h2 = h2  ann = ann  bob = bob  cyd = cyd
  t1 = t1  mail = mail
  Null = Null
  Founder = ann
  Handlers <- TwoHandlers
  Users <- ThreeUsers
  Tokens <- OneToken
  Emails <- OneEmail
  MaxCrashes = 1
  MaxWorkspaces = 1
SYMMETRY Symmetry
CHECK_DEADLOCK FALSE
INVARIANTS TypeOK JoinsAreBounded RemovedStaysOut
PROPERTY KeepsAdmission
