SPECIFICATION ConsoleSpec
CONSTANTS
  A = A  B = B  u1 = u1  k1 = k1  c1 = c1  h1 = h1  h2 = h2  s1 = s1  s2 = s2
  Null = Null
  Nothing = Nothing
  Orgs <- TwoOrgs
  Users <- OneUser
  Keys <- OneKey
  Ids <- ThreeRows
  Clients <- OneClient
  Handlers <- TwoHandlers
  RowOrg <- TheRowOrg
  KeyOrg <- TheKeyOrg
  ReadKeys <- OneKey
  KeyOf <- TheKeyOf
  Descending <- OneClient
  Limits <- SomeLimits
  DefaultLimit = 1
  MaxLimit = 2
  Last = 3
  FleetSize = 2
  Above <- TheAbove
  Unique <- TheUnique
  Gpus <- TheGpus
  Endpoints <- TheEndpoints
  RowIds <- FourKeys
  Seeders <- TwoSeeders
  Hours = 3
  BatchSize = 2
  MaxFills = 2
  MaxClock = 0
SYMMETRY Symmetry
INVARIANTS TypeOK ExactlyOnce ViewHasItsTenant RevokedKeyGetsNothing
           SeedTypeOK HistoryIsOfRows WrittenOncePerSeeding
           TwinsBoundedBySeeders
