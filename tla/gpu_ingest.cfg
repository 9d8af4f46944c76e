SPECIFICATION SceneSpec
CONSTANTS
  h1 = h1  h2 = h2  east = east  nodeA = nodeA
  g1 = g1  g2 = g2
  NoReport = NoReport  NoGpu = NoGpu  Admin = Admin
  Gpus <- TwoGpus
  Handlers <- TwoHandlers
  Clusters <- OneCluster
  Hosts <- OneHost
  Reports <- ShrinkingReports
  MaxReports = 3
INVARIANTS TypeOK SnapshotIsLatest ReferencesHold WritersWaitForDeletesOnly
PROPERTIES KeepsInventory EveryReportAnswered EveryDeleteEnds
