SPECIFICATION Spec
CONSTANTS
  h1 = h1  h2 = h2  east = east  nodeA = nodeA
  g1 = g1  g2 = g2
  NoReport = NoReport  NoGpu = NoGpu  Admin = Admin
  Gpus <- TwoGpus
  Handlers <- OneHandler
  Clusters <- OneCluster
  Hosts <- OneHost
  Reports <- ReplacedReports
  MaxReports = 2
INVARIANT GpuUpserts
