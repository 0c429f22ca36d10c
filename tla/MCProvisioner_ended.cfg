SPECIFICATION FairSpec
CONSTANTS
  c1 = c1
  d1 = d1
  j1 = j1
  k1 = k1
  h1 = h1
  h2 = h2
  None = None
  GC = GC
  CreationWorkers = {c1}
  DeletionWorkers = {d1}
  Threads = {c1, d1, GC}
  Names <- MCNames
  JobKeys = {k1}
  Hashes = {h1}
  JobSets = {j1}
  SliceJobSets = {}
  Pods = {p1}
  LeaderPods = {p1}
  Nodes = {x1}
  MaxGen = 1
  PodConfigs = {h1}
  InitialLabels = {}
  NodePoolName <- MCNodePoolName
  JobKeyOf <- MCJobKeyOf
PROPERTY EndedJobSetCleaned
