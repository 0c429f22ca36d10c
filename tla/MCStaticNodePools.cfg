SPECIFICATION FairSpec
CONSTANTS
  cm1 = cm1
  cm2 = cm2
  noCM = noCM
  None = None
  Threads = {t1}
  Names <- MCNames
  JobKeys = {}
  Hashes <- MCHashes
  JobSets = {}
  InitialLabels <- MCInitialLabels
  ConfigMaps = {cm1, cm2, noCM}
  ContentOf <- MCContentOf
  ClusterContext <- MCClusterContext
  LongNames = {}
  CreateConcurrency = 1
  DeleteConcurrency = 0
  SlicedPools <- MCShared
INVARIANT StaticTypeOK
PROPERTIES
  WorkingPoolKeepsSubblock
  UnwantedPoolGoes
  WantedPoolComes
  ReconcileEnds
