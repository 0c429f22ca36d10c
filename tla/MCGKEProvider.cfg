SPECIFICATION GKEFairSpec
CONSTANTS
  h1 = h1
  h2 = h2
  j1 = j1
  Threads = {t1, t2}
  Names = {n1}
  JobKeys = {k1, k2}
  Hashes = {h1, h2}
  JobSets = {j1}
  None = None
  InitialLabels <- MCInitialLabels
INVARIANTS
  GKETypeOK
  InProgressOwned
  LegacyPoolKept
PROPERTIES
  EveryCallReturns
  KeepsPromise
