SPECIFICATION FairSpec
CONSTANTS
  a = a
  b = b
  p = p
  q = q
  None = None
  JobSets = {a}
  LWSs = {}
  SyncOwners = {}
  MayUnlabel = {}
  LegacyOwners = {}
  Replicas = {1}
  Partitions = {p, q}
  Selections <- MCOne
  Conditions = {"ready"}
  TreatUnknownActiveSliceAsReady = TRUE
  MaxGen = 1
PROPERTY SlicesOfDeletedOwnerGo
