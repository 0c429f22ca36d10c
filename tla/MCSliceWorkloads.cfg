SPECIFICATION SpecWithWorkloads
CONSTANTS
  a = a
  b = b
  p = p
  q = q
  None = None
  JobSets = {a}
  LWSs = {b}
  SyncOwners = {}
  MayUnlabel = {}
  LegacyOwners = {}
  Replicas = {1}
  Workers = {1}
  Partitions = {p, q}
  Selections <- MCOne
  Conditions = {}
  TreatUnknownActiveSliceAsReady = TRUE
  MaxGen = 1
INVARIANTS WorkloadsTypeOK Converged PinnedToOwnSlice
