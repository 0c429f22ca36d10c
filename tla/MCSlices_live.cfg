SPECIFICATION FairSpec
CONSTANTS
  a = a
  b = b
  p = p
  q = q
  None = None
  JobSets = {a}
  LWSs = {}
  SyncOwners = {a}
  MayUnlabel = {a}
  LegacyOwners = {}
  Replicas = {1}
  Partitions = {p, q}
  Selections <- MCTwo
  Conditions = {"ready"}
  TreatUnknownActiveSliceAsReady = TRUE
  MaxGen = 1
INVARIANTS Converged
PROPERTIES DeletedOwnerGoes SlicesServed ReadyJobSetReleased
