SPECIFICATION Spec
CONSTANTS
  a = a
  b = b
  p = p
  q = q
  None = None
  JobSets = {a}
  LWSs = {}
  SyncOwners = {a}
  MayUnlabel = {}
  LegacyOwners = {}
  Replicas = {1}
  Partitions = {p, q}
  Selections <- MCTwo
  Conditions = {"ready"}
  TreatUnknownActiveSliceAsReady = TRUE
  MaxGen = 1
PROPERTY UnsuspendedWithExpectedSlices
