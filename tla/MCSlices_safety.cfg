SPECIFICATION Spec
CONSTANTS
  a = a
  b = b
  p = p
  q = q
  None = None
  JobSets = {a}
  LWSs = {}
  SyncOwners = {a}
  MayUnlabel = {}
  LegacyOwners = {a}
  Replicas = {1}
  Partitions = {p, q}
  Selections <- MCTwoOrNone
  Conditions = {"failed"}
  TreatUnknownActiveSliceAsReady = TRUE
  MaxGen = 2
SYMMETRY MCSymmetry
INVARIANTS TypeOK AppliesUnderFinalizer Converged DeletesWhatItRead
PROPERTY FinalizerOutlivesListedSlices
