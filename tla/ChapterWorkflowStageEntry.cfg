SPECIFICATION Spec
CONSTANTS
  a = a
  b = b
  m = m
  None = None
  Keep = Keep
  r1 = r1
  r2 = r2
  Chapters = {1}
  Users = {a, b, m}
  Managers = {m}
  Members = {a, b}
  Leavers = {}
  Reviews <- MCReviews
  CustomStages = {}
  MaxStages = 4
  Starts <- MCStarts1
  Updates <- MCUpdates1
  Selections <- MCSelections1
  Requests = {r1, r2}
  MaxTransactions = 4
SYMMETRY RequestSymmetry
INVARIANTS StageEntryTruthful
CHECK_DEADLOCK FALSE
