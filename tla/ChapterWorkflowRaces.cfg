SPECIFICATION Spec
CONSTANTS
  a = a
  b = b
  m = m
  None = None
  Keep = Keep
  r1 = r1
  r2 = r2
  Chapters = {1, 2}
  Users = {a, b, m}
  Managers = {m}
  Members = {a, b}
  Leavers = {a}
  Reviews <- MCReviews
  CustomStages = {"custom"}
  MaxStages = 4
  Starts <- MCStarts
  Updates <- MCUpdates
  Selections <- MCSelections
  Requests = {r1, r2}
  MaxTransactions = 3
SYMMETRY RequestSymmetry
INVARIANTS WorkflowWellFormed
PROPERTIES HistoryFollowsStatus ConflictHasRival ReachedStagesStay PeerCheckedByOther ClaimAnswersStored
CHECK_DEADLOCK FALSE
