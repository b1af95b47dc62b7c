SPECIFICATION FairSpec
CONSTANTS
  k1 = k1
  k2 = k2
  NoKey = NoKey
  u1 = u1
  u2 = u2
  Keys = {k1, k2}
  Uploaders = {u1, u2}
  SlowUploads = FALSE
  LostDeletes = TRUE
  MaxUploads = 4
INVARIANTS TypeOK NoDanglingTake BytesTracked GraceProtects
PROPERTIES OrphansReclaimed
CHECK_DEADLOCK FALSE
