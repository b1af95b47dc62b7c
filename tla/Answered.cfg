SPECIFICATION Spec
CONSTANTS
  r1 = r1
  r2 = r2
  v1 = v1
  h1 = h1
  h2 = h2
  unitA = unitA
  userA = userA
  userB = userB
  managerM = managerM
  projectP = projectP
  projectQ = projectQ
  None = None
  Keep = Keep
  Nobody = Nobody
  Elsewhere = Elsewhere
  briefing = briefing
INVARIANTS TypeOK
PROPERTIES RequestsAnswered EntriesRemoved
CHECK_DEADLOCK FALSE
