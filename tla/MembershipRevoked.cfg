SPECIFICATION Spec
CONSTANTS
  userA = userA
  userB = userB
  userC = userC
  None = None
  Org = Org
  Project = Project
  Requests = {r1, r2}
  Users = {userA, userB, userC}
  Chapters = {1}
  Calls <- MCCalls
  Initially <- MCInitially
  MaxRequests = 2
  MaxFaults = 0
SYMMETRY RequestSymmetry
INVARIANTS RoleNeedsMembership
CHECK_DEADLOCK FALSE
