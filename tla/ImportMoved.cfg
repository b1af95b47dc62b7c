SPECIFICATION Spec
CONSTANTS
  projectP = projectP
  projectQ = projectQ
  None = None
  Requests = {r1, r2}
  Projects = {projectP, projectQ}
  Units = {1, 2, 3, 4, 5}
  Books = {1}
  Chapters = {1}
  Calls <- MCCalls
  Initial <- MCInitial
  Retries = 0
  MaxRequests = 2
  MaxFaults = 0
SYMMETRY RequestSymmetry
INVARIANTS VersesWithBook
CHECK_DEADLOCK FALSE
