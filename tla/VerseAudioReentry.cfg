SPECIFICATION Spec
CONSTANTS
  v1 = v1
  v2 = v2
  c1 = c1
  c2 = c2
  h1 = h1
  h2 = h2
  Units = {v1}
  Clients = {c1, c2}
  Hashes = {h1, h2}
  Anchor <- MCAnchor
  RangeEnds <- MCRangeEnds
  Ops = {"upload", "deleteTake"}
  Activates = {TRUE}
  Faults = FALSE
  MaxRequests = 4
INVARIANTS NoSilentLoser
CHECK_DEADLOCK FALSE
