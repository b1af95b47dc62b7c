SPECIFICATION Spec
CONSTANTS
  v1 = v1
  v2 = v2
  c1 = c1
  c2 = c2
  h1 = h1
  h2 = h2
  Units = {v1, v2}
  Clients = {c1}
  Hashes = {h1, h2}
  Anchor <- MCAnchor
  RangeEnds <- MCRangeEnds
  Ops = {"upload"}
  Activates = {TRUE, FALSE}
  Faults = FALSE
  MaxRequests = 3
SYMMETRY ClientSymmetry
INVARIANTS OverlapsSurfaced
CHECK_DEADLOCK FALSE
