SPECIFICATION Spec
CONSTANTS
  r1 = r1
  r2 = r2
  v1 = v1
  v2 = v2
  h1 = h1
  h2 = h2
  unitA = unitA
  unitB = unitB
  projectP = projectP
  projectQ = projectQ
  None = None
  Nobody = Nobody
  manager = manager
  lead = lead
  drafter = drafter
  guest = guest
  Org = Org
SYMMETRY RequestSymmetry
INVARIANTS TypeOK OverlapsFound SuggestionsKept ImportsPlaced ExportsKept LifecycleKept CatalogueKept AnswersMeanIt UsersKept
PROPERTIES ActivationSteps ProjectSteps CatalogueSteps UserSteps
CHECK_DEADLOCK FALSE
