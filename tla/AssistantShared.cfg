SPECIFICATION Spec
CONSTANTS
  c1 = c1
  c2 = c2
  c3 = c3
  u1 = u1
  u2 = u2
  turn = turn
  briefing = briefing
  Nobody = Nobody
  Elsewhere = Elsewhere
  Requests = {c1, c2, c3}
  Users = {u1, u2}
  Keys = {turn}
  Briefings = {}
SYMMETRY Symmetry
INVARIANTS SingleFlight AdmissionExact BusyIsOwn CommittedIsDelivered ShutdownFinal
PROPERTIES NoWastedGeneration
CHECK_DEADLOCK FALSE
