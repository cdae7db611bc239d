SPECIFICATION Spec
CONSTANTS
  p = p
  u = u
  g = g
  r1 = r1
  r2 = r2
  Requests = {p, g}
  IdOf <- MCIdOf
  KindOf <- MCKindOf
  Responders = {r1, r2}
  Expirers = {e1}
  Reader = reader
  NoRequest = none
  Capacity = 1
SYMMETRY Symmetry
INVARIANTS TrackerConsistent AnsweredOnce ReportRecognised
PROPERTIES FinalStateSticks
CHECK_DEADLOCK FALSE
