SPECIFICATION EitherSpec
CONSTANTS
  c1 = c1
  c2 = c2
  r1 = r1
  r2 = r2
  Clients = {c1, c2}
  Requests = {r1, r2}
  SenderOf <- MCSenderOf
  KindOf <- MCKindOf
  ConnectionLimit = 1
  RequestLimit = 1
INVARIANTS CountersAgree
PROPERTIES ShutdownStops 
CHECK_DEADLOCK FALSE
