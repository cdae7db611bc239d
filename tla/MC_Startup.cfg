SPECIFICATION Spec
CONSTANTS
  d1 = d1
  d2 = d2
  Daemons = {d1, d2}
  p = p
  q = q
  Passphrases = {p, q}
  MaxCrashes = 1
  None = None
INVARIANTS InterruptedIsDead
CHECK_DEADLOCK FALSE
