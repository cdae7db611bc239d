SPECIFICATION FairSpec
CONSTANTS
  Runs = {l1, l2, l3}
  Sessions = {s1, s2}
  Bindings = {b1, b2}
  NoRun = norun
  NoSession = nosession
  NoBinding = nobinding
  MaximumSessions = 2
INVARIANTS OneWriter OneActiveRun NoLeaseLeak LaunchExclusive
PROPERTIES RunsEnd
CHECK_DEADLOCK FALSE
