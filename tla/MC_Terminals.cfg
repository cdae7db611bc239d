SPECIFICATION FairSpec
CONSTANTS
  Terminals = {t1, t2}
  Closers = {k1}
  Limit = 1
  MaxFaults = 1
  AgentTerminals = {t1}
INVARIANTS TerminalsSound
 
CHECK_DEADLOCK FALSE
