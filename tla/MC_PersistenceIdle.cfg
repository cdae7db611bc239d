SPECIFICATION FairSpec
CONSTANTS
  Runs = {r1}
  NoRun = norun
  ReplayEvents = 4
  BroadcastEvents = 4
  Moves = {"running"}
  Outcomes = {"completed", "failed", "stopped"}
  Failures = {"failed", "incompatible"}
  MaxSequence = 3
  MaxFaults = 0
PROPERTIES IdleReached
CHECK_DEADLOCK FALSE
