SPECIFICATION ReadersSpec
CONSTANTS
  Clients = {c1, c2}
  ReplayEvents = 3
  BroadcastEvents = 2
  MaximumEvents = 2
  MaxSequence = 5
  Runs = {r1, r2}
  NoRun = norun
INVARIANTS QueueUnbroken Stitched ExactlyOnce
PROPERTIES StreamSpec LoopEnds MonitorEnds
CHECK_DEADLOCK FALSE
