SPECIFICATION PartSpec
CONSTANTS
  Runs = {r1, r2}
  NoRun = norun
  ReplayEvents = 1
  BroadcastEvents = 1
  Moves = {"running"}
  Outcomes = {"completed"}
  Failures = {"incompatible"}
  MaxSequence = 2
  MaxFaults = 1
  d1 = d1
  d2 = d2
  p = p
  q = q
  None = None
  Daemons = {d1, d2}
  Passphrases = {p, q}
  MaxCrashes = 1
  t1 = t1
  Tabs = {t1}
  SegmentSizes = {1, 2}
  MaxBytes = 3
  MaxAge = 1
  DailySnapshots = 1
  MaxBatch = 1
  MaxRows = 3
  MaxDay = 3
  Requests = {"r1", "r2", "r3"}
  Units = 2
  Buffer = 2
  InFlight = 1
  Garbled = {"refuse", "swallow"}
  c1 = c1
  c2 = c2
  Savers = {c1, c2}
  Values = {1, 2}
  MaxWrites = 1
  PageEntries = 2
  MaximumResults = 2
  MaxFiles = 3
  MaxChanges = 1
  AdapterRuns = {"run1", "run2"}
  Bindings = {"binding"}
  NoBinding = nobinding
  MaxOperations = 2
  Names = {1, 2}
  Depth = 2
  MaximumFrameBytes = 2
  MaximumBatchBytes = 4
  MaximumFramesPerPush = 1
  MaxChunk = 5
  MaxStream = 7
INVARIANTS NothingSkipped  ExitMatchesState RecoveredClean
           StartupSafe RowsHaveFiles AnswersMatch  TreeReported AdapterSound
           FramesOfStream
PROPERTIES  RetentionKept
SYMMETRY Symmetry
CHECK_DEADLOCK FALSE
