SPECIFICATION ViewSpec
CONSTANTS
  j1 = j1
  j2 = j2
  Jobs = {j1, j2}
  p = p
  q = q
  Roots = {p, q}
  Sessions = {"s"}
  Shells = {"t"}
  MaxRuns = 2
  MaxMoves = 4
  Windows = {"main", "w"}
  Main = "main"
  MaxGrants = 4
  ChunkBytes = 2
  BufferBytes = 3
  PollBytes = 2
  SegmentBytes = 3
  ChannelCapacity = 1
  MaxChunks = 4
SYMMETRY Symmetry
INVARIANTS  OutputAccounted
PROPERTIES LiveClientKept
CHECK_DEADLOCK FALSE
