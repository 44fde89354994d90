SPECIFICATION DaemonSpec
CONSTANTS
  Parts = {"turns", "ca", "metrics"}
  None = None
  t1 = t1
  t2 = t2
  p1 = p1
  p2 = p2
  r1 = r1
  r2 = r2
  Turns <- TwoTurns
  Procs <- TwoProcs
  Shapes <- MCShapes
  Selected <- OnlyExplore
  FoldOf <- MCFoldOf
  Framings = {"lf", "crlf"}
  MaxAuthCacheEntries = 1
  MaxPairs = 2
  Requests <- TwoRequests
  Kinds <- MCKinds
  Estimate = 2
  Usage <- MCUsage
  RecentCapacity = 1
  QueueCapacity = 2
SYMMETRY Symmetry
CHECK_DEADLOCK FALSE
INVARIANT DaemonTypeOK
INVARIANT RightUpstream
INVARIANT TurnRecordsAreTrue
INVARIANT CaConsistent
INVARIANT BooksAgree
