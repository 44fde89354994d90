SPECIFICATION Spec
CONSTANTS
  None = None
  daemon = daemon
  cli = cli
  r1 = r1
  r2 = r2
  fileA = fileA
  fileB = fileB
  Clients <- TwoClients
  Daemon = daemon
  Commits <- Revisions
  Histories <- OneOrTwoFiles
  Chunks = 2
  MaxAttempts = 2
  MaxBegun = 2
  Serial = FALSE
  Unverified = FALSE
  Tag = "b2"
  OldTag = "b1"
CHECK_DEADLOCK FALSE
INVARIANT VerifiedIsComplete
