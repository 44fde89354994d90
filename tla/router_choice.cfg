SPECIFICATION RouterSpec
CONSTANTS
  CallIndexes <- TwoCalls
  MaxChunks = 3
  MaxBlocks = 3
  MaxDeltas = 2
  Parts = {"tools"}
  No = No
  Nothing = No
  Defaults <- MCDefaults
  LocalModel = "qwen"
  Files <- MCFiles
  Launches <- MCLaunches
  Requests <- MCRequests
  Fold <- MCFold
  Asks <- MCAsks
  SafeForm <- MCSafeForm
CHECK_DEADLOCK FALSE
INVARIANT ChoiceReachesEndpoint
