\* move-target on a server with UID MOVE, which may refuse it; two folders have one target
\* folder; fairness of the worker threads.
SPECIFICATION FairSpec
CONSTANTS
  p1 = p1
  b1 = b1
  A = A
  B = B
  C = C
  m1 = m1
  m2 = m2
  Pairs = {p1}
  Boxes = {b1}
  SrcOf <- OnePair
  Folders = {A, B, C}
  TFolders = {"TA", "TB"}
  MapFolder <- Merged
  Msgs = {m1, m2}
  HasMid = {m1}
  DeletedMsgs = {}
  Start <- StartSome
  MaxUid = 1
  Policy = "move-target"
  AllowTargetDelete = {TRUE}
  Resume = {FALSE}
  RetryCount = 2
  AppendUid = TRUE
  TargetMoves = TRUE
  HeadersMayFail = FALSE
  MaxRuns = 2
  MaxFaults = 2
  MaxUserSteps = 1
CHECK_DEADLOCK FALSE
INVARIANTS
  SettledIsOnTarget
  MovesOwnCopy
PROPERTIES
  AtLeastOnce
  RunEnds
