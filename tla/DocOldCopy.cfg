\* move-target: two messages, three folders, runs with and without permission to
\* delete; nothing fails.
SPECIFICATION Spec
CONSTANTS
  p1 = p1
  b1 = b1
  A = A
  B = B
  C = C
  m1 = m1
  m2 = m2
  Pairs = {p1}
  Boxes = {b1}
  SrcOf <- OnePair
  Folders = {A, B, C}
  TFolders = {"TA", "TB", "TC"}
  MapFolder <- Apart3
  Msgs = {m1, m2}
  HasMid = {m1, m2}
  DeletedMsgs = {}
  Start <- StartTwo
  MaxUid = 2
  Policy = "move-target"
  AllowTargetDelete = {TRUE, FALSE}
  Resume = {FALSE}
  RetryCount = 2
  AppendUid = TRUE
  TargetMoves = FALSE
  HeadersMayFail = FALSE
  MaxRuns = 3
  MaxFaults = 0
  MaxUserSteps = 2
CHECK_DEADLOCK FALSE
INVARIANTS
  MovesOwnCopy
