\* move-target: the user moves a message four times between two folders; every run
\* may delete on the target; nothing fails.
SPECIFICATION Spec
CONSTANTS
  p1 = p1
  b1 = b1
  A = A
  B = B
  C = C
  m1 = m1
  m2 = m2
  Pairs = {p1}
  Boxes = {b1}
  SrcOf <- OnePair
  Folders = {A, B}
  TFolders = {"TA", "TB"}
  MapFolder <- Apart
  Msgs = {m1}
  HasMid = {m1}
  DeletedMsgs = {}
  Start <- StartSingle
  MaxUid = 3
  Policy = "move-target"
  AllowTargetDelete = {TRUE}
  Resume = {FALSE}
  RetryCount = 2
  AppendUid = TRUE
  TargetMoves = TRUE
  HeadersMayFail = FALSE
  MaxRuns = 5
  MaxFaults = 0
  MaxUserSteps = 4
CHECK_DEADLOCK FALSE
INVARIANTS
  FolderFollows
