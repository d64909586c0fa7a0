\* global-dedupe, on a server whose header fetches do not fail.
SPECIFICATION Spec
CONSTANTS
  p1 = p1
  b1 = b1
  A = A
  B = B
  C = C
  m1 = m1
  m2 = m2
  Pairs = {p1}
  Boxes = {b1}
  SrcOf <- OnePair
  Folders = {A, B}
  TFolders = {"TA", "TB"}
  MapFolder <- Apart
  Msgs = {m1, m2}
  HasMid = {m1}
  DeletedMsgs = {}
  Start <- StartAll
  MaxUid = 2
  Policy = "global-dedupe"
  AllowTargetDelete = {FALSE}
  Resume = {FALSE}
  RetryCount = 2
  AppendUid = TRUE
  TargetMoves = TRUE
  HeadersMayFail = FALSE
  MaxRuns = 2
  MaxFaults = 2
  MaxUserSteps = 1
CHECK_DEADLOCK FALSE
INVARIANTS
  SkipIsJustified
  DuplicatesNeedFaults
