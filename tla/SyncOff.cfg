\* Without move detection; any run may resume; headers may fail to load.
SPECIFICATION Spec
CONSTANTS
  p1 = p1
  b1 = b1
  A = A
  B = B
  C = C
  m1 = m1
  m2 = m2
  Pairs = {p1}
  Boxes = {b1}
  SrcOf <- OnePair
  Folders = {A, B}
  TFolders = {"TA", "TB"}
  MapFolder <- Apart
  Msgs = {m1, m2}
  HasMid = {m1}
  DeletedMsgs = {}
  Start <- StartAll
  MaxUid = 2
  Policy = "off"
  AllowTargetDelete = {FALSE}
  Resume = {TRUE, FALSE}
  RetryCount = 2
  AppendUid = TRUE
  TargetMoves = TRUE
  HeadersMayFail = TRUE
  MaxRuns = 2
  MaxFaults = 2
  MaxUserSteps = 1
CHECK_DEADLOCK FALSE
INVARIANTS
  TypeOK
  SuccessIsOnTarget
  SkipIsJustified
  SettledIsOnTarget
  DuplicatesNeedFaults
PROPERTIES
  RerunAppendsOnlyNew
  AtLeastOnce
