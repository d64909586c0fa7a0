\* Two jobs whose preparation or engine may raise, and a
\* page with two polls under way at once.
SPECIFICATION PageSpec
CONSTANTS
  j1 = j1
  j2 = j2
  r1 = r1
  r2 = r2
  Jobs = {j1, j2}
  NoJob = NoJob
  Polls = {r1, r2}
INVARIANTS
  PageTypeOK
  OneEngine
  DoneIsDone
PROPERTIES
  FinishIsOwn
  JobEndsUnlessDead
  PageSettles
