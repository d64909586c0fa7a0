\* One click, no failure.
SPECIFICATION FairSpec
CONSTANTS
  None = None
  Commands = {"ImportPst"}
  MaxAsks = 1
  MaxFaults = 0
CHECK_DEADLOCK FALSE
INVARIANTS
  FetchedIsRun
