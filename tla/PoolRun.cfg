\* Three mailboxes, two threads, one connection slot per server; three failures.
SPECIFICATION FairSpec
CONSTANTS
  t1 = t1
  t2 = t2
  t3 = t3
  Tasks = {t1, t2, t3}
  MaxWorkers = 2
  SrcLimit = 1
  TgtLimit = 1
  Resume = TRUE
  OldJobs <- AnyOldJobs
  MaxFaults = 3
CHECK_DEADLOCK FALSE
INVARIANTS
  TypeOK
  CountersMatch
  AllDecided
  ConnectionsClosed
PROPERTIES
  RunReturns
