\* Two messages per 6 ticks, a bucket of two messages.
SPECIFICATION Spec
CONSTANTS
  t1 = t1
  t2 = t2
  Threads = {t1, t2}
  NoThread = NoThread
  Cost = 3
  Cap = 6
  MaxTime = 12
CHECK_DEADLOCK FALSE
INVARIANTS
  TypeOK
  AtMostTwice
