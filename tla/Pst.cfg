\* One job over two mailboxes, one with three items of two ids, one with mails
\* to list and others to leave, two agents, batches of two, one failure (with one
\* more POST), an operator who pauses and queues it again once.
SPECIFICATION FairSpec
CONSTANTS
  a1 = a1
  a2 = a2
  m1 = m1
  m2 = m2
  m3 = m3
  m4 = m4
  m5 = m5
  Agents = {a1, a2}
  Jobs <- MCJobs
  Mailboxes <- MCMailboxes
  Items = {m1, m2, m3, m4, m5}
  BoxOf <- MCBoxOf
  Ids = {m1, m3, m4, m5}
  IdOf <- MCIdOf
  ModeOf <- MCModeOf
  BatchSize = 2
  MaxRetries = 1
  Settable = {"Queued", "Paused"}
  MaxFaults = 1
  MaxRequeues = 1
CHECK_DEADLOCK FALSE
INVARIANTS
  TypeOK
  RowsAreTrue
  CopiesAreOwed
  HandoutsBounded
  EndIsTruthful
PROPERTIES
  JobEndsUnlessFault
