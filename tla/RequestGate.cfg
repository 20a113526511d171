SPECIFICATION FairSpec
CONSTANTS
  Tasks = {t1, t2, t3, t4}
  Permits = 2
  Gap = 1
  MaxDelay = 2
INVARIANTS
  PermitsAccounted
  DelayKept
PROPERTIES
  ExclusiveAfterDelay
  QueueServed
  ExclusiveSent
