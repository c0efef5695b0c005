SPECIFICATION FairSpec
CONSTANTS
  Thread = {w1, w2}
  Limit = 1
  Task = {t1}
  Unknown = {u1}
  Malformed <- NoTaskType
  MaxEntries = 1
  MaxBacklog = 1
  MaxRedisFaults = 1
  MaxDbErrors = 1
  MaxStarts = 2
\* A process that has exited and is not started again has nothing to do.
CHECK_DEADLOCK FALSE
INVARIANTS
  PermitsConserved
  AckedIsOver
  StatsNeverUndercount
PROPERTY StopsUnlessLeaked
