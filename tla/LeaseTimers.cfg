SPECIFICATION FairSpec
CONSTANTS
  Process = {p1, p2}
  Task = {t1, t2}
  LeaseId = {l1, l2}
  TTL = 2
  RenewInterval = 1
  RenewMayRaise = TRUE
INVARIANTS
  TypeOK
  LapseNeedsDelay
  OverlapNeedsDelay
PROPERTY OrphansExpire
