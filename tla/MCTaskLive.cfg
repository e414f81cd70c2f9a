SPECIFICATION FairSpec
CONSTANTS
  Tasks = {t1, t2}
  Auths = {a1}
  NoAuth = NoAuth
  Workers = {w1}
  Waiters = {v1}
  Listers = {}
  Ttls <- EdgeTtls
  NoTtl = NoTtl
  MaxTtl = 1
  MaxActive = 2
  PageSize = 1
  MaxTime = 1
  NoTask = NoTask
CHECK_DEADLOCK FALSE
INVARIANTS
  ResultIsFinal
PROPERTIES
  EndedTaskAnswersWaiters
  TtlEndsWait
