SPECIFICATION Spec
CONSTANTS
  Tasks = {t1, t2}
  Auths = {a1}
  NoAuth = NoAuth
  Workers = {w1, w2}
  Waiters = {}
  Listers = {l1}
  Ttls <- EdgeTtls
  NoTtl = NoTtl
  MaxTtl = 1
  MaxActive = 1
  PageSize = 1
  MaxTime = 1
  NoTask = NoTask
SYMMETRY TaskSymmetry
CHECK_DEADLOCK FALSE
INVARIANTS
  ListingComplete
  EndAnnouncedOnce
