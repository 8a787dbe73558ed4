CONSTANTS
  t1 = t1
  t2 = t2
  k1 = k1
  k2 = k2
  d1 = d1
  d2 = d2
  Threads = {t1, t2}
  Keys = {k1, k2}
  Data = {d1, d2}
  NoData = NoData
  Unlocked = Unlocked
  TTLs = {0}
  DefaultTTL = 1
  MaxTime = 2
SPECIFICATION CacheSpec
INVARIANTS TypeOK UniqueKeys DeleteEffective CleanupComplete
PROPERTIES ExpirationFixed Linearizable LockReleased
CHECK_DEADLOCK TRUE
