\* Four tasks on threads or in processes of their own, one of them offline.
CONSTANTS
  t1 = t1
  t2 = t2
  t3 = t3
  t4 = t4
  Tasks = {t1, t2, t3, t4}
  NoTask = NoTask
  Offline = {t4}
  SharedExecutor = FALSE
SPECIFICATION FairCacheSpec
PROPERTIES CacheIsSafe EnsureEnds
CHECK_DEADLOCK FALSE
