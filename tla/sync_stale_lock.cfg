SPECIFICATION StaleSpec
CONSTANTS
  p1 = p1
  p2 = p2
  t1 = t1
  t2 = t2
  t3 = t3
  t4 = t4
  main_db = main_db
  openai = openai
  mirror = mirror
  Procs = {p1, p2}
  Threads = {t1, t2, t3, t4}
  Dbs = {main_db}
  Providers = {openai, mirror}
  MarkedByRow = {t1, t3}
  MarkedByRollout = {t4}
  UserThreads = {t1}
  Free = Free
  Gone = Gone
  Nobody = Nobody
  NoRow = NoRow
  NoThread = NoThread
  NoBackup = NoBackup
  MaxAppends = 0
  MaxFaults = 0
  MaxCrashes = 0
INVARIANT OneSyncer
CHECK_DEADLOCK FALSE
