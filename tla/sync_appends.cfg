SPECIFICATION FreeSpec
CONSTANTS
  p1 = p1
  t1 = t1
  t2 = t2
  t3 = t3
  t4 = t4
  main_db = main_db
  openai = openai
  mirror = mirror
  Procs = {p1}
  Threads = {t1, t2, t3, t4}
  Dbs = {main_db}
  Providers = {openai, mirror}
  MarkedByRow = {t1, t3}
  MarkedByRollout = {t4}
  UserThreads = {t1}
  Free = Free
  Gone = Gone
  Nobody = Nobody
  NoRow = NoRow
  NoThread = NoThread
  NoBackup = NoBackup
  MaxAppends = 1
  MaxFaults = 0
  MaxCrashes = 0
PROPERTY AppendedKept
CHECK_DEADLOCK FALSE
