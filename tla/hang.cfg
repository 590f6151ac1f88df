\* A save and a restore of it whose pg_restore hangs.
SPECIFICATION KillSpec
CONSTANTS
  s1 = s1
  s2 = s2
  t1 = t1
  t2 = t2
  Name = {s1}
  Tenant = {t1}
  Nil = Nil
  NoDump = NoDump
  Torn = Torn
  Free = Free
  Retention = 2
  MaxJobs = 2
  MaxPuts = 0
  MaxRestarts = 0
PROPERTIES
  JobsEnd
CHECK_DEADLOCK FALSE
