\* A generate whose child fails after its commit.
SPECIFICATION Spec
CONSTANTS
  s1 = s1
  s2 = s2
  t1 = t1
  t2 = t2
  Name = {s1}
  Tenant = {t1}
  Nil = Nil
  NoDump = NoDump
  Torn = Torn
  Free = Free
  Retention = 2
  MaxJobs = 1
  MaxPuts = 0
  MaxRestarts = 0
INVARIANTS
  IdentityTracksTenant
CHECK_DEADLOCK FALSE
