\* Three jobs of any kind over two names, an ARM write and a restart.  No
\* symmetry: the run also checks liveness.
SPECIFICATION FairSpec
CONSTANTS
  s1 = s1
  s2 = s2
  t1 = t1
  t2 = t2
  Name = {s1, s2}
  Tenant = {t1, t2}
  Nil = Nil
  NoDump = NoDump
  Torn = Torn
  Free = Free
  Retention = 2
  MaxJobs = 3
  MaxPuts = 1
  MaxRestarts = 1
INVARIANTS
  TypeOK
  GateFreeMeansSettled
  RegistryBounded
  SuccessServesTenant
  SuccessPublishesDump
  SnapshotsAreWhole
  RestoreKeepsRevision
PROPERTIES
  ArchiveHeld
  RestoreIsAtomic
  JobsEnd
CHECK_DEADLOCK FALSE
