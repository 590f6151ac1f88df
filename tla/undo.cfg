\* One client against two drift commands, under the fairness of the lock queues.
SPECIFICATION FairSpec
CONSTANTS
  p = p
  c = c
  m = m
  u1 = u1
  u2 = u2
  d1 = d1
  Id = {p, c}
  Baseline = {p, c}
  Below <- ChildOfP
  Field = {"props"}
  Val = {0, 1}
  BaseBody <- ZeroBody
  Client = {u1}
  Drifter = {d1}
  NoBody = NoBody
  NoTx = NoTx
  MaxRequests = 1
  MaxOps = 2
  Scopes <- WholeTenant
  Mintable = {}
  MintBody <- OneBody
  Referenced = {}
  Payload <- OnlyOne
  Patches <- WholeBody
  DriftVal = {1}
PROPERTIES
  UserOwnershipIsLatched
  EveryTransactionEnds
CHECK_DEADLOCK FALSE
