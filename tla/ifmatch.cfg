\* The If-Match claim of the write plane against drift.
SPECIFICATION Spec
CONSTANTS
  p = p
  c = c
  m = m
  u1 = u1
  u2 = u2
  d1 = d1
  Id = {p, c}
  Baseline = {p, c}
  Below <- ChildOfP
  Field = {"props"}
  Val = {0, 1}
  BaseBody <- ZeroBody
  Client = {u1}
  Drifter = {d1}
  NoBody = NoBody
  NoTx = NoTx
  MaxRequests = 1
  MaxOps = 1
  Scopes <- WholeTenant
  Mintable = {}
  MintBody <- OneBody
  Referenced = {}
  Payload <- OnlyOne
  Patches <- WholeBody
  DriftVal = {1}
INVARIANTS
  IfMatchIsAtomic
CHECK_DEADLOCK FALSE
