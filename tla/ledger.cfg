\* Three drift commands, applies, reverts and resets in any order, beside a request.
SPECIFICATION Spec
CONSTANTS
  p = p
  c = c
  m = m
  u1 = u1
  u2 = u2
  d1 = d1
  Id = {p, m}
  Baseline = {p}
  Below <- ChildOfP
  Field = {"props"}
  Val = {0, 1}
  BaseBody <- ZeroBody
  Client = {u1}
  Drifter = {d1}
  NoBody = NoBody
  NoTx = NoTx
  MaxRequests = 1
  MaxOps = 3
  Scopes <- WholeTenant
  Mintable = {m}
  MintBody <- OneBody
  Referenced = {}
  Payload <- OnlyOne
  Patches <- WholeBody
  DriftVal = {1}
INVARIANTS
  LedgerExplainsServedState
  RecordsExplainResult
CHECK_DEADLOCK FALSE
