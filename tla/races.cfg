\* Two requests against each other and against drift, over a parent and child.
SPECIFICATION Spec
CONSTANTS
  p = p
  c = c
  m = m
  u1 = u1
  u2 = u2
  d1 = d1
  Id = {p, c}
  Baseline = {p, c}
  Below <- ChildOfP
  Field = {"props"}
  Val = {0, 1}
  BaseBody <- ZeroBody
  Client = {u1, u2}
  Drifter = {d1}
  NoBody = NoBody
  NoTx = NoTx
  MaxRequests = 2
  MaxOps = 1
  Scopes <- WholeTenant
  Mintable = {}
  MintBody <- OneBody
  Referenced = {}
  Payload <- OnlyOne
  Patches <- NoneOrAll
  DriftVal = {1}
SYMMETRY ClientSymmetry
INVARIANTS
  TypeOK
  NoLostUserUpdate
  CascadeSweepsUserRows
PROPERTIES
  EtagNeverReused
  OverlayIsAtomic
CHECK_DEADLOCK FALSE
