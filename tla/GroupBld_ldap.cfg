CONSTANTS
  a = a
  b = b
  p = p
  va = va
  vb = vb
  x = x
  y = y
  Client = {1, 2}
  Requests <- MCRequests
  Name = {a, b}
  Group = {a, p, va, vb}
  Id = {1, 2, 3}
  Text = {a, b, x, y}
  None = None
  AUTOID = AUTOID
  Garbage = {3}
  InitUsers <- MCUsers
  InitGroups <- MCGroups
  MaxCalls = 2
  Transform <- MCTransform
  Prefixed = {va, vb}
  Limit_group = {a, 2, None}
SPECIFICATION BldSpec
INVARIANT OneValue
INVARIANT BuildComplete
INVARIANT NoSecondVUG
PROPERTY GidKept
CHECK_DEADLOCK FALSE
