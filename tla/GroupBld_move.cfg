CONSTANTS
  a = a
  b = b
  p = p
  va = va
  vb = vb
  x = x
  y = y
  Client = {1, 2}
  Requests <- FewRequests
  Name = {a, b}
  Group = {a, p, va, vb}
  Id = {1, 2, 3}
  Text = {a, b, x, y}
  None = None
  AUTOID = AUTOID
  Garbage = {3}
  InitUsers <- MCUsers
  InitGroups <- MCGroups
  MaxCalls = 2
  Transform <- MCTransform
  Prefixed = {va, vb}
  Limit_group = {a}
SPECIFICATION BldSpec
INVARIANT OneVUG
CHECK_DEADLOCK FALSE
