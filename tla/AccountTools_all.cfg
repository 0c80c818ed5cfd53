CONSTANTS
  a = a
  b = b
  g = g
  h = h
  x = x
  y = y
  slash = slash
  srv = srv
  srv_a = srv_a
  srv_b = srv_b
  root = root
  None = None
  AUTOUID = AUTOUID
  AUTOUID_SYS = AUTOUID_SYS
  Requests <- MCRequests
  Name = {root, a, b}
  Group = {g, h, b}
  Dir = {slash, srv, srv_a, srv_b}
  Person = {x, y}
  Uid = {0, 1, 2, 3}
  Gid = {0, 1, 2}
  Day = {0, 1, 2}
  UserIds = {2}
  SysIds = {1}
  Slash = slash
  Shallow = {slash, srv}
  Below <- MCBelow
  InitDb <- MCDb
  InitDirs <- MCDirs
  Faults = {"open", "mkdir", "kill"}
  MaxRuns = 4
SPECIFICATION Spec
INVARIANT AllOrNothing
INVARIANT NamesAndIdsUnique
INVARIANT HomesKept
PROPERTY PrimaryKept
CHECK_DEADLOCK FALSE
