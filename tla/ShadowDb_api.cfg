CONSTANTS
  a = a
  b = b
  g = g
  h = h
  x = x
  u = u
  p1 = p1
  p2 = p2
  NULL = NULL
  NoProc = NoProc
  LockedPw = LockedPw
  UserName = {a, b}
  GroupName = {g, h}
  Password = {x, LockedPw}
  Uuid = {u}
  Id <- MCId
  UidMin = 2
  UidMax = 3
  GidMin = 2
  GidMax = 3
  Proc = {p1, p2}
  Privileged = {p1, p2}
  OpenFlags <- ReadOrWrite
  LockCallers = {}
  UnlockCallers = {}
  HasVx = TRUE
  InitDisks <- MCInitDisks
  AddRq <- MCAddRq
  ModRq <- MCModRq
  GroupAddRq <- MCGroupAddRq
  GroupModRq <- MCGroupModRq
  CrashPoints = {}
  MaxOps = 2
  MaxSessions = 1
  MaxCrashes = 0
SPECIFICATION Spec
INVARIANT TypeOK
INVARIANT HolderInSync
PROPERTY Serializable
SYMMETRY Symmetry
