CONSTANTS
  a = a
  b = b
  g = g
  h = h
  x = x
  u = u
  p1 = p1
  p2 = p2
  NULL = NULL
  NoProc = NoProc
  LockedPw = LockedPw
  UserName = {a, b}
  GroupName = {g, h}
  Password = {x, LockedPw}
  Uuid = {u}
  Id <- MCId
  UidMin = 2
  UidMax = 3
  GidMin = 2
  GidMax = 3
  Proc = {p1, p2}
  Privileged = {p1, p2}
  OpenFlags <- ReadOrWrite
  LockCallers = {p2}
  UnlockCallers = {}
  HasVx = TRUE
  InitDisks <- OneDisk
  AddRq <- FewAddRq
  ModRq <- FewModRq
  GroupAddRq <- NoRq
  GroupModRq <- FewGroupModRq
  CrashPoints <- Anywhere
  MaxOps = 1
  MaxSessions = 2
  MaxCrashes = 1
SPECIFICATION Spec
INVARIANT FlushHoldsLock
INVARIANT NoLostUpdate
INVARIANT FilesAgree
INVARIANT WriterHoldsLock
