CONSTANTS
  u1 = u1
  u2 = u2
  g1 = g1
  a = a
  a1 = a1
  a2 = a2
  a3 = a3
  a4 = a4
  None = None
  Uuid = {u1, u2}
  UuidOrder <- Order
  Pvgrp = {g1}
  Name = {a, a1, a2, a3, a4}
  LName <- Propose
  format_name <- Variants
  MaxIndex = 4
  InitAccounts <- Start
  Defer = 2
  PostaddFlush = TRUE
  WriteThrough = FALSE
  Faults = {"fail", "skip", "crash"}
  Programs = {"usersync", "newuser", "steelmill"}
  MaxDay = 3
SPECIFICATION Spec
INVARIANT UuidOnce
INVARIANT NewNamesFree
INVARIANT OutsidersUntouched
INVARIANT SyncComplete
PROPERTY KeptSinceDone
