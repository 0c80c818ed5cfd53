CONSTANTS
  ldap = ldap
  shadow = shadow
  a = a
  b = b
  c = c
  g = g
  h = h
  None = None
  Readers <- OneReader
  Writer = ldap
  Name <- Names2
  InitDb <- Start
  InitSg <- StartSg
  Wanted = {4, 14, 15}
  AutoRange <- Ranges
  M = 16
  ENOSPC = 3
  LongIsInt = FALSE
  MaxEntries = 2
SPECIFICATION Spec
INVARIANT AllOrNothing
INVARIANT TraversalComplete
INVARIANT ReadsAgree
PROPERTY ChangesVisible
PROPERTY AutoIdIsNew
