CONSTANTS
  Docs <- MCDocs
  BufferSize = 3
  Dpi = 3
  Faults = {"tmp", "tee", "gs", "fork", "sql", "backend"}
  MaxAttempts = 2
SPECIFICATION Spec
INVARIANT CostRight
INVARIANT EntryMade
INVARIANT ConfirmedPrinted
PROPERTY JobEnds
CHECK_DEADLOCK FALSE
