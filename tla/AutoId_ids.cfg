CONSTANTS
  M = 16
  ENOSPC = 3
  IdMin = 3
  IdMax = 6
  Explicit = {0, 2, 4, 5, 6, 12}
  MaxUsers = 4
SPECIFICATION Spec
INVARIANT ChosenIsFree
INVARIANT LowestOrNext
INVARIANT GivenWithinLimits
