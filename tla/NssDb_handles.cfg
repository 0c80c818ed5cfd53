CONSTANTS
  p1 = p1
  p2 = p2
  x = x
  y = y
  None = None
  Handle <- Handles
  Driver = {"nss", "nss1"}
  Database <- Names
  Conf <- Files
  Default = "nss"
  Provides <- Functions
  Start <- Before
  Hosts <- BothHosts
  Bare <- BareNames
  Ids = {1, 2}
  Password = {x, y}
SPECIFICATION Spec
INVARIANT TypeOK
INVARIANT NoLeak
INVARIANT WalkRight
INVARIANT AnswerWhole
SYMMETRY Symmetry
