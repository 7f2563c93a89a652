SPECIFICATION Spec
CONSTANTS
  Id = {i1, i2}
  Package = {p1, p2}
  Client = {c1, c2}
  Job = {j1, j2}
  Boot = Boot
  MaxCrash = 0
  Cancels = FALSE
  DbFails = FALSE
  None = None
SYMMETRY Symmetry
INVARIANT TypeOK
INVARIANT InstalledIsPresent
CHECK_DEADLOCK FALSE
