SPECIFICATION SchedSpec
CONSTANTS
  Sub = {s1, s2}
  Name = {n1, n2}
  Handler = {h1, h2}
  Boot = boot
  MaxEdits = 2
  MaxCrashes = 1
  Cancels = TRUE
  DbFails = TRUE
  None = None
SYMMETRY Symmetry
INVARIANT SchedTypeOK
INVARIANT ExactWhenQuiet
PROPERTY AtomicSpec
CHECK_DEADLOCK FALSE
