SPECIFICATION Spec
CONSTANTS
  Sub = {s1}
  Name = {n1, n2}
  Handler = {h1}
  Run = {r1, r2}
  MaxEdits = 2
  MaxCrashes = 1
  Task = {t1, t2}
  Cancels = TRUE
  DbFails = TRUE
  None = None
SYMMETRY Symmetry
INVARIANT TypeOK
INVARIANT RunningMeansRun
INVARIANT AloneImports
INVARIANT DeletedLeavesNothing
CHECK_DEADLOCK FALSE
