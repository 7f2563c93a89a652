SPECIFICATION FairSpec
CONSTANTS
  Id = {i1, i2}
  Package = {p1}
  Client = {c1, c2}
  Job = {j1}
  Boot = Boot
  MaxCrash = 1
  Cancels = TRUE
  DbFails = TRUE
  None = None
INVARIANT OneAtATime
INVARIANT NothingForgotten
PROPERTY InstallSettles
PROPERTY StartupTasksRun
CHECK_DEADLOCK FALSE
