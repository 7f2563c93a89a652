SPECIFICATION FairSpec
CONSTANTS
  Request = {r1, r2}
  Nested = {r1}
  Restorer = {s1, s2}
  Backup = {b1}
  Boot = boot
  MaxFiles = 4
  MaxEvents = 2
  AutoRestore = TRUE
  Fails = TRUE
  Cancels = TRUE
  None = None
INVARIANT TypeOK
INVARIANT SureRowsKept
INVARIANT OpenUnlessDead
INVARIANT NobodyStuck
PROPERTY BackupWhole
PROPERTY EveryoneServed
CHECK_DEADLOCK FALSE
