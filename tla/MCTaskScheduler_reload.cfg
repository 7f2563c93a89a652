SPECIFICATION Spec
CONSTANTS
  Task = {t1, t2}
  Handler = {h1, h2}
  Boot = boot
  Scheds = {"cron", "interval", "partial"}
  MaxEdits = 3
  Cancels = TRUE
  DbFails = TRUE
  Bypass = TRUE
  None = None
SYMMETRY Symmetry
INVARIANT TypeOK
INVARIANT CoveredWhenQuiet
INVARIANT ReloadExact
CHECK_DEADLOCK FALSE
