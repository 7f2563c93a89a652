SPECIFICATION Spec
CONSTANTS
  Task = {t1, t2}
  Handler = {h1}
  Boot = boot
  Scheds = {"cron", "partial"}
  MaxEdits = 3
  Cancels = FALSE
  DbFails = FALSE
  Bypass = FALSE
  None = None
INVARIANT DisabledStops
CHECK_DEADLOCK FALSE
