SPECIFICATION Spec
CONSTANTS
  Task = {t1}
  Exec = {e1}
  Killer = {k1}
  Origins = {"task"}
  Pid = {p1, p2}
  MaxAccounts = 2
  SystemMax = 2
  PidReuse = FALSE
  KillSpawnFails = FALSE
  None = None
PROPERTY KilledRunStartsNothing
