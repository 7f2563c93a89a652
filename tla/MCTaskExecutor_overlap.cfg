SPECIFICATION Spec
CONSTANTS
  Task = {t1}
  Exec = {e1, e2}
  Killer = {k1}
  Origins = {"task", "interval", "startup", "stream"}
  Pid = {p1, p2}
  MaxAccounts = 1
  SystemMax = 2
  PidReuse = FALSE
  KillSpawnFails = FALSE
  None = None
SYMMETRY Symmetry
INVARIANT RegistryBacked
INVARIANT Killable
