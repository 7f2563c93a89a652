SPECIFICATION FairSpec
CONSTANTS
  Task = {t1}
  Exec = {e1}
  Killer = {k1}
  Origins = {"task"}
  Pid = {p1, p2, p3}
  MaxAccounts = 3
  SystemMax = 2
  PidReuse = FALSE
  KillSpawnFails = TRUE
  None = None
INVARIANT TypeOK
INVARIANT SuccessHonest
INVARIANT BatchesInOrder
INVARIANT PostAfterMain
PROPERTY RunRecorded
PROPERTY RunEnds
