SPECIFICATION Spec
CONSTANTS
  Followed = {"lines", "list", "rows"}
  Run = {r1}
  Viewer = {v1, v2}
  MaxLines = 3
  Writers = 2
  BufferMax = 2
  ChannelMax = 2
  None = None
  Member = {m1, m2}
  Task = {t1, t2}
  Killer = {k1}
  Watcher = {w1}
  QueueMax = 1
  NoTask = NoTask
  MaxJobs = 2
  MaxExtras = 2
  Owner = {t1, t2}
  Total = 2
  TotalOn = TRUE
  PerTask = 1
  PerTaskOn = TRUE
  Startup = 3
  DefaultTotal = 3
  DefaultPerTask = 2
  NoRow = NoRow
INVARIANT StreamTypeOK
INVARIANT NoLineTwice
INVARIANT FeedTypeOK
INVARIANT WatcherCurrent
INVARIANT TableTypeOK
INVARIANT RowsBounded
INVARIANT LatestStartKept
PROPERTY ViewsEnd
CHECK_DEADLOCK FALSE
