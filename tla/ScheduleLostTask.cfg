SPECIFICATION ScheduleSpec
CONSTANTS
  Client = {c1, c2}
  Daemon = Daemon
  Inode = {i1, i2, i3, i4, i5, i6}
  None = None
  MaxKills = 0
  MaxFailures = 0
INVARIANT QueuedIsKept
