SPECIFICATION FairSchedule
CONSTANTS
  Client = {c1, c2}
  Daemon = Daemon
  Inode = {i1, i2, i3, i4, i5, i6}
  None = None
  MaxKills = 1
  MaxFailures = 2
INVARIANTS ScheduleTypeOK AlwaysReadable RunsAreCounted
PROPERTIES ImplementsQueue QueuedIsRun
