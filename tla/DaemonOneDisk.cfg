SPECIFICATION DaemonSpec
CONSTANTS
  d1 = d1
  p1 = p1
  p2 = p2
  NoPool = NoPool
  Global = Global
  Device = {d1}
  Wait = 3
  VerifyIdle = 2
  TrackWake = TRUE
  Steps = {1, 2}
  Pool = {p1, p2}
  FreeDisk = {}
  ManagedPool = {p1, p2}
  Windowed = {p1}
  Protected = {}
  BootPool = p2
  InitialPool <- OneDiskInPool
  MayJoin <- OneDiskChangesPool
  Cumulative = TRUE
  Faults = {"command"}
INVARIANTS DaemonTypeOK SleepOnlyWhenIdle SleepOnlyTrulyIdle NoSleepInsideWindow BootPoolNeverSlept
PROPERTIES RunningReplicationIsSafe ImplementsPolicy
