SPECIFICATION DaemonSpec
CONSTANTS
  d1 = d1
  p1 = p1
  p2 = p2
  NoPool = NoPool
  Global = Global
  Device = {d1}
  Wait = 1
  VerifyIdle = 1
  TrackWake = TRUE
  Steps = {1, 2}
  Pool = {p1}
  FreeDisk = {d1}
  ManagedPool = {p1}
  Windowed = {p1}
  Protected = {}
  BootPool = NoPool
  InitialPool <- OneDiskFree
  MayJoin <- OneDiskJoins
  Cumulative = TRUE
  Faults = {}
INVARIANT NoSleepInsideWindow
