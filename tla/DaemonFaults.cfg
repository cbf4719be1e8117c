SPECIFICATION FairDaemon
CONSTANTS
  d1 = d1
  p1 = p1
  p2 = p2
  NoPool = NoPool
  Global = Global
  Device = {d1}
  Wait = 1
  VerifyIdle = 1
  TrackWake = TRUE
  Steps = {1}
  Pool = {p1}
  FreeDisk = {}
  ManagedPool = {p1}
  Windowed = {}
  Protected = {}
  BootPool = NoPool
  InitialPool <- OneDiskInPool
  MayJoin <- OneDiskComesAndGoes
  Cumulative = TRUE
  Faults = {"sample", "command", "zpool", "pgrep"}
PROPERTIES WakeIsNoticed QuietDiskIsSlept
INVARIANT ReportedAsleepIsDown
