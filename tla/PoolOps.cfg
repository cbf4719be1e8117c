SPECIFICATION FairPools
CONSTANTS
  p1 = p1
  p2 = p2
  v1 = v1
  v2 = v2
  v3 = v3
  Daemon = daemon
  Shell = {shell}
  Pool = {p1, p2}
  VM = {v1, v2}
  PoolOf <- TwoPools
  BootPool = p2
  ExportPools = {p1}
  VMMode = "suspend"
  Tasks <- StandbyTask
  Commands <- VMCommands
  Idle = {v2}
  Faults = {"replication", "list", "command", "config", "export", "import", "wakevm", "timeout"}
  CrashPoints = {"vmSleep", "load", "save", "export", "spinDown", "import", "spinUp", "recall"}
  MaxCrashes = 1
INVARIANT PoolTypeOK RecordedAreAsleep
PROPERTIES TimetableIsFollowed ImplementsRecord
