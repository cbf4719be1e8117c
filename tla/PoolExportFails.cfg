SPECIFICATION FairPools
CONSTANTS
  p1 = p1
  p2 = p2
  v1 = v1
  v2 = v2
  v3 = v3
  Daemon = daemon
  Shell = {}
  Pool = {p1, p2}
  VM = {v1, v2}
  PoolOf <- TwoPools
  BootPool = noPool
  ExportPools = {p1}
  VMMode = "suspend"
  Tasks = {}
  Commands = {}
  Idle = {}
  Faults = {"export"}
  CrashPoints = {}
  MaxCrashes = 0
PROPERTY VMsComeBack
