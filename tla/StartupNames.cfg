SPECIFICATION StartSpec
CONSTANTS
  Hours = 3
  HourLength = 2
  Day = 6
  MaxWindows = 2
  DefaultWait = 600
  Disk <- MCDisk
  Lettered <- MCLettered
  Shortened <- MCShortened
  NoDisk = "sd"
  Pool = {"p1", "p2"}
  NoPool = "none"
  Cases <- ManyDisksCases
INVARIANT PoolDisksAreManaged
