SPECIFICATION StartSpec
CONSTANTS
  Hours = 3
  HourLength = 2
  Day = 6
  MaxWindows = 2
  DefaultWait = 600
  Disk <- MCDisk
  Lettered <- MCLettered
  Shortened <- MCShortened
  NoDisk = "sd"
  Pool = {"p1", "p2"}
  NoPool = "none"
  Cases <- MCCases
INVARIANTS
  StartTypeOK AskedIsLoaded LineOrderIsFree
  ProtectedNeverSlept RegularDisksAreManaged BusyDiskIsSeen OwnWindowDecides
  LoadedAreDisjoint RefusedForAReason SleepRefusedInWindows
PROPERTY EditsKeepTheRest
