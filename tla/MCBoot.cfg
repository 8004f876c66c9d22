\* Three file systems, two paths, and a drive that fails up to four times.  The
\* loaders may stop for good: in the kernel, or with an error.
SPECIFICATION PowerSpec
CONSTANTS
  SectorSize = 2
  SectorsPerCluster = 1
  ReservedSectors = 1
  SectorsPerFat = 1
  FatCount = 1
  DirEntryCount = 4
  MAX_FILE_HANDLES = 2
  DataBias = 2
  LoadSize = 4
  MaxFaults = 4
  Floppy <- MCFloppy
  Drives <- MCDrives
  Images <- MCImages
  Paths <- MCPaths
  Dotted <- MCDotted
  VGA_WIDTH = 2
  VGA_HEIGHT = 2
  Text <- MCText
  Address <- MCAddress
  Lines = {0, 1, 12}
  MaxEvents = 3
INVARIANTS
  PowerTypeOK
  Stage2Whole
  KernelWhole
  BufferCurrent
  NullMeansAbsent
  HandlesBalanced
  ConsoleIntact
  SerialLosses
  InterruptsReturn
PROPERTIES
  Stops
CHECK_DEADLOCK FALSE
