SPECIFICATION Spec
CONSTANTS
  BPB_BytsPerSec = 4
  BPB_SecPerTrk = 5
  SectorNoOfFAT1 = 1
  BPB_FATSz16 = 3
  TotSec = 15
  RootDirSectors = 2
  EntriesPerSector = 2
  SectorNoOfRootDirectory = 7
  DeltaSectorNo = 5
  OffsetOf <- Offsets
  SegmentSize = 16
  Discs <- Floppies
  MemoryMaps <- Maps
  BiosMayFail = TRUE
  DWORD = 16
  PTES = 4
  ProgramHeaders <- Headers
INVARIANTS
  LoadIsExact
  KernelInPlace
  MemoryMapped
PROPERTY BootEnds
