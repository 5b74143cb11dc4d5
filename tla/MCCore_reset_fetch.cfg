SPECIFICATION RefSpec
CONSTANTS
  PcCount = 16
  HartCount = 8
  RegCount = 4
  RegfileHarts = 4
  MappedWriteSize = 8
  CodeSize = 8
  DataSize = 2
  RegionCount = 16
  CodeRegion = 0
  MemRegion = 8
  RegfileRegion = 14
  DebugRegion = 15
  BootPc = 1
  DONTCARE = {0}
  Decode <- MCDecode
  Alu <- MCAlu
  InitRam <- ResetFiles
  InitCode <- ResetImages
  InitData <- ZeroData
INVARIANT FetchedAtPc
