SPECIFICATION TBSpec
CONSTANTS
  PcCount = 16
  HartCount = 8
  RegCount = 4
  RegfileHarts = 4
  MappedWriteSize = 8
  CodeSize = 8
  DataSize = 2
  RegionCount = 16
  CodeRegion = 0
  MemRegion = 8
  RegfileRegion = 14
  DebugRegion = 15
  BootPc = 1
  DONTCARE = {0}
  Decode <- MCDecode
  Alu <- MCAlu
  InitRam <- DeviceFiles
  InitCode <- DeviceImages
  InitData <- ZeroData
  CyclesPerBit = 2
  DelaySize = 4
  MessageLen = 2
  ChecksumSize = 4
  Nobody = Nobody
  Message <- MCMessage
  Width = 2
  Height = 2
  LF = 10
  CR = 13
  Question = 63
  Glyph = 30
  UartRegion = 11
  UartBlock = 4
  ConsoleRegions = {4, 5}
INVARIANT AnswersMatch
PROPERTIES Console5Shows PrintsTurn SendsTurn MessageShown Console5Types ConsolesType
CONSTRAINT Lawful
