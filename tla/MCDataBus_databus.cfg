SPECIFICATION Spec
CONSTANTS
  Width = 2
  Height = 3
  LF = 2
  CR = 3
  Question = 63
  Glyph = 5
  LaneSize = 6
  DataSize = 2
  Nothing = Nothing
  InitRam <- MCInitRam
  Accesses <- MCAccesses
INVARIANTS TypeOK CursorInv
PROPERTIES ImplementsByteMemory ImplementsTerminal
CONSTRAINT OneDevice
