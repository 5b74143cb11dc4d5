SPECIFICATION LinkSpec
CONSTANTS
  CyclesPerBit = 3
  DelaySize = 4
  MessageLen = 2
  ChecksumSize = 16
  Nobody = Nobody
  Message <- MCMessage
  Accesses <- MCAccesses
INVARIANT ReadyTakes
