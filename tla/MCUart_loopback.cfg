SPECIFICATION FairLinkSpec
CONSTANTS
  CyclesPerBit = 3
  DelaySize = 4
  MessageLen = 2
  ChecksumSize = 8
  Nobody = Nobody
  Message <- MCMessage
  Accesses <- MCAccesses
INVARIANTS TypeOK LinkInv
PROPERTIES ImplementsChannel CharacterTaken MessageOnTime MessageInOrder MessageEnds
