SPECIFICATION GSpec
CONSTANTS
  MAX_ADDRESSES = 2
  Addresses = {0, 1, 3, 255}
  MessageSize = 4
  Strays <- Noise
  RingSize = 8
  RecordSize = 3
  MaxPort = 5
  MaxQuiet = 1
INVARIANTS
  LookupExact
  RefusesOnlyKnownOrFull
  IInv
  AckedIsKnown
  HangsOnlyOnFrames
PROPERTIES
  CellsNeverOverwritten
