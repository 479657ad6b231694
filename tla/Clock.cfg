SPECIFICATION CkSpec
CONSTANTS
  TOP = 4
  MS = 3
  WRAP = 4
  WORD = 16
  MSECS = 2
  HOLD = 1
  GAP = 8
  Delays = {2}
INVARIANTS
  
  MillisExact
  NeverShort

  
