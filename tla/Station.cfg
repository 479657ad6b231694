SPECIFICATION FairSpec
CONSTANTS
  Records = {c1, c2}
  NoSerial = none
  PREFIX <- LauncherPrefix
  UID_LAST = 3
  Connected = {TRUE, FALSE}
  PACKET = 2
  LIST_LENGTH = 1
  MaxLines = 3
  MaxLosses = 1
INVARIANTS
  TypeOK
  HandleReleased
  SendsWithinFile
PROPERTIES
  
  LoopReturns
