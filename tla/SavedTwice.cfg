SPECIFICATION Spec
CONSTANTS
  Records = {c1, c2}
  NoSerial = none
  PREFIX <- LauncherPrefix
  UID_LAST = 3
  Connected = {TRUE, FALSE}
  PACKET = 2
  LIST_LENGTH = 1
  MaxLines = 2
  MaxLosses = 0
PROPERTY
  NotSavedAgain
