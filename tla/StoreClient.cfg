SPECIFICATION FPSpec
CONSTANTS
  Records = {r1}
  PREFIX <- BeforeCarry
  UID_LAST = 4
  FilesNamed <- AboutCarry
  LinesPerFile = 2
PROPERTIES
  OthersKeepTheirLines
  NextNameFollows
