SPECIFICATION MfSpec
CONSTANTS
  c1 = c1
  c2 = c2
  c3 = c3
  Cards = {c1, c2, c3}
  NoSerial = NoSerial
  Junk = Junk
  TimerPolls = 1200
  UncheckedFlips = FALSE
SYMMETRY CardSymmetry
INVARIANTS
  RecordOfSerial
  
  SleepersStayUnread
