SPECIFICATION EitherSpec
CONSTANTS
  SERIAL_BUFFER_SIZE = 3
  Settings <- EverySetting
  MaxWrites = 6
INVARIANTS
  BusTypeOK
  ExactlyOnceInOrder
  FlushedMeansSent
  DrivesWhatItSends
PROPERTY
  CallsReturn
