SPECIFICATION PortSpec
CONSTANTS
  SERIAL_BUFFER_SIZE = 4
  Byte = {1, 2, 3}
  MAX_RX_BUFF = 4
  BITS = 2
  Speeds = {19200, 250000}
INVARIANTS
  ByteStays
  ReadyIsThere
PROPERTIES
  QueueSpec
  SoftQueueSpec
