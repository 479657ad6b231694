SPECIFICATION Spec
CONSTANTS
  OnTime = {"data"}
  Sizes = {1, 2}
  MaxBytes = 4
  MaxUnread = 4
INVARIANT
  DataInOrder
PROPERTY
  CallsReturn
CHECK_DEADLOCK FALSE
