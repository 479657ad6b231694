SPECIFICATION Spec
CONSTANTS
  s1 = s1
  s2 = s2
  s3 = s3
  Subscriptions = {s1, s2, s3}
  callback <- Callbacks
  timeout <- Periods
  TICKS = 8
  NULL = NULL
INVARIANT
  NeverLate
PROPERTIES
  WalkEnds
  DueAreCalled
