CONSTANTS
  Calls = {c1, c2}
  Plans = {p1, p2}
  Announced = announced
  Closers = {close}
  MaxInbox = 1
SPECIFICATION FairSpec
INVARIANTS
  OneVerdict
  WaitersMatch
  SilenceIsTimed
  StoppedIsReleased
PROPERTIES
  NoFatalOnStop
  LossIsReported
  StopEndsEngine
  StartSettles
  CallsSettle
CHECK_DEADLOCK FALSE
