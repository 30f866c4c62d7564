CONSTANTS
  p1 = p1
  p2 = p2
  s1 = s1
  s2 = s2
  Profiles = {p1, p2}
  Spans = {s1, s2}
  FirstPlan <- MCFirstPlan
  LinePlan <- MCLinePlan
  None = none
  Hops = 2
  TimeoutLimit = 0
  MaxCommands = 1
SPECIFICATION FairSpec
INVARIANTS
  SweepsWhatItSaid
  JoinedBeforeClose
PROPERTIES
  LatestPlanApplied
  SweepsAsAsked
  WedgeIsFatal
  SilenceIsFatal
  ShutdownEnds
CHECK_DEADLOCK FALSE
