\* A window of four samples begins and ends inside chunks of three; one met
\* two samples late is shortened, three leave too few, four none at all.
CONSTANTS
  ChunkLength = 3
  Window = 4
  MinSamples = 2
  Guard = 1
  DdcGuard = 1
  Slack = 1
  Patience = 0
  RetunePatience = 0
  Positions = 2
  Windows = 3
  RingSlots = 2
  RequestSlots = 2
  None = None
  MaxTime = 30
  MaxSweeps = 2
  MaxEpochs = 1
  MaxFaults = 1
SPECIFICATION Spec
INVARIANTS
  DrainedOnHop
  PunctualIsOwn
  ExactOnFlawlessStream
  TraceIsOneSweep
PROPERTY AnswersInOrder
CHECK_DEADLOCK FALSE
