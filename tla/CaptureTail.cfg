\* Mid-capture, a chunk is lost to a full ring or found muted.
CONSTANTS
  ChunkLength = 3
  Window = 4
  MinSamples = 2
  Guard = 1
  DdcGuard = 1
  Slack = 1
  Patience = 0
  RetunePatience = 0
  Positions = 2
  Windows = 3
  RingSlots = 2
  RequestSlots = 2
  None = None
  MaxTime = 27
  MaxSweeps = 2
  MaxEpochs = 0
  MaxFaults = 1
SPECIFICATION Spec
INVARIANT TailIsOwn
CHECK_DEADLOCK FALSE
