SPECIFICATION Spec
CONSTANTS
  Kinds = {"fake", "real"}
  Requests <- AllRequests
  Default <- DefaultPlan
  MaxStep = 20
  Ratios = {1, 10}
  MaxCalls = 3
  MaxLines = 2
  MaxFrames = 2
INVARIANTS TypeOK EchoIsInForce TraceOnEchoedAxis
PROPERTIES AveragingIsKept TracesArrive
CHECK_DEADLOCK FALSE
