SPECIFICATION Spec
CONSTANTS
  Kinds = {"real"}
  Requests <- AllRequests
  Default <- DefaultPlan
  MaxStep = 20
  Ratios = {1, 10}
  MaxCalls = 2
  MaxLines = 2
  MaxFrames = 2
PROPERTY DroppedIsFollowed
CHECK_DEADLOCK FALSE
