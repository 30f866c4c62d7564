\* Words of two units of 0..15; two points; every cut into three pieces.
CONSTANTS
  Base = 16
  NaN = 255
  MaxPoints = 2
  MaxStepHz = 25
  MaxFrame = 200
  MaxPieces = 3
  Streams <- MCStreams
  Detectors = {"rms", "min"}
SPECIFICATION Spec
INVARIANTS TypeOK FramesAsSent PointsAreMeasured
CHECK_DEADLOCK FALSE
