SPECIFICATION ClientTargetsSpec
CONSTANTS
  Inbounds = {1, 2, 3, 4}
  ServerOf <- OneServer
  ShapeOf <- TwoShapes
  PANEL_ATTEMPTS = 4
  MaxTargetOps = 2
  MaxTargetFaults = 0
INVARIANT
  FullMembership
CHECK_DEADLOCK FALSE
