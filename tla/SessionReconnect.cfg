SPECIFICATION FairSpec
CONSTANTS
  MaxDials = 2
  Faults = {"drop"}
PROPERTIES
  ReconnectsAfterLoss
CHECK_DEADLOCK FALSE
