SPECIFICATION FairSpec
CONSTANTS
  MaxDials = 2
  Faults = {"drop", "restart", "forget", "badPin", "slow", "saveFail", "stop", "control", "noCapture"}
PROPERTIES
  FirstAttemptEnds
CHECK_DEADLOCK FALSE
