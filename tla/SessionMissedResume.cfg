SPECIFICATION Spec
CONSTANTS
  MaxDials = 2
  Faults = {"badPin"}
INVARIANTS
  MissedResumeFallsBack
CHECK_DEADLOCK FALSE
